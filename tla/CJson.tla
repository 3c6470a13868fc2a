---------------------------------- MODULE CJson ----------------------------------
(***************************************************************************)
(* The parser of src/utils/json/cJSON.c, as the bme service uses it to     *)
(* read /opt/device.json.  A document is a sequence of symbols: the        *)
(* characters that the parser looks at, and one symbol for a run of        *)
(* letters, for a literal and for the four digits of \uXXXX, since cJSON   *)
(* treats each of those runs alike.                                        *)
(*                                                                         *)
(* A parsing function is given a buffer and an offset (from 1) and returns *)
(* a record: ok, the offset it leaves, the item, and live, the blocks of   *)
(* memory that it has allocated and not freed.                             *)
(***************************************************************************)
EXTENDS Integers, Sequences, TLC

CONSTANTS
    HexCode,    \* what the symbols of four hexadecimal digits stand for
    NestingLimit,   \* CJSON_NESTING_LIMIT, 1000
    IntMax      \* INT_MAX

NUL == "NUL"
Quote == "\""
Backslash == "\\"
Digit == "0" :> 0 @@ "1" :> 1 @@ "2" :> 2 @@ "3" :> 3 @@ "4" :> 4 @@
         "5" :> 5 @@ "6" :> 6 @@ "7" :> 7 @@ "8" :> 8 @@ "9" :> 9
Blank == {" ", "TAB", "LF", "CR", "BS", "FF", NUL}

\* The document as cJSON_Parse sees it: with whatever follows it in memory, up to
\* the first zero byte, which counts.
Buffer(doc, garbage) == doc \o garbage \o <<NUL>>

At(buf, i) == IF i \in 1..Len(buf) THEN buf[i] ELSE "end"

\* The name of an item that has none; an empty name is another one.
NoName == <<NUL>>

\* cJSON_New_Item
NewItem == [type |-> "Invalid", key |-> NoName, text |-> <<>>,
            num |-> <<0, 0>>, int |-> 0, child |-> <<>>]

Result(ok, at, item, live) == [ok |-> ok, at |-> at, item |-> item, live |-> live]

-------------------------------------------------------------------------------
(* What an item owns. *)

\* The blocks that cJSON_Delete gives back: the item, its value and its name, and
\* those of its children.
RECURSIVE Blocks(_)
Blocks(item) ==
    LET Of[n \in 0..Len(item.child)] == IF n = 0 THEN 0 ELSE Of[n - 1] + Blocks(item.child[n])
    IN  1 + (IF item.type = "String" THEN 1 ELSE 0) + (IF item.key # NoName THEN 1 ELSE 0) + Of[Len(item.child)]

\* cJSON_Delete of a list of items.
RECURSIVE DeleteAll(_)
DeleteAll(list) == IF list = <<>> THEN 0 ELSE Blocks(Head(list)) + DeleteAll(Tail(list))

-------------------------------------------------------------------------------
(* Numbers. *)

NumberSymbols == DOMAIN Digit \cup {"+", "-", "e", "E", "."}

RECURSIVE DigitsFrom(_, _)
DigitsFrom(buf, i) == IF At(buf, i) \in DOMAIN Digit THEN 1 + DigitsFrom(buf, i + 1) ELSE 0

RECURSIVE Decimal(_, _, _)
Decimal(buf, i, n) == IF n = 0 THEN 0 ELSE 10 * Decimal(buf, i, n - 1) + Digit[buf[i + n - 1]]

Scaled(n, e) == IF e >= 0 THEN n * 10^e ELSE n \div 10^(0 - e)

\* m * 10^e, without zeros at the end of m.
RECURSIVE Normal(_, _)
Normal(m, e) == IF m = 0 THEN <<0, 0>> ELSE IF m % 10 = 0 THEN Normal(m \div 10, e + 1) ELSE <<m, e>>

\* The number at i that strtod reads: its length, its value, and the integer that
\* a conversion makes of it.
Strtod(buf, i) ==
    LET sign == IF At(buf, i) \in {"-", "+"} THEN 1 ELSE 0
        whole == DigitsFrom(buf, i + sign)
        dot   == IF At(buf, i + sign + whole) = "." THEN 1 ELSE 0
        part  == IF dot = 1 THEN DigitsFrom(buf, i + sign + whole + 1) ELSE 0
        m     == sign + whole + dot + part
        esign == IF At(buf, i + m + 1) \in {"-", "+"} THEN 1 ELSE 0
        power == IF At(buf, i + m) \in {"e", "E"} THEN DigitsFrom(buf, i + m + 1 + esign) ELSE 0
        exp   == Decimal(buf, i + m + 1 + esign, power)
                     * (IF At(buf, i + m + 1) = "-" THEN -1 ELSE 1)
        \* the digits before and after the point, as one number
        all   == Decimal(buf, i + sign, whole) * 10^part + Decimal(buf, i + sign + whole + dot, part)
        one   == IF At(buf, i) = "-" THEN -1 ELSE 1
    IN  IF whole + part = 0 THEN [len |-> 0, num |-> <<0, 0>>, int |-> 0]
        ELSE [len |-> m + (IF power > 0 THEN 1 + esign + power ELSE 0),
              num |-> Normal(one * all, exp - part), int |-> one * Scaled(all, exp - part)]

Saturated(n) == IF n >= IntMax THEN IntMax ELSE IF n <= -IntMax - 1 THEN -IntMax - 1 ELSE n

NumberItem(item, i, number) ==
    IF number.len = 0 THEN Result(FALSE, i, item, 0)
    ELSE Result(TRUE, i + number.len,
                [item EXCEPT !.type = "Number", !.num = number.num, !.int = Saturated(number.int)], 0)

parse_number(item, buf, i) == NumberItem(item, i, Strtod(buf, i))

-------------------------------------------------------------------------------
(* Strings. *)

Utf8(cp) ==
    LET tail(n) == 128 + ((cp \div n) % 64)
    IN  CASE cp < 128   -> <<cp>>
          [] cp < 2048  -> <<192 + (cp \div 64), tail(1)>>
          [] cp < 65536 -> <<224 + (cp \div 4096), tail(64), tail(1)>>
          [] OTHER      -> <<240 + (cp \div 262144), tail(4096), tail(64), tail(1)>>

Bytes(cp) == [n \in 1..Len(Utf8(cp)) |-> ToString(Utf8(cp)[n])]

parse_hex4(symbol) == IF symbol \in DOMAIN HexCode THEN HexCode[symbol] ELSE 0

High(code) == code \in 55296..56319
Low(code)  == code \in 56320..57343

\* utf16_literal_to_utf8: the bytes, and the symbols it takes, none when it fails.
\* The string ends before the offset end.
Utf16Literal(buf, i, end) ==
    LET first  == parse_hex4(buf[i + 2])
        second == parse_hex4(buf[i + 5])
        fail   == [len |-> 0, text |-> <<>>]
    IN  IF end - i < 3 \/ Low(first) THEN fail
        ELSE IF ~High(first) THEN [len |-> 3, text |-> Bytes(first)]
        ELSE IF end - (i + 3) < 3 \/ buf[i + 3] # Backslash \/ buf[i + 4] # "u" \/ ~Low(second) THEN fail
        ELSE [len |-> 6, text |-> Bytes(65536 + (first % 1024) * 1024 + (second % 1024))]

Escapes == "b" :> "BS" @@ "f" :> "FF" @@ "n" :> "LF" @@ "r" :> "CR" @@ "t" :> "TAB" @@
           Quote :> Quote @@ Backslash :> Backslash @@ "/" :> "/"

\* The escape sequence at i.
Escape(buf, i, end) ==
    IF buf[i + 1] = "u" THEN Utf16Literal(buf, i, end)
    ELSE IF buf[i + 1] \in DOMAIN Escapes THEN [len |-> 2, text |-> <<Escapes[buf[i + 1]]>>]
    ELSE [len |-> 0, text |-> <<>>]

\* The quote that ends the string, or zero.
RECURSIVE StringEnd(_, _)
StringEnd(buf, i) ==
    IF i > Len(buf) THEN 0
    ELSE IF buf[i] = Quote THEN i
    ELSE IF buf[i] = Backslash THEN (IF i + 1 > Len(buf) THEN 0 ELSE StringEnd(buf, i + 2))
    ELSE StringEnd(buf, i + 1)

\* The text from i on: text is what comes before it, esc the escape sequence at i.
RECURSIVE Unescaped(_, _, _, _)
AfterEscape(buf, i, end, text, esc) ==
    IF esc.len = 0 THEN [ok |-> FALSE, at |-> i, text |-> <<>>]
    ELSE Unescaped(buf, i + esc.len, end, text \o esc.text)
Unescaped(buf, i, end, text) ==
    IF i >= end THEN [ok |-> TRUE, at |-> i, text |-> text]
    ELSE IF buf[i] # Backslash THEN Unescaped(buf, i + 1, end, Append(text, buf[i]))
    ELSE AfterEscape(buf, i, end, text, Escape(buf, i, end))

StringItem(item, end, body) ==
    IF ~body.ok THEN Result(FALSE, body.at, item, 0)
    ELSE Result(TRUE, end + 1, [item EXCEPT !.type = "String", !.text = body.text], 1)

parse_string(item, buf, i) ==
    LET end == StringEnd(buf, i + 1)
    IN  IF At(buf, i) # Quote \/ end = 0 THEN Result(FALSE, i + 1, item, 0)
        ELSE StringItem(item, end, Unescaped(buf, i + 1, end, <<>>))

-------------------------------------------------------------------------------
(* Values. *)

\* buffer_skip_whitespace: the zero byte at the end counts as white space, which
\* is why the offset is taken back to it.
RECURSIVE SkipBlank(_, _)
SkipBlank(buf, i) == IF At(buf, i) \in Blank THEN SkipBlank(buf, i + 1) ELSE i
Skip(buf, i) ==
    LET next == SkipBlank(buf, i)
    IN  IF i <= Len(buf) /\ next = Len(buf) + 1 THEN Len(buf) ELSE next

Literals == "null" :> "NULL" @@ "false" :> "False" @@ "true" :> "True"

RECURSIVE parse_value(_, _, _, _)

\* The value that belongs to a name.
NamedValue(buf, name, depth) ==
    LET item  == [NewItem EXCEPT !.key = name.item.text]
        colon == Skip(buf, name.at)
    IN  IF ~name.ok THEN name
        ELSE IF At(buf, colon) # ":" THEN Result(FALSE, colon, item, name.live)
        ELSE [parse_value(item, buf, Skip(buf, colon + 1), depth) EXCEPT !.live = @ + name.live]

\* One element at i, after white space: a value or, in an object, a name and a value.
Element(buf, i, depth, named) ==
    IF named THEN NamedValue(buf, parse_string(NewItem, buf, Skip(buf, i)), depth)
    ELSE parse_value(NewItem, buf, Skip(buf, i), depth)

\* The elements from i on, after those in list; e is the first of them.  A failure
\* deletes them all, the one that has failed included.
RECURSIVE Elements(_, _, _, _, _, _, _)
AfterElement(buf, depth, named, close, list, live, e) ==
    LET now  == Append(list, e.item)
        held == live + 1 + e.live
        next == Skip(buf, e.at)
    IN  IF ~e.ok THEN Result(FALSE, e.at, now, held - DeleteAll(now))
        ELSE IF At(buf, next) = "," THEN Elements(buf, next + 1, depth, named, close, now, held)
        ELSE IF At(buf, next) # close THEN Result(FALSE, next, now, held - DeleteAll(now))
        ELSE Result(TRUE, next + 1, now, held)
Elements(buf, i, depth, named, close, list, live) ==
    AfterElement(buf, depth, named, close, list, live, Element(buf, i, depth, named))

ContainerItem(item, type, list) ==
    IF list.ok THEN Result(TRUE, list.at, [item EXCEPT !.type = type, !.child = list.item], list.live)
    ELSE Result(FALSE, list.at, item, list.live)

\* parse_array and parse_object, which differ in the names of the elements.
Container(item, buf, i, depth, named, close, type) ==
    LET first == Skip(buf, i + 1)
    IN  IF depth >= NestingLimit THEN Result(FALSE, i, item, 0)
        ELSE IF At(buf, first) = close THEN Result(TRUE, first + 1, [item EXCEPT !.type = type], 0)
        ELSE IF first > Len(buf) THEN Result(FALSE, first - 1, item, 0)
        ELSE ContainerItem(item, type, Elements(buf, i + 1, depth + 1, named, close, <<>>, 0))

parse_array(item, buf, i, depth)  == Container(item, buf, i, depth, FALSE, "]", "Array")
parse_object(item, buf, i, depth) == Container(item, buf, i, depth, TRUE, "}", "Object")

parse_value(item, buf, i, depth) ==
    LET c == At(buf, i)
    IN  CASE c \in DOMAIN Literals ->
                Result(TRUE, i + 1, [item EXCEPT !.type = Literals[c], !.int = IF c = "true" THEN 1 ELSE 0], 0)
          [] c = Quote -> parse_string(item, buf, i)
          [] c = "-" \/ c \in DOMAIN Digit -> parse_number(item, buf, i)
          [] c = "[" -> parse_array(item, buf, i, depth)
          [] c = "{" -> parse_object(item, buf, i, depth)
          [] OTHER -> Result(FALSE, i, item, 0)

\* The byte order mark is skipped when there is something after it.
SkipBom(buf) == IF buf[1] = "BOM" /\ Len(buf) > 2 THEN 2 ELSE 1

\* The root is deleted on failure: item is then NULL, and at where the error is.
Parsed(buf, require_null_terminated, root) ==
    IF root.ok /\ (require_null_terminated => At(buf, Skip(buf, root.at)) = NUL)
      THEN [root EXCEPT !.live = @ + 1]
      ELSE Result(FALSE, IF root.at <= Len(buf) THEN root.at ELSE Len(buf), NewItem,
                  root.live + 1 - Blocks(root.item))

\* cJSON_ParseWithLengthOpts
ParseWithOpts(buf, require_null_terminated) ==
    Parsed(buf, require_null_terminated, parse_value(NewItem, buf, Skip(buf, SkipBom(buf)), 0))

cJSON_Parse(buf) == ParseWithOpts(buf, FALSE)

-------------------------------------------------------------------------------
(* Looking at the items. *)

cJSON_IsString(item) == item.type = "String"
cJSON_IsNumber(item) == item.type = "Number"

\* cJSON_GetObjectItemCaseSensitive: the first child of that name, or NULL, which
\* is an item of no type here.  The children of an array have no names, and end
\* the search.
cJSON_GetObjectItemCaseSensitive(object, name) ==
    LET Found == {n \in 1..Len(object.child) :
                    /\ object.child[n].key = name
                    /\ \A k \in 1..n - 1 : object.child[k].key # name /\ object.child[k].key # NoName}
    IN  IF Found = {} THEN NewItem ELSE object.child[CHOOSE n \in Found : TRUE]
===============================================================================

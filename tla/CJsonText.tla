-------------------------------- MODULE CJsonText --------------------------------
(***************************************************************************)
(* The printer of src/utils/json/cJSON.c, with the buffer that it fills    *)
(* and lets grow, cJSON_Minify and cJSON_Compare.  Items and documents are *)
(* those of CJson: a text that is printed is one that can be parsed.       *)
(*                                                                         *)
(* A print buffer p is a record: ok, the text, its length and depth, its   *)
(* options, room, how many allocations will succeed, live, the blocks that *)
(* it holds, and past, how far a write has gone beyond the end.            *)
(***************************************************************************)
EXTENDS CJson, FiniteSets, SequencesExt

CONSTANTS
    Trees,      \* the items that are printed
    Lower(_),   \* a symbol as tolower leaves it
    Precision15, Precision17,   \* the digits of %1.15g and %1.17g
    InverseEpsilon, \* DBL_EPSILON is one part in so many
    DefaultSize,    \* default_buffer_size, 256
    Sizes,      \* the buffer sizes that a client asks for
    MaxRoom     \* the most allocations of a call

VARIABLES
    item,   \* the item at hand
    out,    \* what the last call has given
    call    \* which call that was
vars == <<item, out, call>>

-------------------------------------------------------------------------------
(* The buffer. *)

\* The bytes of a text.
Width == "null" :> 4 @@ "true" :> 4 @@ "false" :> 5 @@ [h \in DOMAIN HexCode |-> 4]
Size(text) == FoldLeft(LAMBDA n, s : n + (IF s \in DOMAIN Width THEN Width[s] ELSE 1), 0, text)

Fail(p) == [p EXCEPT !.ok = FALSE]

\* realloc, which leaves no buffer behind when it fails.
Grown(p, size) ==
    IF p.room = 0 THEN [Fail(p) EXCEPT !.live = 0, !.length = 0]
    ELSE [p EXCEPT !.length = size, !.room = @ - 1]

\* offset is where the text ends.
EnsureAt(p, needed, offset) ==
    LET total == needed + offset + 1
    IN  IF ~p.ok \/ (p.length > 0 /\ offset >= p.length) THEN Fail(p)
        ELSE IF total <= p.length THEN p
        ELSE IF p.noalloc \/ total > IntMax THEN Fail(p)
        ELSE Grown(p, IF total > IntMax \div 2 THEN IntMax ELSE total * 2)

ensure(p, needed) == EnsureAt(p, needed, Size(p.text))

Write(p, text, nul) ==
    IF p.ok THEN [p EXCEPT !.text = text, !.past = Max({@, Size(text) + nul - p.length})] ELSE p

\* The symbols are written where needed bytes have been ensured, with a zero byte
\* after them when nul is 1.
WriteAfter(p, symbols, nul) == Write(p, p.text \o symbols, nul)
Put(p, needed, symbols, nul) == WriteAfter(ensure(p, needed), symbols, nul)

\* Symbols of one byte each, and the zero byte.
PutText(p, text) == Put(p, Len(text) + 1, text, 1)

-------------------------------------------------------------------------------
(* Numbers. *)

Zeros(n) == [k \in 1..n |-> "0"]
RECURSIVE Digits(_)
Digits(n) ==
    LET last == <<CHOOSE d \in DOMAIN Digit : Digit[d] = n % 10>>
    IN  IF n < 10 THEN last ELSE Digits(n \div 10) \o last
Sign(n) == IF n < 0 THEN <<"-">> ELSE <<>>
Abs(n) == IF n < 0 THEN -n ELSE n

\* %d
Integer(n) == Sign(n) \o Digits(Abs(n))

Rounded(num, precision) ==
    LET m    == Abs(num[1])
        lost == Len(Digits(m)) - precision
        kept == (m + 5 * 10^(lost - 1)) \div 10^lost
    IN  IF lost <= 0 THEN num ELSE Normal(IF num[1] < 0 THEN -kept ELSE kept, num[2] + lost)

\* %g: without an exponent when the first digit is within the precision.
General(num, precision) ==
    LET digits == Digits(Abs(num[1]))
        first  == num[2] + Len(digits) - 1
        point(k) == SubSeq(digits, 1, k) \o (IF k < Len(digits) THEN <<".">> \o SubSeq(digits, k + 1, Len(digits)) ELSE <<>>)
        power  == <<"e", IF first < 0 THEN "-" ELSE "+">> \o (IF Abs(first) < 10 THEN <<"0">> ELSE <<>>) \o Digits(Abs(first))
    IN  Sign(num[1]) \o
        IF first < -4 \/ first >= precision THEN point(1) \o power
        ELSE IF num[2] >= 0 THEN digits \o Zeros(num[2])
        ELSE IF first >= 0 THEN point(first + 1)
        ELSE <<"0", ".">> \o Zeros(-first - 1) \o digits

\* Numbers are the same when they differ by at most DBL_EPSILON of the larger one,
\* which those of distant orders of magnitude never do.
Order(num) == num[2] + Len(Digits(Abs(num[1])))
compare_double(a, b) ==
    LET e == Min({a[2], b[2]})
        x == a[1] * 10^(a[2] - e)
        y == b[1] * 10^(b[2] - e)
    IN  a = b \/ (Abs(Order(a) - Order(b)) <= 1 /\ Abs(x - y) * InverseEpsilon <= Max({Abs(x), Abs(y)}))

IsInteger(i) == i.num[2] >= 0 /\ i.num[1] * 10^i.num[2] = i.int

\* Mutant: the short form is always good enough.
NumberText_Short(i) ==
    IF IsInteger(i) THEN Integer(i.int) ELSE General(Rounded(i.num, Precision15), Precision15)

\* The short form, if it reads back as the same number, as compare_double has it.
NumberText(i) ==
    LET short == General(Rounded(i.num, Precision15), Precision15)
    IN  IF IsInteger(i) THEN Integer(i.int)
        ELSE IF compare_double(Strtod(short, 1).num, i.num) THEN short
        ELSE General(Rounded(i.num, Precision17), Precision17)

print_number(p, i) == PutText(p, NumberText(i))

-------------------------------------------------------------------------------
(* Strings. *)

Control(s) == \E h \in DOMAIN HexCode : HexCode[h] < 32 /\ Bytes(HexCode[h]) = <<s>>
HexOf(s) == CHOOSE h \in DOMAIN HexCode : Bytes(HexCode[h]) = <<s>>
Short == {Quote, Backslash, "BS", "FF", "LF", "CR", "TAB"}
Letter(s) == CHOOSE e \in DOMAIN Escapes : Escapes[e] = s

Escaped(s) ==
    IF s \in Short THEN <<Backslash, Letter(s)>>
    ELSE IF Control(s) THEN <<Backslash, "u", HexOf(s)>> ELSE <<s>>

\* Mutant: the characters of \uXXXX are counted as those of the short escapes.
escape_characters_Short(text) ==
    FoldLeft(LAMBDA n, s : n + (IF s \in Short \/ Control(s) THEN 1 ELSE 0), 0, text)

\* The bytes that escaping adds.
escape_characters(text) ==
    FoldLeft(LAMBDA n, s : n + (IF s \in Short THEN 1 ELSE IF Control(s) THEN 5 ELSE 0), 0, text)

print_string_ptr(p, text) ==
    LET body == IF text = NoName THEN <<>> ELSE text
    IN  Put(p, Size(body) + escape_characters(body) + 3,
            <<Quote>> \o FlattenSeq([n \in 1..Len(body) |-> Escaped(body[n])]) \o <<Quote>>, 1)

-------------------------------------------------------------------------------
(* Values. *)

If(p, symbols) == IF p.format THEN symbols ELSE <<>>
Tabs(n) == [k \in 1..n |-> "TAB"]
Printed == "NULL" :> "null" @@ "False" :> "false" @@ "True" :> "true"

RECURSIVE print_value(_, _)

print_array(p, i) ==
    LET Comma(q) == PutText(q, <<",">> \o If(q, <<" ">>))
        All[n \in 0..Len(i.child)] ==
            IF n = 0 THEN [Put(p, 1, <<"[">>, 0) EXCEPT !.depth = @ + 1]
            ELSE print_value(IF n = 1 THEN All[0] ELSE Comma(All[n - 1]), i.child[n])
    IN  [Put(All[Len(i.child)], 2, <<"]">>, 1) EXCEPT !.depth = @ - 1]

\* The brace after the members.
Close(p) ==
    [Put(p, IF p.format THEN p.depth + 1 ELSE 2, If(p, Tabs(p.depth - 1)) \o <<"}">>, 1) EXCEPT !.depth = @ - 1]

print_object(p, i) ==
    LET start == <<"{">> \o If(p, <<"LF">>)
        colon == <<":">> \o If(p, <<"TAB">>)
        Indent(q) == IF q.format THEN Put(q, q.depth, Tabs(q.depth), 0) ELSE q
        Name(q, c) == Put(print_string_ptr(Indent(q), c.key), Len(colon), colon, 0)
        All[n \in 0..Len(i.child)] ==
            IF n = 0 THEN [Put(p, Len(start) + 1, start, 0) EXCEPT !.depth = @ + 1]
            ELSE PutText(print_value(Name(All[n - 1], i.child[n]), i.child[n]),
                         (IF n < Len(i.child) THEN <<",">> ELSE <<>>) \o If(p, <<"LF">>))
    IN  Close(All[Len(i.child)])

print_value(p, i) ==
    CASE i.type \in DOMAIN Printed -> LET text == <<Printed[i.type]>> IN Put(p, Size(text) + 1, text, 1)
      [] i.type = "Number" -> print_number(p, i)
      [] i.type = "Raw"    -> Put(p, Size(i.text) + 1, i.text, 1)
      [] i.type = "String" -> print_string_ptr(p, i.text)
      [] i.type = "Array"  -> print_array(p, i)
      [] i.type = "Object" -> print_object(p, i)
      [] OTHER -> Fail(p)

PrintBuffer(length, noalloc, format, room) ==
    [ok |-> TRUE, text |-> <<>>, length |-> length, depth |-> 0, noalloc |-> noalloc,
     format |-> format, room |-> room, live |-> IF noalloc THEN 0 ELSE 1, past |-> 0]

\* Without memory for a buffer of its own, no call prints anything.
NoBuffer(length, format) == [Fail(PrintBuffer(length, FALSE, format, 0)) EXCEPT !.live = 0]
Freed(p) == [p EXCEPT !.live = 0]

\* The buffer is cut to the text at the end.
Cut(p) == IF ~p.ok \/ p.room = 0 THEN Freed(Fail(p)) ELSE [p EXCEPT !.length = Size(p.text) + 1]

print(i, format, room) ==
    IF room = 0 THEN NoBuffer(DefaultSize, format)
    ELSE Cut(print_value(PrintBuffer(DefaultSize, FALSE, format, room - 1), i))

Kept(p) == IF p.ok THEN p ELSE Freed(p)

cJSON_PrintBuffered(i, prebuffer, format, room) ==
    IF room = 0 THEN NoBuffer(prebuffer, format)
    ELSE Kept(print_value(PrintBuffer(prebuffer, FALSE, format, room - 1), i))

cJSON_PrintPreallocated(i, length, format) == print_value(PrintBuffer(length, TRUE, format, 0), i)

-------------------------------------------------------------------------------
(* cJSON_Minify. *)

\* After the newline that ends a comment, and after the two symbols that end one.
RECURSIVE skip_oneline_comment(_, _)
skip_oneline_comment(json, i) ==
    IF i > Len(json) THEN i ELSE IF json[i] = "LF" THEN i + 1 ELSE skip_oneline_comment(json, i + 1)
RECURSIVE skip_multiline_comment(_, _)
skip_multiline_comment(json, i) ==
    IF i > Len(json) THEN i
    ELSE IF json[i] = "*" /\ At(json, i + 1) = "/" THEN i + 2 ELSE skip_multiline_comment(json, i + 1)

\* Mutant: escaped quotes are not looked for.
RECURSIVE minify_string_Plain(_, _)
minify_string_Plain(json, i) ==
    IF i > Len(json) THEN i ELSE IF json[i] = Quote THEN i + 1 ELSE minify_string_Plain(json, i + 1)

\* After the quote that ends a string: a quote after a backslash does not, not even
\* when the backslash is itself escaped.
RECURSIVE minify_string(_, _)
minify_string(json, i) ==
    IF i > Len(json) THEN i ELSE IF json[i] = Quote THEN i + 1
    ELSE minify_string(json, IF json[i] = Backslash /\ At(json, i + 1) = Quote THEN i + 2 ELSE i + 1)

RECURSIVE MinifyFrom(_, _)
MinifyFrom(json, i) ==
    LET end == minify_string(json, i + 1)
    IN  IF i > Len(json) THEN <<>>
        ELSE IF json[i] \in {" ", "TAB", "CR", "LF"} THEN MinifyFrom(json, i + 1)
        ELSE IF json[i] = "/" THEN
            MinifyFrom(json, IF At(json, i + 1) = "/" THEN skip_oneline_comment(json, i + 2)
                             ELSE IF At(json, i + 1) = "*" THEN skip_multiline_comment(json, i + 2)
                             ELSE i + 1)
        ELSE IF json[i] = Quote THEN SubSeq(json, i, end - 1) \o MinifyFrom(json, end)
        ELSE <<json[i]>> \o MinifyFrom(json, i + 1)
cJSON_Minify(json) == MinifyFrom(json, 1)

-------------------------------------------------------------------------------
(* cJSON_Compare. *)

LowerName(name) == [n \in 1..Len(name) |-> Lower(name[n])]

get_object_item(object, name, case_sensitive) ==
    LET Same == {n \in 1..Len(object.child) :
                    object.child[n].key # NoName /\ LowerName(object.child[n].key) = LowerName(name)}
    IN  IF name = NoName THEN NewItem
        ELSE IF case_sensitive THEN cJSON_GetObjectItemCaseSensitive(object, name)
        ELSE IF Same = {} THEN NewItem ELSE object.child[Min(Same)]

\* Mutant: the names of a are looked for in b, and not those of b in a.
RECURSIVE cJSON_Compare_OneWay(_, _, _)
cJSON_Compare_OneWay(a, b, case_sensitive) ==
    /\ a.type = b.type /\ a.type # "Invalid"
    /\ a.type = "Number" => compare_double(a.num, b.num)
    /\ a.type \in {"String", "Raw"} => a.text = b.text
    /\ a.type = "Array" => Len(a.child) = Len(b.child) /\
            \A n \in 1..Len(a.child) : cJSON_Compare_OneWay(a.child[n], b.child[n], case_sensitive)
    /\ a.type = "Object" => \A n \in 1..Len(a.child) :
            cJSON_Compare_OneWay(a.child[n], get_object_item(b, a.child[n].key, case_sensitive), case_sensitive)

RECURSIVE cJSON_Compare(_, _, _)
\* Every member of a is in b, under the same name.
Within(a, b, case_sensitive) ==
    \A n \in 1..Len(a.child) :
        cJSON_Compare(a.child[n], get_object_item(b, a.child[n].key, case_sensitive), case_sensitive)

cJSON_Compare(a, b, case_sensitive) ==
    /\ a.type = b.type /\ a.type # "Invalid"
    /\ a.type = "Number" => compare_double(a.num, b.num)
    /\ a.type \in {"String", "Raw"} => a.text = b.text
    /\ a.type = "Array" => Len(a.child) = Len(b.child) /\
            \A n \in 1..Len(a.child) : cJSON_Compare(a.child[n], b.child[n], case_sensitive)
    /\ a.type = "Object" => Within(a, b, case_sensitive) /\ Within(b, a, case_sensitive)

-------------------------------------------------------------------------------
(* The client. *)

Nothing == PrintBuffer(0, TRUE, FALSE, 0)
Init == item \in Trees /\ out = Nothing /\ call = "None"

Called(name, p) == call = "None" /\ call' = name /\ out' = p /\ UNCHANGED item

PrintText == \E format \in BOOLEAN, room \in 0..MaxRoom : Called("Print", print(item, format, room))
PrintBuffered == \E format \in BOOLEAN, size \in Sizes, room \in 0..MaxRoom :
    Called("PrintBuffered", cJSON_PrintBuffered(item, size, format, room))
PrintPreallocated == \E format \in BOOLEAN, size \in Sizes :
    Called("PrintPreallocated", cJSON_PrintPreallocated(item, size, format))

\* A person adds a comment at the end of a line, and the document is minified.
Comments == {<<>>, <<"/", "/", Quote, "*">>, <<"/", "*", Quote, "LF", "*", "/">>, <<"/">>}
Minify ==
    /\ call = "Print" /\ out.ok /\ out.format
    /\ \E n \in {k \in 1..Len(out.text) : out.text[k] = "LF"}, comment \in Comments :
        out' = [out EXCEPT !.text = cJSON_Minify(SubSeq(@, 1, n - 1) \o comment \o SubSeq(@, n, Len(@)))]
    /\ call' = "Minify" /\ UNCHANGED item

\* The client is done with the text.
Done == call # "None" /\ call' = "None" /\ out' = Nothing /\ UNCHANGED item

Next == PrintText \/ PrintBuffered \/ PrintPreallocated \/ Minify \/ Done
Spec == Init /\ [][Next]_vars

-------------------------------------------------------------------------------
(* Properties. *)

RECURSIVE Parts(_)
Parts(i) == {i} \cup UNION {Parts(i.child[n]) : n \in 1..Len(i.child)}
IsParsed(i) == \A j \in Parts(i) : j.type # "Raw"
Texts(i) == {j.text : j \in Parts(i)} \cup {j.key : j \in Parts(i)}
DocumentOf(text) == cJSON_Parse(Buffer(text, <<>>)).item

\* The same item, but for numbers that are the same as compare_double has it.
RECURSIVE ReadsAs(_, _)
ReadsAs(i, j) ==
    /\ <<i.type, i.key, i.text>> = <<j.type, j.key, j.text>>
    /\ compare_double(i.num, j.num) /\ (i.num = j.num => i.int = j.int)
    /\ Len(i.child) = Len(j.child) /\ \A n \in 1..Len(i.child) : ReadsAs(i.child[n], j.child[n])

\* What cJSON prints it reads back as the same item: strings with quotes, control
\* characters and other alphabets, numbers with an exponent or with more digits
\* than the short form has, formatted or not.  A number that is no integer may come
\* back changed, by DBL_EPSILON of it at most (lines 495 to 502).
PrintsBack == call \notin {"None", "Minify"} /\ out.ok /\ IsParsed(item) => ReadsAs(DocumentOf(out.text), item)

\* Not so, in a setting of its own: the number is the one that was printed.  "Check
\* whether the original double can be recovered" (line 497) takes a number that is
\* almost the original for it: 3.9999999999999996 is printed as 4, whose valueint,
\* too, is another one.
PrintsBackExactly == call \notin {"None", "Minify"} /\ out.ok /\ IsParsed(item) => DocumentOf(out.text) = item

\* No write leaves the buffer, whatever its size was and whichever allocation
\* fails; a call that fails holds no memory; and cJSON_PrintPreallocated, which
\* overestimates, succeeds with the five spare bytes that cJSON.h asks for.
PrintFits ==
    call \notin {"None", "Minify"} =>
        /\ out.past <= 0
        /\ out.live = (IF out.ok /\ ~out.noalloc THEN 1 ELSE 0)
        /\ call = "PrintPreallocated" /\ ~out.ok =>
                out.length < Size(cJSON_PrintPreallocated(item, IntMax, out.format).text) + 1 + 5

\* Taking the white space and the comments out of a document changes nothing of
\* what it says, except where a backslash stands before a quote or at the end of a
\* string: the quote is then taken for an escaped one.
Awkward(text) == \E n \in 1..Len(text) : text[n] = Backslash /\ (n = Len(text) \/ text[n + 1] = Quote)
MinifyKeepsMeaning ==
    call = "Minify" /\ (\A text \in Texts(item) : ~Awkward(text)) =>
        /\ DocumentOf(out.text) = DocumentOf(cJSON_PrintPreallocated(item, IntMax, FALSE).text)
        /\ IsParsed(item) => out.text = cJSON_PrintPreallocated(item, IntMax, FALSE).text

\* The same without that exception, which does not hold.
MinifyKeepsAll ==
    call = "Minify" => DocumentOf(out.text) = DocumentOf(cJSON_PrintPreallocated(item, IntMax, FALSE).text)

\* cJSON_Compare tells whether two items say the same: the elements of an array in
\* their order, the members of an object in any, if no two have the same name.
\* Numbers are the same when compare_double has them so, an ulp apart (line 2603):
\* of three numbers the first may be the second and the second the third, and the
\* first not the third.
NameOf(c, exact) == IF exact THEN c.key ELSE LowerName(c.key)
Names(i, exact) == {NameOf(c, exact) : c \in Range(i.child)}
RECURSIVE SayTheSame(_, _, _)
SayTheSame(a, b, exact) ==
    /\ a.type = b.type
    /\ a.type = "Number" => compare_double(a.num, b.num)
    /\ a.type \in {"String", "Raw"} => a.text = b.text
    /\ a.type = "Array" =>
         Len(a.child) = Len(b.child) /\ \A n \in 1..Len(a.child) : SayTheSame(a.child[n], b.child[n], exact)
    /\ a.type = "Object" =>
         /\ Names(a, exact) = Names(b, exact)
         /\ \A c \in Range(a.child), d \in Range(b.child) :
                NameOf(c, exact) = NameOf(d, exact) => SayTheSame(c, d, exact)
NamesDiffer(i) == \A j \in Parts(i) : j.type = "Object" =>
    \A k, n \in 1..Len(j.child) : k # n => LowerName(j.child[k].key) # LowerName(j.child[n].key)
CompareIsEquality ==
    call = "None" => \A other \in Trees, exact \in BOOLEAN :
        NamesDiffer(item) /\ NamesDiffer(other) =>
            (cJSON_Compare(item, other, exact) <=> SayTheSame(item, other, exact))
===============================================================================

------------------------------- MODULE MCCJsonText -------------------------------
(* Items of every type, alone and in arrays and objects, for CJsonText. *)
EXTENDS CJsonText

MCHexCode == "00e9" :> 233 @@ "001f" :> 31
TheLower(symbol) == IF symbol = "A" THEN "a" ELSE symbol

Of(type) == [NewItem EXCEPT !.type = type]
Number(m, e, int) == [Of("Number") EXCEPT !.num = <<m, e>>, !.int = int]
Text(type, text) == [Of(type) EXCEPT !.text = text]
ListOf(type, list) == [Of(type) EXCEPT !.child = list]
Named(key, i) == [i EXCEPT !.key = key]

True == [Of("True") EXCEPT !.int = 1]
Numbers == {Number(0, 0, 0), Number(-12, 0, -12), Number(1, 2, IntMax), Number(-3, 8, -IntMax - 1),
            Number(15, -1, 1), Number(125, -2, 1), Number(-5, -1, 0), Number(25, -6, 0), Number(123, 1, IntMax),
            \* less than DBL_EPSILON apart, the first from the second and that from the third
            Number(399, -2, 3), Number(4, 0, 4), Number(401, -2, 4)}
Strings == {Text("String", t) : t \in
    {<<>>, <<"a", " ", "b">>, <<Quote, "TAB">>, <<"31">>, <<"195", "169", "/", "*">>, <<Backslash>>, <<Backslash, "n">>}}
Leaves == {Of("NULL"), Of("False"), True, Text("Raw", <<"[", "1", "]">>)} \cup Numbers \cup Strings

A == <<"a">>
Pairs == {<<Named(<<"A">>, Number(15, -1, 1)), Named(<<"b", Quote>>, Of("NULL"))>>,
          <<Named(<<"b", Quote>>, Of("NULL")), Named(A, Number(15, -1, 1))>>,
          <<Named(A, True)>>, <<Named(A, True), Named(<<"b">>, True)>>, <<Named(A, True), Named(A, Of("False"))>>}
MCTrees ==
    Leaves \cup {ListOf("Array", <<>>), ListOf("Object", <<>>)}
    \cup {ListOf("Array", <<l, True>>) : l \in Leaves}
    \cup {ListOf("Object", <<Named(A, l)>>) : l \in Leaves}
    \cup {ListOf("Object", p) : p \in Pairs}
    \cup {ListOf("Array", <<ListOf("Object", p), ListOf("Array", <<>>)>>) : p \in Pairs}
    \cup {ListOf("Object", <<Named(A, ListOf("Object", p)), Named(<<>>, Of("NULL"))>>) : p \in Pairs}
===============================================================================

----------------------------- MODULE MCPrintFmt -----------------------------
EXTENDS PrintFmt

Alphabet == {"%", "-", "0", "2", "*", ".", "#", "l", "a",
             "c", "e", "s", "d", "u", "o", "p", "x"}

(* Every format of up to four characters behind its first '%', the ones    *)
(* with more text first, and a string with width and precision.            *)
MCFormats ==
  {<<"%">> \o s : s \in UNION {[1 .. n -> Alphabet] : n \in 0 .. 3}}
    \union {<<"%">> \o s \o <<c>> : s \in [1 .. 3 -> {"-", "0", "2", "*", ".", "#", "l", "a"}],
                                    c \in {"s", "d", "x", "a"}}
    \union {<<"a", "%", "*", ".", "*", "s", "a", "a">>}

MCChars == {digits[d] : d \in 1 .. 16} \union Alphabet
             \union {Space, "?", "(", "n", ")", "error", "message", "tab"}
MCNumerals == {<<"2">>, <<"2", "0">>}
MCInts == {-15, -1, 0, 9, 15}
MCLongLongs == {-128, -1, 0, 127}
MCWidths == {-2, 0, 2}
MCErrors ==
  [err \in 0 .. 7 |-> IF err \in 1 .. 6 THEN <<"message", digits[err + 1]>> ELSE Null]
MCStrings == {Null, <<>>, <<"a", "b", "tab">>}
=============================================================================

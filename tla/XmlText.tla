------------------------------ MODULE XmlText ------------------------------
(***************************************************************************)
(* Characters of pugixml (pugixml.cc): the classes the parser and the       *)
(* writer tell apart, the encodings, and the conversion of a buffer to      *)
(* UTF-8, in which everything is kept, and back. A text is the sequence of  *)
(* its bytes; a unit of UTF-16 or UTF-32 is a number, stored in two or four *)
(* bytes.                                                                   *)
(***************************************************************************)
EXTENDS Naturals, Sequences, SequencesExt, FiniteSetsExt, Functions

\* The bytes of a literal (which has no backquote).
ascii == " !\"#$%&'()*+,-./0123456789:;<=>?@ABCDEFGHIJKLMNOPQRSTUVWXYZ"
         \o "[\\]^_\fabcdefghijklmnopqrstuvwxyz{|}~"
Chars(literal) ==
    [i \in 1 .. Len(literal) |->
        31 + CHOOSE k \in 1 .. Len(ascii) :
                 SubSeq(ascii, k, k) = SubSeq(literal, i, i)]
Char(literal) == Chars(literal)[1]

tab == 9
newline == 10
return_ == 13
blank == 32
amp    == Char("&")
lt     == Char("<")
gt     == Char(">")
quote  == Char("\"")
slash  == Char("/")
question == Char("?")
hash   == Char("#")
semicolon == Char(";")
equal  == Char("=")
dash   == Char("-")
plus   == Char("+")
letter_x == Char("x")
digit0 == Char("0")
dot    == Char(".")
apostrophe == Char("'")

xml            == Chars("xml")
begin_xml      == Chars("<?xml")
en             == Chars("en")
encoding_field == Chars("encoding")
latin1_names   == {Chars("iso-8859-1"), Chars("latin1")}
utf8_bom       == <<239, 187, 191>>

\* c | ' ', which makes letters small.
Lower(c) == IF (c \div 32) % 2 = 0 THEN c + 32 ELSE c
LowerText(s) == [i \in DOMAIN s |-> Lower(s[i])]

-----------------------------------------------------------------------------
(* chartype_table and chartypex_table. *)

ct_space == {tab, newline, return_, blank}
digits   == digit0 .. digit0 + 9
hex_digits     == digits \cup (65 .. 70) \cup (97 .. 102)
digit_value(c) == IF c \in digits THEN c - digit0 ELSE Lower(c) - 87
letters  == (65 .. 90) \cup (97 .. 122)
ct_start_symbol == letters \cup (128 .. 255) \cup {Char("_"), Char(":")}
ct_symbol       == ct_start_symbol \cup digits \cup {dash, dot}

ctx_special_pcdata == ((0 .. 31) \ {tab, newline, return_}) \cup {amp, lt, gt}
ctx_special_attr   == ((0 .. 31) \ {tab}) \cup {amp, lt, gt, quote}

-----------------------------------------------------------------------------
(* UTF-8. *)

utf8_writer(ch) ==
    IF ch < 128 THEN <<ch>>
    ELSE IF ch < 2048 THEN <<192 + ch \div 64, 128 + (ch % 64)>>
    ELSE IF ch < 65536
    THEN <<224 + ch \div 4096, 128 + ((ch \div 64) % 64), 128 + (ch % 64)>>
    ELSE <<240 + ch \div 262144, 128 + ((ch \div 4096) % 64),
           128 + ((ch \div 64) % 64), 128 + (ch % 64)>>

Trails(data, n) == /\ Len(data) > n
                   /\ \A i \in 2 .. n + 1 : data[i] \in 128 .. 191

\* The code points of a sequence of bytes; what is not UTF-8 is skipped byte by
\* byte.
RECURSIVE utf8_decoder(_)
utf8_decoder(data) ==
    LET lead == data[1]
        Low(i) == data[i] % 64
        From(n) == SubSeq(data, n + 1, Len(data))
    IN  IF data = <<>> THEN <<>>
        ELSE IF lead < 128 THEN <<lead>> \o utf8_decoder(From(1))
        ELSE IF lead \in 192 .. 223 /\ Trails(data, 1)
        THEN <<(lead % 32) * 64 + Low(2)>> \o utf8_decoder(From(2))
        ELSE IF lead \in 224 .. 239 /\ Trails(data, 2)
        THEN <<(lead % 16) * 4096 + Low(2) * 64 + Low(3)>>
               \o utf8_decoder(From(3))
        ELSE IF lead \in 240 .. 247 /\ Trails(data, 3)
        THEN <<(lead % 8) * 262144 + Low(2) * 4096 + Low(3) * 64 + Low(4)>>
               \o utf8_decoder(From(4))
        ELSE utf8_decoder(From(1))

-----------------------------------------------------------------------------
(* UTF-16 and UTF-32 units, Latin-1 bytes. *)

utf16_writer(ch) ==
    IF ch < 65536 THEN <<ch>>
    ELSE <<55296 + (ch - 65536) \div 1024, 56320 + ((ch - 65536) % 1024)>>

\* A surrogate without its other half is skipped.
RECURSIVE utf16_decoder(_)
utf16_decoder(units) ==
    IF units = <<>> THEN <<>>
    ELSE IF units[1] \notin 55296 .. 57343
    THEN <<units[1]>> \o utf16_decoder(Tail(units))
    ELSE IF units[1] < 56320 /\ Len(units) >= 2 /\ units[2] \in 56320 .. 57343
    THEN <<65536 + (units[1] % 1024) * 1024 + (units[2] % 1024)>>
           \o utf16_decoder(SubSeq(units, 3, Len(units)))
    ELSE utf16_decoder(Tail(units))

latin1_writer(ch) == IF ch > 255 THEN <<question>> ELSE <<ch>>

Concat(ss) == FoldLeft(LAMBDA s, t : s \o t, <<>>, ss)

\* The bytes of units of 2 or 4 bytes, and the units of bytes; an incomplete
\* last unit is dropped.
StoreUnit(unit, size, bigEndian) ==
    LET little == [i \in 1 .. size |-> (unit \div (256 ^ (i - 1))) % 256]
    IN  IF bigEndian THEN Reverse(little) ELSE little
LoadUnits(data, size, bigEndian) ==
    [i \in 1 .. Len(data) \div size |->
        LET unit   == SubSeq(data, (i - 1) * size + 1, i * size)
            little == IF bigEndian THEN Reverse(unit) ELSE unit
        IN  FoldRight(LAMBDA b, n : n * 256 + b, little, 0)]

xml_encoding == {"auto", "utf8", "utf16_le", "utf16_be", "utf16", "utf32_le",
                 "utf32_be", "utf32", "wchar", "latin1"}

UnitSize(encoding) ==
    CASE encoding \in {"utf16_le", "utf16_be"} -> 2
      [] encoding \in {"utf32_le", "utf32_be"} -> 4
      [] OTHER -> 1
IsBigEndian(encoding) == encoding \in {"utf16_be", "utf32_be"}

\* The encodings without a byte order have that of the machine, and wchar_t has
\* four bytes.
Native(encoding) ==
    CASE encoding = "utf16" -> "utf16_le"
      [] encoding \in {"utf32", "wchar"} -> "utf32_le"
      [] OTHER -> encoding

\* The code points of a buffer in some encoding other than UTF-8.
Decode(data, encoding) ==
    LET units == LoadUnits(data, UnitSize(encoding), IsBigEndian(encoding))
    IN  IF UnitSize(encoding) = 2 THEN utf16_decoder(units) ELSE units

\* What convert_buffer_output makes of a chunk of UTF-8.
convert_buffer_output(chunk, encoding) ==
    LET Unit(ch) == CASE encoding = "latin1" -> latin1_writer(ch)
                      [] UnitSize(encoding) = 2 -> utf16_writer(ch)
                      [] OTHER -> <<ch>>
        Bytes(ch) == Concat([i \in DOMAIN Unit(ch) |->
                        StoreUnit(Unit(ch)[i], UnitSize(encoding),
                                  IsBigEndian(encoding))])
        points == utf8_decoder(chunk)
    IN  IF encoding = "utf8" THEN chunk
        ELSE Concat([i \in DOMAIN points |-> Bytes(points[i])])

-----------------------------------------------------------------------------
(* What encoding a buffer is in. *)

\* The first position from i on where P holds, Len(data) + 1 if none.
Scan(data, i, P(_)) ==
    Min({j \in i .. Len(data) : P(j)} \cup {Len(data) + 1})

StartsWith(data, i, literal) ==
    /\ i + Len(literal) - 1 <= Len(data)
    /\ SubSeq(data, i, i + Len(literal) - 1) = literal

\* The value of the encoding field of an XML declaration, <<>> if it has none.
parse_declaration_encoding(data) ==
    LET at     == Scan(data, 7, LAMBDA i : \/ i >= Len(data)
                                           \/ data[i] = question
                                           \/ StartsWith(data, i, en))
        Skip(i) == Scan(data, i, LAMBDA j : data[j] \notin ct_space)
        equals == Skip(at + 8)
        open   == Skip(equals + 1)
        close  == Scan(data, open + 1, LAMBDA j : data[j] \notin ct_symbol)
    IN  IF /\ Len(data) >= 6 /\ StartsWith(data, 1, begin_xml)
           /\ data[6] \in ct_space
           /\ StartsWith(data, at, encoding_field)
           /\ StartsWith(data, equals, <<equal>>)
           /\ close <= Len(data)
           /\ data[open] \in {quote, apostrophe}
           /\ data[close] = data[open]
        THEN SubSeq(data, open + 1, close - 1) ELSE <<>>

guess_buffer_encoding(data) ==
    LET name == LowerText(parse_declaration_encoding(data))
        Begins(bytes) == StartsWith(data, 1, bytes)
    IN  IF Len(data) < 4 THEN "utf8"
        ELSE IF Begins(<<0, 0, 254, 255>>) THEN "utf32_be"
        ELSE IF Begins(<<255, 254, 0, 0>>) THEN "utf32_le"
        ELSE IF Begins(<<254, 255>>) THEN "utf16_be"
        ELSE IF Begins(<<255, 254>>) THEN "utf16_le"
        ELSE IF Begins(utf8_bom) THEN "utf8"
        ELSE IF Begins(<<0, 0, 0, lt>>) THEN "utf32_be"
        ELSE IF Begins(<<lt, 0, 0, 0>>) THEN "utf32_le"
        ELSE IF Begins(<<0, lt>>) THEN "utf16_be"
        ELSE IF Begins(<<lt, 0>>) THEN "utf16_le"
        ELSE IF name \in latin1_names THEN "latin1"
        ELSE "utf8"

get_buffer_encoding(encoding, data) ==
    IF encoding = "auto" THEN guess_buffer_encoding(data) ELSE Native(encoding)

get_write_encoding(encoding) ==
    IF encoding = "auto" THEN "utf8" ELSE Native(encoding)

-----------------------------------------------------------------------------
\* The UTF-8 text of a buffer. A converted one, and the copy of one that may not
\* be written to, has a terminating zero, which is part of it.
convert_buffer(data, encoding, is_mutable) ==
    LET points == Decode(data, encoding)
        text   == Concat([i \in DOMAIN points |-> utf8_writer(points[i])])
        keeps  == \/ encoding = "utf8"
                  \/ encoding = "latin1" /\ \A i \in DOMAIN data : data[i] < 128
    IN  IF keeps THEN IF is_mutable THEN data ELSE Append(data, 0)
        ELSE Append(text, 0)
=============================================================================

----------------------------- MODULE XmlNumbers -----------------------------
(***************************************************************************)
(* Integers and truth values as texts of a pugixml document: xml_attribute  *)
(* and xml_text write them with set_value and set, and read them with       *)
(* as_int, as_uint and as_bool. The operators are those of one width,        *)
(* IntBytes; the code has them for int, long and long long. Numbers with a  *)
(* fraction, which the C library converts, are left out.                    *)
(***************************************************************************)
EXTENDS XmlTree, Integers

CONSTANT IntBytes   \* sizeof(unsigned int)

ASSUME IntBytesIsAWidth == IntBytes \in {2, 4, 8}

true_  == Chars("true")
false_ == Chars("false")
true_letters == ToSet(Chars("1tTyY"))

\* The values of an unsigned integer are those below modulus.
modulus == 2 ^ (8 * IntBytes)
INT_MAX == modulus \div 2 - 1
INT_MIN == 0 - modulus \div 2
Unsigned(x) == x % modulus
Signed(u)   == IF u > INT_MAX THEN u - modulus ELSE u

-----------------------------------------------------------------------------
(* Reading. *)

\* The longest decimal number has so many digits, and such a first one.
max_digits10 == CASE IntBytes = 8 -> 20 [] IntBytes = 4 -> 10 [] OTHER -> 5
max_lead     == digit0 + (CASE IntBytes = 8 -> 1 [] IntBytes = 4 -> 4 [] OTHER -> 6)

\* The digits from start on, after leading zeros.
DigitsFrom(value, start, symbols) ==
    LET first == Scan(value, start, LAMBDA i : value[i] # digit0)
        end   == Scan(value, first, LAMBDA i : value[i] \notin symbols)
    IN  SubSeq(value, first, end - 1)

\* The sign, the base and the digits.
NumberParts(value) ==
    LET sign   == Scan(value, 1, LAMBDA i : value[i] \notin ct_space)
        Is(i, cs) == i \in DOMAIN value /\ value[i] \in cs
        first  == IF Is(sign, {dash, plus}) THEN sign + 1 ELSE sign
        isHex  == Is(first, {digit0}) /\ Is(first + 1, {letter_x, letter_x - 32})
    IN  [negative |-> Is(sign, {dash}), base |-> IF isHex THEN 16 ELSE 10,
         digits |-> IF isHex THEN DigitsFrom(value, first + 2, hex_digits)
                             ELSE DigitsFrom(value, first, digits)]

\* Mutant: a decimal number of the greatest length never overflows.
Mutant_Overflows(n, result) ==
    Len(n.digits) > (IF n.base = 16 THEN 2 * IntBytes ELSE max_digits10)

\* Whether the digits are too many, as far as can be told from their number, the
\* first of them, and the high bit of what they add up to.
Overflows(n, result) ==
    LET count == Len(n.digits)
        lead  == n.digits[1]
    IN  IF n.base = 16 THEN count > 2 * IntBytes
        ELSE /\ count >= max_digits10
             /\ ~(/\ count = max_digits10
                  /\ \/ lead < max_lead
                     \/ lead = max_lead /\ result > INT_MAX)

\* What the digits add up to, and that between the limits of the type.
Accumulated(n) ==
    FoldLeft(LAMBDA r, c : Unsigned(r * n.base + digit_value(c)), 0, n.digits)
Limited(n, result, minv, maxv) ==
    IF n.negative
    THEN IF Overflows(n, result) \/ result > Unsigned(0 - minv)
         THEN minv ELSE Unsigned(0 - result)
    ELSE IF Overflows(n, result) \/ result > maxv THEN maxv ELSE result

string_to_integer(value, minv, maxv) ==
    LET Read(n) == Limited(n, Accumulated(n), minv, maxv)
    IN  Read(NumberParts(value))

get_value_int(value) == Signed(string_to_integer(value, Unsigned(INT_MIN), INT_MAX))
get_value_uint(value) == string_to_integer(value, 0, modulus - 1)
get_value_bool(value) ==
    value # <<>> /\ value[1] \in true_letters

\* The calls on an attribute; def stands for what has no value. Those on the text
\* of a node are calls on its data.
CanConvert(h, a) == a # Null /\ h.obj[a].value # Null
as_int(h, a, def)  == IF CanConvert(h, a) THEN get_value_int(Text(h, a, "value")) ELSE def
as_uint(h, a, def) == IF CanConvert(h, a) THEN get_value_uint(Text(h, a, "value")) ELSE def
as_bool(h, a, def) == IF CanConvert(h, a) THEN get_value_bool(Text(h, a, "value")) ELSE def

text_as_int(h, n, def)  == as_int(h, text_data(h, n), def)
text_as_uint(h, n, def) == as_uint(h, text_data(h, n), def)
text_as_bool(h, n, def) == as_bool(h, text_data(h, n), def)

-----------------------------------------------------------------------------
(* Writing. *)

RECURSIVE Decimal(_)
Decimal(rest) == (IF rest < 10 THEN <<>> ELSE Decimal(rest \div 10))
                    \o <<digit0 + (rest % 10)>>

integer_to_string(value, negative) ==
    IF negative THEN <<dash>> \o Decimal(Unsigned(0 - value)) ELSE Decimal(value)

\* The text that a number x = [kind, value] is written as.
NumberText(x) ==
    CASE x.kind = "int"  -> integer_to_string(Unsigned(x.value), x.value < 0)
      [] x.kind = "uint" -> integer_to_string(x.value, FALSE)
      [] x.kind = "bool" -> IF x.value THEN true_ ELSE false_

attribute_set_number(h, a, x) ==
    IF a = Null THEN [heap |-> h, ok |-> FALSE]
    ELSE strcpy_insitu(h, a, "value", NumberText(x))

text_set_number(h, n, x) == text_set(h, n, NumberText(x))
=============================================================================

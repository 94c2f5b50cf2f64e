--------------------------- MODULE MCXmlDocument ---------------------------
(***************************************************************************)
(* An instance of XmlReference: the buffers that are loaded, the changes    *)
(* and the formats. Pages hold five nodes.                                  *)
(***************************************************************************)
EXTENDS XmlReference

-----------------------------------------------------------------------------
(* Tokens. *)

a_name == Chars("a")
b_name == Chars("b")
p_name == Chars("p")
q_name == Chars("q")
x_text == Chars("x")

Element(kind, name, attributes_, src) ==
    [kind |-> kind, type |-> "element", name |-> name, value |-> <<>>,
     attrs |-> attributes_, src |-> src]
Other(type, name, value, src) ==
    [kind |-> "node", type |-> type, name |-> name, value |-> value,
     attrs |-> <<>>, src |-> src]
TextToken(atoms) ==
    [kind |-> "text", type |-> "pcdata", name |-> <<>>, value |-> atoms,
     attrs |-> <<>>, src |-> Concat(atoms)]

p_atoms == <<<<blank>>, x_text, crlf, <<blank>>, lt_reference, crlf>>

open_a  == Element("open", a_name, <<>>, Chars("<a>"))
close_a == Element("close", a_name, <<>>, Chars("</a >"))
close_b == Element("close", b_name, <<>>, Chars("</b>"))
empty_b == Element("empty", b_name,
               <<[name |-> p_name, value |-> p_atoms],
                 [name |-> q_name, value |-> <<>>]>>,
               Chars("<b p='") \o Concat(p_atoms) \o Chars("' q = \"\" />"))
comment == Other("comment", <<>>, <<<<dash>>, crlf, x_text>>,
                 Chars("<!---") \o crlf \o Chars("x-->"))
section == Other("cdata", <<>>, <<<<end_bracket>>, lt_reference, crlf>>,
                 Chars("<![CDATA[]&lt;") \o crlf \o Chars("]]>"))
target  == Other("pi", p_name, <<x_text, <<question>>>>, Chars("<?p  x??>"))
declared == [Other("declaration", xml, <<>>, Chars("<?xml p='x' ?>"))
               EXCEPT !.attrs = <<[name |-> p_name, value |-> <<x_text>>]>>]
doctype == Other("doctype", <<>>, <<Chars("a[<!b '>'><![c[]]>]")>>,
                 Chars("<!DOCTYPE a[<!b '>'><![c[]]>]>"))
spaces  == TextToken(<<<<blank>>, crlf>>)
word    == TextToken(<<x_text, lt_reference, <<blank>>>>)

Tokens == {open_a, close_a, close_b, empty_b, comment, section, target,
           declared, doctype, spaces, word}

SeqsUpTo(S, n) == UNION {[1 .. k -> S] : k \in 0 .. n}

OptionSets == {parse_full \cup {"ws_pcdata", "fragment"},
               parse_default,
               parse_full \cup {"ws_pcdata_single", "wnorm_attribute"},
               {"embed_pcdata", "trim_pcdata", "fragment", "pi"}}

Source(tokens) == Concat([i \in DOMAIN tokens |-> tokens[i].src])
LoadOf(how, tokens, cut, opts) ==
    [how |-> how, tokens |-> tokens, cut |-> cut, opts |-> opts,
     encoding |-> "auto",
     data |-> IF cut THEN Front(Source(tokens)) ELSE Source(tokens)]
Wrapped(tokens) == <<open_a>> \o tokens \o <<close_a>>

\* A buffer that is parsed in place loses the last character of a text at its end.
EndsInTag(tokens) == tokens # <<>> /\ Last(tokens).kind # "text"

Sentences == SeqsUpTo(Tokens, 2)
               \cup {Wrapped(tokens) : tokens \in SeqsUpTo(Tokens, 2)}
\* More nodes than there is memory for.
TooLarge == Wrapped([i \in 1 .. 6 |-> empty_b])
GrammarLoads ==
    {LoadOf("buffer", TooLarge, FALSE, parse_default)} \cup
    {LoadOf("buffer", tokens, FALSE, opts) : tokens \in Sentences, opts \in OptionSets}
      \cup {LoadOf("inplace", tokens, cut, parse_full \cup {"embed_pcdata"}) :
               tokens \in {s \in Sentences : EndsInTag(s)}, cut \in BOOLEAN}

small == <<[open_a EXCEPT !.src = Chars("<a p='x'>"),
                          !.attrs = <<[name |-> p_name, value |-> <<x_text>>]>>],
           TextToken(<<x_text>>), close_a>>

EncodedLoads ==
    {[LoadOf(how, small, FALSE, parse_default) EXCEPT
        !.encoding = encoding,
        !.data = convert_buffer_output(@, Native(encoding))] :
        how \in {"buffer", "file", "inplace", "stream"},
        encoding \in {"utf8", "utf16_le", "utf16_be", "utf32_le", "utf32_be", "latin1"}}

Seeds == {LoadOf("string", Wrapped(tokens), FALSE, parse_full) :
             tokens \in {<<section>>, <<comment, target>>}}
           \cup {LoadOf("string", small, FALSE, parse_full)}

\* Numbers about the limits of integers of two bytes.
Numerals == {"32767", "32768", "65535", "65536", "69999", "70000", "99999", "100000",
             "0065536", "59999", "6553", "-32768", "-32769", "-65536", "-00", "+7", "-",
             "", "0", "0x7fff", "0xFFFF", "0x10000", "-0x8000", "-0x8001", "0X00ffff",
             "0xg", "0x", " 12a", "1 2", "true", "--1"}
NumberLoads ==
    {LoadOf("string",
            <<Element("empty", a_name,
                 <<[name |-> p_name, value |-> [i \in 1 .. Len(text) |-> <<Chars(text)[i]>>]]>>,
                 Chars("<a p='") \o Chars(text) \o Chars("'/>"))>>,
            FALSE, parse_default) : text \in Numerals}

MCEdited == Seeds
MCLoads  == GrammarLoads \cup EncodedLoads \cup NumberLoads \cup Seeds
MCNumbers == {[kind |-> "int", value |-> INT_MIN], [kind |-> "uint", value |-> modulus - 1],
              [kind |-> "bool", value |-> TRUE]}
MCNewTypes == {"pcdata", "declaration"}
MCNewNames == {b_name}
MCNewTexts == 
    {utf8_writer(233) \o Chars("--]]") \o utf8_writer(8364) \o Chars("]]>?>-")}
MCFragments == {[data |-> Chars("<b>x</b>"), opts |-> parse_default],
                [data |-> Chars("x</a>"), opts |-> parse_default \cup {"fragment"}]}
MCSaveModes ==
    {[indent |-> <<>>, flags |-> {"raw"}, encoding |-> "utf8"],
     [indent |-> <<tab>>, flags |-> {"indent", "write_bom"}, encoding |-> "utf16_be"],
     [indent |-> <<blank>>, flags |-> {"indent_attributes"}, encoding |-> "latin1"],
     [indent |-> <<>>, flags |-> {"raw", "no_declaration", "no_empty_element_tags"},
      encoding |-> "utf32_le"]}
=============================================================================

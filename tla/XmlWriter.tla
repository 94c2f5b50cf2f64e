----------------------------- MODULE XmlWriter -----------------------------
(***************************************************************************)
(* Writing a pugixml document (pugixml.cc, from "Output facilities" on).    *)
(*                                                                         *)
(* What a function writes is a sequence of pieces, each the argument of a   *)
(* call of write, write_buffer or write_string; WriteAll takes them through *)
(* xml_buffered_writer, whose buffer has bufcapacity characters, to the     *)
(* bytes that reach the user's xml_writer.                                  *)
(***************************************************************************)
EXTENDS XmlWalk

CONSTANT bufcapacity

ASSUME BufferHoldsCharacters == bufcapacity \in Nat /\ bufcapacity >= 8

format_flags == {"indent", "write_bom", "raw", "no_declaration", "no_escapes",
                 "indent_attributes", "no_empty_element_tags"}

-----------------------------------------------------------------------------
(* The buffered writer: w.out are the bytes written, w.buffer the characters *)
(* kept.                                                                     *)

flush(w) == [w EXCEPT !.out = @ \o convert_buffer_output(w.buffer, w.encoding),
                      !.buffer = <<>>]

IsTrail(c) == c \in 128 .. 191

\* Mutant: a chunk is cut wherever it happens to end.
Mutant_get_valid_length(data) == IF Len(data) < 5 THEN 0 ELSE Len(data)

\* How much of data can be converted without cutting a character in two; the
\* last character, of which more may follow, is left out.
get_valid_length(data) ==
    LET leads == {i \in 1 .. 4 : ~IsTrail(data[Len(data) - i + 1])}
    IN  IF Len(data) < 5 THEN 0
        ELSE IF leads = {} THEN Len(data) ELSE Len(data) - Min(leads)

\* A large text is converted in chunks; what is left fits the buffer.
RECURSIVE WriteChunks(_, _)
WriteChunks(w, data) ==
    LET size == get_valid_length(SubSeq(data, 1, bufcapacity))
    IN  IF Len(data) <= bufcapacity THEN [w EXCEPT !.buffer = data]
        ELSE WriteChunks([w EXCEPT !.out = @ \o
                             convert_buffer_output(SubSeq(data, 1, size), w.encoding)],
                         SubSeq(data, size + 1, Len(data)))
write_direct(w, data) ==
    LET g == flush(w)
    IN  IF Len(data) > bufcapacity /\ w.encoding = "utf8"
        THEN [g EXCEPT !.out = @ \o data]
        ELSE WriteChunks(g, data)

write_buffer(w, data) ==
    IF Len(w.buffer) + Len(data) <= bufcapacity
    THEN [w EXCEPT !.buffer = @ \o data] ELSE write_direct(w, data)

write_string(w, data) ==
    LET room  == bufcapacity - Len(w.buffer)
        first == SubSeq(data, 1, room)
        valid == get_valid_length(first)
    IN  IF Len(data) < room THEN [w EXCEPT !.buffer = @ \o data]
        ELSE write_direct([w EXCEPT !.buffer = @ \o SubSeq(first, 1, valid)],
                          SubSeq(data, valid + 1, Len(data)))

\* write(d0, ...): up to six characters that stay together.
write(w, data) ==
    LET g == IF Len(w.buffer) + Len(data) > bufcapacity THEN flush(w) ELSE w
    IN  [g EXCEPT !.buffer = @ \o data]

WriteAll(pieces, encoding) ==
    flush(FoldLeft(LAMBDA w, p : CASE p.how = "write"  -> write(w, p.data)
                                   [] p.how = "buffer" -> write_buffer(w, p.data)
                                   [] p.how = "string" -> write_string(w, p.data),
                   [out |-> <<>>, buffer |-> <<>>,
                    encoding |-> get_write_encoding(encoding)],
                   pieces)).out

Write(data)  == <<[how |-> "write",  data |-> data]>>
Buffer(data) == <<[how |-> "buffer", data |-> data]>>
String(data) == <<[how |-> "string", data |-> data]>>

-----------------------------------------------------------------------------
(* Texts. *)

amp_escape  == Chars("&amp;")
lt_escape   == Chars("&lt;")
gt_escape   == Chars("&gt;")
quot_escape == Chars("&quot;")
cdata_begin == Chars("<![CDATA[")
cdata_close == Chars("]]>")
comment_begin == Chars("<!--")
comment_close == Chars("-->")
pi_begin    == Chars("<?")
pi_close    == Chars("?>")
pi_escape   == Chars("? >")
doctype_begin == Chars("<!DOCTYPE")
empty_close == Chars("/>")
end_begin   == Chars("</")
anonymous   == Chars(":anonymous")
dash_blank  == Chars("- ")

Escape(c) ==
    CASE c = amp   -> amp_escape
      [] c = lt    -> lt_escape
      [] c = gt    -> gt_escape
      [] c = quote -> quot_escape
      [] OTHER     -> <<amp, hash, digit0 + (c \div 10), digit0 + (c % 10), semicolon>>

From(s, i) == SubSeq(s, i, Len(s))

RECURSIVE text_output_escaped(_, _)
text_output_escaped(s, special) ==
    LET i == Scan(s, 1, LAMBDA j : s[j] \in special)
    IN  IF s = <<>> THEN <<>>
        ELSE Buffer(SubSeq(s, 1, i - 1))
               \o IF i > Len(s) THEN <<>>
                  ELSE Write(Escape(s[i])) \o text_output_escaped(From(s, i + 1),
                                                                  special)

text_output(s, special, flags) ==
    IF "no_escapes" \in flags THEN String(s) ELSE text_output_escaped(s, special)

\* A section that would contain its own end is continued in another one.
RECURSIVE text_output_cdata(_)
text_output_cdata(s) ==
    LET i    == Scan(s, 1, LAMBDA j : StartsWith(s, j, cdata_close))
        part == IF i > Len(s) THEN s ELSE SubSeq(s, 1, i + 1)
        rest == From(s, Len(part) + 1)
    IN  Write(SubSeq(cdata_begin, 1, 5)) \o Write(From(cdata_begin, 6))
          \o Buffer(part) \o Write(cdata_close)
          \o IF rest = <<>> THEN <<>> ELSE text_output_cdata(rest)

text_output_indent(indent, depth) ==
    Concat([i \in 1 .. depth |-> IF Len(indent) \in 1 .. 4 THEN Write(indent)
                                 ELSE Buffer(indent)])

\* Two dashes, or one at the end, are parted by a blank.
RECURSIVE CommentBody(_)
CommentBody(s) ==
    LET i == Scan(s, 1, LAMBDA j : s[j] = dash
                                   /\ (j = Len(s) \/ s[j + 1] = dash))
    IN  IF s = <<>> THEN <<>>
        ELSE Buffer(SubSeq(s, 1, i - 1))
               \o IF i > Len(s) THEN <<>>
                  ELSE Write(dash_blank) \o CommentBody(From(s, i + 1))
node_output_comment(s) ==
    Write(comment_begin) \o CommentBody(s) \o Write(comment_close)

RECURSIVE node_output_pi_value(_)
node_output_pi_value(s) ==
    LET i == Scan(s, 1, LAMBDA j : StartsWith(s, j, pi_close))
    IN  IF s = <<>> THEN <<>>
        ELSE Buffer(SubSeq(s, 1, i - 1))
               \o IF i > Len(s) THEN <<>>
                  ELSE Write(pi_escape) \o node_output_pi_value(From(s, i + 2))

-----------------------------------------------------------------------------
(* Nodes. *)

NameOr(h, o) == IF h.obj[o].name = Null THEN anonymous ELSE Text(h, o, "name")

node_output_attributes(h, n, indent, flags, depth) ==
    LET own == {"indent_attributes", "raw"} \cap flags = {"indent_attributes"}
        One(a) == (IF own THEN Write(<<newline>>)
                               \o text_output_indent(indent, depth + 1)
                          ELSE Write(<<blank>>))
                    \o String(NameOr(h, a)) \o Write(<<equal, quote>>)
                    \o text_output(Text(h, a, "value"), ctx_special_attr, flags)
                    \o Write(<<quote>>)
    IN  Concat([i \in DOMAIN attributes(h, n) |-> One(attributes(h, n)[i])])

node_output_end(h, n) ==
    Write(end_begin) \o String(NameOr(h, n)) \o Write(<<gt>>)

\* The start tag with the value kept in the element; all of the element when it
\* has no children.
node_output_start(h, n, indent, flags, depth) ==
    LET leaf == First(h, n) = Null
    IN  Write(<<lt>>) \o String(NameOr(h, n))
          \o node_output_attributes(h, n, indent, flags, depth)
          \o IF h.obj[n].value # Null
             THEN Write(<<gt>>)
                    \o text_output(Text(h, n, "value"), ctx_special_pcdata, flags)
                    \o IF leaf THEN node_output_end(h, n) ELSE <<>>
             ELSE IF ~leaf THEN Write(<<gt>>)
             ELSE IF "no_empty_element_tags" \in flags
             THEN Write(<<gt, lt, slash>>) \o String(NameOr(h, n)) \o Write(<<gt>>)
             ELSE (IF "raw" \in flags THEN <<>> ELSE Write(<<blank>>))
                    \o Write(empty_close)

node_output_simple(h, n, flags) ==
    LET type  == h.obj[n].type
        value == Text(h, n, "value")
        name  == NameOr(h, n)
        has   == h.obj[n].value # Null
    IN  CASE type = "pcdata" -> text_output(value, ctx_special_pcdata, flags)
          [] type = "cdata"  -> text_output_cdata(value)
          [] type = "comment" -> node_output_comment(value)
          [] type = "pi" ->
               Write(pi_begin) \o String(name)
                 \o (IF has THEN Write(<<blank>>) \o node_output_pi_value(value)
                            ELSE <<>>)
                 \o Write(pi_close)
          [] type = "declaration" ->
               Write(pi_begin) \o String(name)
                 \o node_output_attributes(h, n, <<>>, flags \cup {"raw"}, 0)
                 \o Write(pi_close)
          [] type = "doctype" ->
               Write(SubSeq(doctype_begin, 1, 5)) \o Write(From(doctype_begin, 6))
                 \o (IF has THEN Write(<<blank>>) \o String(value) ELSE <<>>)
                 \o Write(<<gt>>)

\* Returns the pieces and what may go before the next tag: a newline and the
\* indentation, unless a text came last.
RECURSIVE NodeOutput(_, _, _, _, _, _)
NodeOutput(h, n, indent, flags, depth, before) ==
    LET type == h.obj[n].type
        Lead(b) == (IF "newline" \in b /\ "raw" \notin flags
                    THEN Write(<<newline>>) ELSE <<>>)
                     \o IF "indent" \in b THEN text_output_indent(indent, depth)
                                          ELSE <<>>
        both == {"newline", "indent"}
        below == IF type = "element" THEN depth + 1 ELSE depth
        opened == CASE type = "document" -> {"indent"}
                    [] h.obj[n].value # Null -> {}
                    [] OTHER -> both
        inner == FoldLeft(LAMBDA o, c :
                     LET r == NodeOutput(h, c, indent, flags, below, o.before)
                     IN  [pieces |-> o.pieces \o r.pieces, before |-> r.before],
                     [pieces |-> <<>>, before |-> opened], children(h, n))
    IN  IF type \in {"pcdata", "cdata"}
        THEN [pieces |-> node_output_simple(h, n, flags), before |-> {}]
        ELSE IF type = "document"
        THEN [pieces |-> Lead(before) \o inner.pieces, before |-> inner.before]
        ELSE IF type # "element"
        THEN [pieces |-> Lead(before) \o node_output_simple(h, n, flags),
              before |-> both]
        ELSE [pieces |-> Lead(before) \o node_output_start(h, n, indent, flags, depth)
                           \o (IF First(h, n) = Null THEN <<>>
                               ELSE inner.pieces \o Lead(inner.before)
                                      \o node_output_end(h, n)),
              before |-> both]

node_output(h, n, indent, flags) ==
    LET used == IF flags \cap {"indent", "indent_attributes"} # {}
                   /\ "raw" \notin flags THEN indent ELSE <<>>
        r    == NodeOutput(h, n, used, flags, 0, {"indent"})
    IN  r.pieces \o IF "newline" \in r.before /\ "raw" \notin flags
                    THEN Write(<<newline>>) ELSE <<>>

\* Whether there is a declaration before the first element.
has_declaration(h) ==
    LET c == FirstWith(children(h, document), LAMBDA i :
                 h.obj[i].type \in {"declaration", "element"})
    IN  c # Null /\ h.obj[c].type = "declaration"

version_decl == Chars("<?xml version=\"1.0\"")
latin1_decl  == Chars(" encoding=\"ISO-8859-1\"")

\* xml_document::save: the bytes written.
save(h, indent, flags, encoding) ==
    LET declared == "no_declaration" \notin flags /\ ~has_declaration(h)
        bom  == IF "write_bom" \in flags /\ encoding # "latin1"
                THEN Write(utf8_bom) ELSE <<>>
        decl == String(version_decl)
                  \o (IF encoding = "latin1" THEN String(latin1_decl) ELSE <<>>)
                  \o Write(pi_close)
                  \o IF "raw" \in flags THEN <<>> ELSE Write(<<newline>>)
    IN  WriteAll(bom \o (IF declared THEN decl ELSE <<>>)
                   \o node_output(h, document, indent, flags), encoding)
=============================================================================

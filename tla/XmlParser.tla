----------------------------- MODULE XmlParser -----------------------------
(***************************************************************************)
(* The parser of pugixml (pugixml.cc, xml_parser): from a buffer to nodes   *)
(* below a root, in place.                                                 *)
(*                                                                         *)
(* A parser record p has the heap h, the buffer b without its last          *)
(* character endch (in whose place the code stores the zero that ends the   *)
(* buffer), the options opts, the position s of the next character, the     *)
(* node cursor that is being parsed, and the status with the position at    *)
(* where an error was found. Once there is an error nothing more is done.   *)
(*                                                                         *)
(* A text the parser has begun and not ended when it fails is Unterminated: *)
(* how much of the rest of the buffer it shows is not modelled.             *)
(***************************************************************************)
EXTENDS XmlTree

Unterminated == <<0>>

\* The options: the kinds of node that are kept besides elements, what is done to
\* texts, and what becomes of white space.
parse_default == {"cdata", "escapes", "wconv_attribute", "eol"}
parse_full    == parse_default \cup {"pi", "comments", "declaration", "doctype"}
parse_options == parse_full \cup {"ws_pcdata", "ws_pcdata_single", "wnorm_attribute",
                                  "trim_pcdata", "embed_pcdata", "fragment"}

\* What follows "<!".
DOCTYP    == Chars("DOCTYP")
CDATA_    == Chars("[CDATA[")
letter_E  == Char("E")
exclamation == Char("!")
bracket   == Char("[")
end_bracket == Char("]")
comment_start == Chars("<!--")
pi_start  == Chars("<?")
pi_end    == Chars("?>")
comment_end == Chars("-->")
group_start == Chars("<!")
ignore_start == Chars("<![")
ignore_end   == Chars("]]>")

At(p, i) == IF i <= Len(p.b) THEN p.b[i] ELSE 0
Cur(p)   == At(p, p.s)
Part(p, i, j) == SubSeq(p.b, i, j - 1)
Looking(p, i, literal) == StartsWith(p.b, i, literal)

Throw(p, status, at) == [p EXCEPT !.status = status, !.at = at]
Then(p, F(_)) == IF p.status = "ok" THEN F(p) ELSE p
Step(p, n)    == [p EXCEPT !.s = @ + n]
Goto(p, i)    == [p EXCEPT !.s = i]

\* PUGI__ENDSWITH, PUGI__SKIPWS, PUGI__SCANFOR, PUGI__PUSHNODE, PUGI__POPNODE.
\* Mutant: the character taken off the end of the buffer is forgotten.
Mutant_EndsWith(p, i, c) == At(p, i) = c
EndsWith(p, i, c) == At(p, i) = c \/ (At(p, i) = 0 /\ p.endch = c)
SkipSpace(p)   == Goto(p, Scan(p.b, p.s, LAMBDA i : p.b[i] \notin ct_space))
SymbolEnd(p, i) == Scan(p.b, i, LAMBDA j : p.b[j] \notin ct_symbol)
\* Where "??>" (or "--", "]]") with the given characters ends what began at p.s.
EndOf(p, mark) ==
    Scan(p.b, p.s, LAMBDA i : /\ StartsWith(p.b, i, mark)
                              /\ EndsWith(p, i + Len(mark), gt))

SetCursor(p, new) ==
    IF new.obj = Null
    THEN Throw([p EXCEPT !.h = new.heap], "out_of_memory", p.s)
    ELSE [p EXCEPT !.h = new.heap, !.cursor = new.obj]
PushNode(p, type) == SetCursor(p, append_new_node(p.h, p.cursor, type))
PopNode(p)        == [p EXCEPT !.cursor = p.h.obj[@].parent]

\* The object o gets as name or value the text that begins at i of the buffer.
Assign(p, o, field, text, i) ==
    LET s == Fresh(DOMAIN p.h.str)
    IN  [p EXCEPT !.h.str = @ @@ (s :> BufferString(text, i - 1)),
                  !.h.obj[o][field] = s]
SetCursorText(p, field, text, i) == Assign(p, p.cursor, field, text, i)

-----------------------------------------------------------------------------
(* Texts are converted where they are: gap closes the holes that this        *)
(* leaves, so that the text is what is not skipped.                          *)

RECURSIVE Number(_, _)
Number(ds, base) ==
    IF ds = <<>> THEN 0
    ELSE Number(Front(ds), base) * base
           + digit_value(Last(ds))
named_escapes == {[name |-> Chars("amp;"),  char |-> amp],
                  [name |-> Chars("apos;"), char |-> apostrophe],
                  [name |-> Chars("gt;"),   char |-> gt],
                  [name |-> Chars("lt;"),   char |-> lt],
                  [name |-> Chars("quot;"), char |-> quote]}

\* The character with the number that is written from from on.
CodeEscape(p, s, from, base) ==
    LET symbols == IF base = 16 THEN hex_digits ELSE digits
        to      == Scan(p.b, from, LAMBDA i : p.b[i] \notin symbols)
    IN  IF to > from /\ At(p, to) = semicolon
        THEN [text |-> utf8_writer(Number(Part(p, from, to), base)), s |-> to + 1]
        ELSE [text |-> <<amp>>, s |-> s + 1]

\* The character reference at an ampersand and where it ends; what is none
\* stays as it is.
strconv_escape(p, s) ==
    LET isHex == At(p, s + 2) = letter_x
        named == {e \in named_escapes : Looking(p, s + 1, e.name)}
    IN  IF At(p, s + 1) = hash
        THEN CodeEscape(p, s, IF isHex THEN s + 3 ELSE s + 2, IF isHex THEN 16 ELSE 10)
        ELSE IF named = {} THEN [text |-> <<amp>>, s |-> s + 1]
        ELSE LET e == CHOOSE e \in named : TRUE
             IN  [text |-> <<e.char>>, s |-> s + 1 + Len(e.name)]

\* The text from s up to end, converted:
\* "eol" makes one newline of a line end, "wconv" a blank of each white-space
\* character, "wnorm" one blank of several.
RECURSIVE Converted(_, _, _, _)
Converted(p, s, end, how) ==
    LET c   == At(p, s)
        one == IF "wconv" \in how THEN <<blank>> ELSE <<newline>>
        \* What is at s becomes r.text, and goes on at r.s.
        Becomes(r) == r.text \o Converted(p, r.s, end, how)
        To(text, next) == [text |-> text, s |-> next]
    IN  IF s >= end THEN <<>>
        ELSE Becomes(
            IF "wnorm" \in how /\ c \in ct_space
            THEN To(<<blank>>, Scan(p.b, s, LAMBDA i : p.b[i] \notin ct_space))
            ELSE IF c = return_ /\ how \cap {"eol", "wconv"} # {}
            THEN To(one, IF At(p, s + 1) = newline THEN s + 2 ELSE s + 1)
            ELSE IF "wconv" \in how /\ c \in ct_space THEN To(one, s + 1)
            ELSE IF "escapes" \in how /\ c = amp THEN strconv_escape(p, s)
            ELSE To(<<c>>, s + 1))

\* A text ends with its first zero.
CString(text) == SubSeq(text, 1, Scan(text, 1, LAMBDA i : text[i] = 0) - 1)
RECURSIVE TrimEnd(_)
TrimEnd(text) == IF text # <<>> /\ Last(text) \in ct_space
                 THEN TrimEnd(Front(text)) ELSE text

eol_only(p) == p.opts \cap {"eol"}

strconv_pcdata(p, s, end) ==
    LET Trim(text) == IF "trim_pcdata" \in p.opts THEN TrimEnd(text) ELSE text
    IN  CString(Trim(Converted(p, s, end, p.opts \cap {"eol", "escapes"})))

\* The first of the three conversions of white space that is an option; "wnorm"
\* drops it at both ends.
strconv_attribute(p, s, end) ==
    LET wnorm == "wnorm_attribute" \in p.opts
        first == IF wnorm THEN Scan(p.b, s, LAMBDA i : p.b[i] \notin ct_space) ELSE s
        how   == IF wnorm THEN {"wnorm"}
                 ELSE IF "wconv_attribute" \in p.opts THEN {"wconv"} ELSE eol_only(p)
        Trim(text) == IF wnorm THEN TrimEnd(text) ELSE text
    IN  CString(Trim(Converted(p, first, end, how \cup (p.opts \cap {"escapes"}))))

-----------------------------------------------------------------------------
(* A document type is skipped over: quoted texts, instructions and comments, *)
(* ignored sections, groups. Each operator gives the position after what     *)
(* begins at s, or Failed(at) beyond the buffer for an error found at at.    *)

Failed(p, at) == Len(p.b) + 1 + at
AfterMark(p, s, mark) ==
    LET i == Scan(p.b, s, LAMBDA j : StartsWith(p.b, j, mark))
    IN  IF i > Len(p.b) THEN Failed(p, i) ELSE i + Len(mark)

parse_doctype_primitive(p, s) ==
    IF At(p, s) \in {quote, apostrophe} THEN AfterMark(p, s + 1, <<At(p, s)>>)
    ELSE IF Looking(p, s, pi_start) THEN AfterMark(p, s + 2, pi_end)
    ELSE IF Looking(p, s, comment_start) THEN AfterMark(p, s + 4, comment_end)
    ELSE Failed(p, s)

RECURSIVE parse_doctype_ignore(_, _, _), parse_doctype_group(_, _, _)
parse_doctype_ignore(p, s, depth) ==
    IF s > Len(p.b) THEN Failed(p, s)
    ELSE IF Looking(p, s, ignore_start)
    THEN parse_doctype_ignore(p, s + 3, depth + 1)
    ELSE IF Looking(p, s, ignore_end)
    THEN IF depth = 0 THEN s + 3 ELSE parse_doctype_ignore(p, s + 3, depth - 1)
    ELSE parse_doctype_ignore(p, s + 1, depth)

\* Ends at the '>' of the group, which may be the last character of the buffer.
parse_doctype_group(p, s, depth) ==
    IF s > Len(p.b) + 1 THEN s
    ELSE IF At(p, s) = 0
    THEN IF depth = 0 /\ p.endch = gt THEN s ELSE Failed(p, s)
    ELSE IF Looking(p, s, ignore_start)
    THEN parse_doctype_group(p, parse_doctype_ignore(p, s + 3, 0), depth)
    ELSE IF Looking(p, s, group_start) /\ At(p, s + 2) # dash
    THEN parse_doctype_group(p, s + 2, depth + 1)
    ELSE IF At(p, s) \in {lt, quote, apostrophe}
    THEN parse_doctype_group(p, parse_doctype_primitive(p, s), depth)
    ELSE IF At(p, s) = gt
    THEN IF depth = 0 THEN s ELSE parse_doctype_group(p, s + 1, depth - 1)
    ELSE parse_doctype_group(p, s + 1, depth)

-----------------------------------------------------------------------------
(* "<!": comments, CDATA sections, document types.                          *)

\* A section, whose node is the cursor when it is kept, ends with a mark and '>' at
\* end. An unended one is found at its begin when it is kept and its line ends are
\* converted, at the end of the buffer otherwise.
SectionAt(p, kept, end, error) ==
    LET WithText(text) == IF kept THEN SetCursorText(p, "value", text, p.s) ELSE p
    IN  IF end > Len(p.b)
        THEN Throw(WithText(Unterminated), error,
                   IF kept /\ "eol" \in p.opts THEN p.s ELSE end)
        ELSE Goto(WithText(Converted(p, p.s, end, eol_only(p))),
                  IF At(p, end + 2) = gt THEN end + 3 ELSE end + 2)

Section(p, type, kept, mark, error) ==
    Then(IF kept THEN PushNode(p, type) ELSE p,
         LAMBDA q : SectionAt(q, kept, EndOf(p, mark), error))

\* A document type, which ends at end.
DoctypeUpTo(p, end) ==
    LET begin == Scan(p.b, p.s + 8, LAMBDA i : p.b[i] \notin ct_space)
        after == IF end <= Len(p.b) THEN end + 1 ELSE end
    IN  IF end > Len(p.b) + 1
        THEN Throw(p, "bad_doctype", end - Failed(p, 0))
        ELSE IF "doctype" \notin p.opts THEN Goto(p, after)
        ELSE Then(PushNode(Goto(p, after), "doctype"), LAMBDA q :
                  SetCursorText(q, "value", Part(p, begin, end), begin))

parse_doctype(p) ==
    IF p.h.obj[p.cursor].parent # Null THEN Throw(p, "bad_doctype", p.s - 1)
    ELSE DoctypeUpTo(p, parse_doctype_group(p, p.s + 1, 0))

\* p.s is at the '!'.
parse_exclamation(p) ==
    LET s == p.s + 1
    IN  IF At(p, s) = dash
        THEN IF At(p, s + 1) # dash THEN Throw(p, "bad_comment", s + 1)
             ELSE Section(Goto(p, s + 2), "comment", "comments" \in p.opts,
                          <<dash, dash>>, "bad_comment")
        ELSE IF At(p, s) = bracket
        THEN IF ~Looking(p, s, CDATA_)
             THEN Throw(p, "bad_cdata", s + Scan(CDATA_, 2, LAMBDA i :
                                                At(p, s + i - 1) # CDATA_[i]) - 1)
             ELSE Section(Goto(p, s + 7), "cdata", "cdata" \in p.opts,
                          <<end_bracket, end_bracket>>, "bad_cdata")
        ELSE IF Looking(p, s, DOCTYP) /\ EndsWith(p, s + 6, letter_E)
        THEN parse_doctype(p)
        ELSE IF At(p, s) = 0 /\ p.endch = dash THEN Throw(p, "bad_comment", s)
        ELSE IF At(p, s) = 0 /\ p.endch = bracket THEN Throw(p, "bad_cdata", s)
        ELSE Throw(p, "unrecognized_tag", s)
-----------------------------------------------------------------------------
(* "<?": instructions and the declaration. The declaration is left open, its *)
(* attributes are parsed like those of an element that ends with "/>".       *)

IsDeclarationTarget(name) == LowerText(name) = xml

\* Where "?>" is, from i on; the next character after one that is at i.
QuestionEnd(p, i) == Scan(p.b, i, LAMBDA j : At(p, j) = question
                                             /\ EndsWith(p, j + 1, gt))
AfterQuestion(p, i) == IF At(p, i + 1) = gt THEN i + 2 ELSE i + 1
BadPi(p, at) == Throw(p, "bad_pi", at)

\* The value of the instruction at the cursor begins at p.s and ends at stop. A
\* declaration is left open, its end is made that of an empty element.
PiValue(p, isDecl, stop) ==
    IF stop > Len(p.b) THEN BadPi(p, stop)
    ELSE IF isDecl THEN [p EXCEPT !.b[stop] = slash]
    ELSE PopNode(Goto(SetCursorText(p, "value", Part(p, p.s, stop), p.s),
                      AfterQuestion(p, stop)))

\* What follows the target of the instruction at the cursor, which ends at p.s.
AfterTarget(p, isDecl) ==
    LET begin == SkipSpace(Step(p, 1)).s
    IN  IF Cur(p) = question
        THEN IF EndsWith(p, p.s + 1, gt) THEN PopNode(Goto(p, AfterQuestion(p, p.s)))
             ELSE BadPi(p, p.s + 1)
        ELSE IF Cur(p) \notin ct_space THEN BadPi(p, p.s + 1)
        ELSE PiValue(Goto(p, begin), isDecl, QuestionEnd(p, begin))

\* The target is from begin to end; an instruction that is not kept is skipped, up
\* to close.
PiAt(p, begin, end, close) ==
    LET isDecl == IsDeclarationTarget(Part(p, begin, end))
        type   == IF isDecl THEN "declaration" ELSE "pi"
    IN  IF end > Len(p.b) THEN BadPi(p, end)
        ELSE IF type \notin p.opts
        THEN IF close > Len(p.b) THEN BadPi(p, close)
             ELSE Goto(p, AfterQuestion(p, close))
        ELSE IF isDecl /\ p.h.obj[p.cursor].parent # Null THEN BadPi(p, end)
        ELSE Then(PushNode(Goto(p, end), type), LAMBDA q :
                  AfterTarget(SetCursorText(q, "name", Part(p, begin, end), begin),
                              isDecl))

parse_question(p) ==
    LET end == SymbolEnd(p, p.s + 1)
    IN  IF Cur(Step(p, 1)) \notin ct_start_symbol THEN BadPi(p, p.s + 1)
        ELSE PiAt(p, p.s + 1, end, QuestionEnd(p, end))

-----------------------------------------------------------------------------
(* The loop over the buffer. *)

RECURSIVE parse_tree(_), Tag(_), ParseAttributes(_)

AfterAttribute(p) ==
    IF Cur(p) \in ct_start_symbol THEN Throw(p, "bad_attribute", p.s)
    ELSE ParseAttributes(p)

\* The attribute a, named already, whose value in quotes from open to close follows.
AttributeValueAt(p, a, open, close) ==
    LET Valued(text) == Assign(p, a, "value", text, open + 1)
    IN  IF close > Len(p.b)
        THEN Throw(Valued(Unterminated), "bad_attribute", open + 1)
        ELSE AfterAttribute(Goto(Valued(strconv_attribute(p, open + 1, close)),
                                 close + 1))

\* What follows the name of the attribute a, with the first character that is not
\* white space at equals, and at open the next one behind it.
AfterAttributeName(p, a, equals, open) ==
    IF At(p, equals) # equal THEN Throw(p, "bad_attribute", equals + 1)
    ELSE IF At(p, open) \notin {quote, apostrophe} THEN Throw(p, "bad_attribute", open)
    ELSE AttributeValueAt(p, a, open,
                          Scan(p.b, open + 1, LAMBDA i : p.b[i] = p.b[open]))

\* The attribute whose name begins at p.s has been appended.
AttributeAt(p, a) ==
    LET end    == SymbolEnd(p, p.s)
        equals == SkipSpace(Goto(p, end)).s
    IN  AfterAttributeName(Assign(p, a, "name", Part(p, p.s, end), p.s), a,
                           equals, SkipSpace(Goto(p, equals + 1)).s)

AddAttribute(p, new) ==
    IF new.obj = Null THEN Throw([p EXCEPT !.h = new.heap], "out_of_memory", p.s)
    ELSE AttributeAt([p EXCEPT !.h = new.heap], new.obj)

\* An attribute, or the end of the tag.
AttributeOrEnd(p) ==
    LET s == p.s
    IN  IF Cur(p) \in ct_start_symbol
        THEN AddAttribute(p, append_new_attribute(p.h, p.cursor))
        ELSE IF Cur(p) = slash
        THEN IF At(p, s + 1) = gt THEN PopNode(Step(p, 2))
             ELSE IF At(p, s + 1) = 0 /\ p.endch = gt THEN PopNode(Step(p, 1))
             ELSE Throw(p, "bad_start_element", s + 1)
        ELSE IF Cur(p) = gt THEN Step(p, 1)
        ELSE IF Cur(p) = 0 /\ p.endch = gt THEN p
        ELSE Throw(p, "bad_start_element", s)

\* From after a name or an attribute on to the end of the tag.
ParseAttributes(p) == AttributeOrEnd(SkipSpace(p))

\* What follows the name of the element at the cursor, which ends at p.s.
AfterName(p) ==
    LET ch == Cur(p)
        Bad(at) == Throw(p, "bad_start_element", at)
    IN  IF ch = gt THEN Step(p, 1)
        ELSE IF ch \in ct_space THEN ParseAttributes(Step(p, 1))
        ELSE IF ch = slash
        THEN IF ~EndsWith(p, p.s + 1, gt) THEN Bad(p.s + 1)
             ELSE PopNode(Step(p, IF At(p, p.s + 1) = gt THEN 2 ELSE 1))
        ELSE IF ch = 0 THEN IF p.endch = gt THEN p ELSE Bad(p.s)
        ELSE Bad(p.s + 1)

StartTag(p) ==
    LET end == SymbolEnd(p, p.s)
        Named(q) == SetCursorText(q, "name", Part(p, p.s, end), p.s)
    IN  Then(PushNode(p, "element"), LAMBDA q : AfterName(Goto(Named(q), end)))

\* The name of the end tag must be that of the cursor; what follows is checked
\* once the cursor is back at the parent.
EndTag(p) ==
    LET name == Text(p.h, p.cursor, "name")
        mark == p.s + 1
        end  == SymbolEnd(p, mark)
        given == Part(p, mark, end)
        after == SkipSpace(Goto(PopNode(p), end))
    IN  IF p.h.obj[p.cursor].name = Null
        THEN Throw(p, "end_element_mismatch", mark)
        ELSE IF given # name
        THEN IF At(p, end) = 0 /\ name = Append(given, p.endch)
             THEN Throw(p, "bad_end_element", end)
             ELSE Throw(p, "end_element_mismatch", mark)
        ELSE IF Cur(after) = gt THEN Step(after, 1)
        ELSE IF Cur(after) = 0 /\ p.endch = gt THEN after
        ELSE Throw(after, "bad_end_element", after.s)

\* A declaration is left open for its attributes.
InDeclaration(p) == IF p.h.obj[p.cursor].type = "declaration"
                    THEN ParseAttributes(p) ELSE p

\* What follows a '<'.
Tag(p) ==
    LET c == Cur(p)
    IN  parse_tree(
          IF c \in ct_start_symbol THEN StartTag(p)
          ELSE IF c = slash THEN EndTag(p)
          ELSE IF c = question THEN Then(parse_question(p), InDeclaration)
          ELSE IF c = exclamation
          THEN [parse_exclamation(p) EXCEPT !.cursor = p.cursor]
          ELSE Throw(p, IF c = 0 /\ p.endch = question THEN "bad_pi"
                                                       ELSE "unrecognized_tag",
                     p.s))

\* White space between tags is kept when the options say so.
SkipsSpace(p, after) ==
    /\ At(p, after) \in {lt, 0}
    /\ \/ p.opts \cap {"ws_pcdata", "ws_pcdata_single"} = {}
       \/ "trim_pcdata" \in p.opts
       \/ /\ "ws_pcdata_single" \in p.opts
          /\ \/ At(p, after) # lt
             \/ At(p, after + 1) # slash
             \/ First(p.h, p.cursor) # Null

Embeds(p) == /\ "embed_pcdata" \in p.opts
             /\ p.h.obj[p.cursor].parent # Null
             /\ First(p.h, p.cursor) = Null
             /\ p.h.obj[p.cursor].value = Null

\* From the text that ended at end on. A '<' that ends the buffer behind a text
\* that is kept is not a tag.
AfterText(p, end, kept) ==
    IF end > Len(p.b) THEN Goto(p, end)
    ELSE IF kept /\ At(p, end + 1) = 0 THEN Goto(p, end + 1)
    ELSE Tag(Goto(p, end + 1))

\* Text up to the next tag: a node of its own or the value of the element, or
\* nothing at the top of a document.
Pcdata(p, after) ==
    LET begin == IF "trim_pcdata" \in p.opts THEN after ELSE p.s
        end   == Scan(p.b, begin, LAMBDA i : p.b[i] = lt)
        WithText(q) == SetCursorText(q, "value", strconv_pcdata(p, begin, end), begin)
    IN  IF SkipsSpace(p, after) THEN parse_tree(Goto(p, after))
        ELSE IF p.h.obj[p.cursor].parent = Null /\ "fragment" \notin p.opts
        THEN AfterText(p, end, FALSE)
        ELSE IF Embeds(p) THEN AfterText(WithText(p), end, TRUE)
        ELSE Then(PushNode(Goto(p, begin), "pcdata"), LAMBDA q :
                  AfterText(PopNode(WithText(q)), end, TRUE))

parse_tree(p) ==
    IF p.status # "ok" \/ Cur(p) = 0 THEN p
    ELSE IF Cur(p) = lt THEN Tag(Step(p, 1))
    ELSE Pcdata(p, SkipSpace(p).s)

-----------------------------------------------------------------------------
has_element_node_siblings(h, nodes) ==
    \E i \in DOMAIN nodes : h.obj[nodes[i]].type = "element"

\* The answer of a parse that ended as p. The offset is that of the error.
ParseResult(p, root, begun) ==
    LET parsed == SubSeq(children(p.h, root), begun + 1, Len(children(p.h, root)))
        Result(status, offset) ==
            [heap |-> p.h, status |-> status, offset |-> offset]
    IN  IF p.status # "ok"
        THEN Result(p.status, IF p.at - 1 = Len(p.b) /\ p.b # <<>> /\ p.endch = 0
                              THEN p.at - 2 ELSE p.at - 1)
        ELSE IF p.endch = lt THEN Result("unrecognized_tag", Len(p.b))
        ELSE IF "fragment" \notin p.opts /\ ~has_element_node_siblings(p.h, parsed)
        THEN Result("no_document_element", Len(p.b))
        ELSE Result("ok", 0)

AllClosed(p, root) == IF p.status = "ok" /\ p.cursor # root
                      THEN Throw(p, "end_element_mismatch", p.s) ELSE p

\* Parses a buffer into children of root.
parse(h, buffer, root, opts) ==
    IF buffer = <<>>
    THEN [heap |-> h, status |-> IF "fragment" \in opts THEN "ok"
                                 ELSE "no_document_element", offset |-> 0]
    ELSE ParseResult(
            AllClosed(parse_tree(
                [h |-> h, b |-> Front(buffer), endch |-> Last(buffer), opts |-> opts,
                 cursor |-> root, status |-> "ok", at |-> 1,
                 s |-> IF StartsWith(Front(buffer), 1, utf8_bom) THEN 4 ELSE 1]),
                root),
            root, Len(children(h, root)))
=============================================================================

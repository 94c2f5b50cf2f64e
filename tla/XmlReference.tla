---------------------------- MODULE XmlReference ----------------------------
(***************************************************************************)
(* What is checked of a pugixml document: that its memory is accounted for, *)
(* that it is the ordered tree its user sees, that all ways through it      *)
(* agree, that it is parsed as a grammar on whole tokens says, that what is *)
(* saved is loaded again, and that its numbers are what they denote.        *)
(***************************************************************************)
EXTENDS XmlDocument

-----------------------------------------------------------------------------
(* Memory. *)

Pages == h.pages
Busy(i) == IF i = Len(Pages) THEN h.busy ELSE Pages[i].busy
SizeOf(o) == IF IsNode(h, o) THEN NodeSize ELSE AttrSize
Sum_(S, size(_)) == FoldSet(LAMBDA x, n : size(x) + n, 0, S)
Live(i) ==
    LET On(S, page(_)) == {x \in S : page(x) = Pages[i].id}
        strings == On(DOMAIN h.str, LAMBDA s : h.str[s].page)
    IN  Sum_(On(DOMAIN h.obj, LAMBDA o : h.obj[o].page), SizeOf)
          + Sum_(strings, LAMBDA s : IF h.str[s].full_size = 0 THEN Busy(i)
                                     ELSE h.str[s].full_size)
          + ExtraSize * Cardinality(On(DOMAIN h.extra, LAMBDA e : h.extra[e]))
Holders(s) == {x \in (DOMAIN h.obj) \X {"name", "value"} : h.obj[x[1]][x[2]] = s}

\* The memory that a page counts as used is that of what lies in it, a page that
\* holds nothing is deleted or, being the last, starts anew; an allocated text
\* has one owner, a text of the buffer that has several is marked in each.
MemoryAccounted ==
    /\ \A i \in 2 .. Len(Pages) :
          /\ Live(i) = Busy(i) - Pages[i].freed
          /\ Live(i) = 0 => i = Len(Pages) /\ Busy(i) = 0
    /\ \A s \in DOMAIN h.str :
          IF h.str[s].page = 0
          THEN /\ \A x \in Holders(s) : x[2] \notin h.obj[x[1]].header
               /\ Cardinality(Holders(s)) > 1 =>
                     \A x \in Holders(s) : "shared" \in h.obj[x[1]].header
          ELSE /\ Cardinality(Holders(s)) = 1
               /\ \A x \in Holders(s) : x[2] \in h.obj[x[1]].header

-----------------------------------------------------------------------------
(* The ordered tree. *)

kids  == [n \in Nodes |-> children(h, n)]
attrs == [n \in Nodes |-> attributes(h, n)]
item  == [o \in DOMAIN h.obj |-> [type  |-> h.obj[o].type,
                                  name  |-> Text(h, o, "name"),
                                  value |-> Text(h, o, "value")]]

Tree == INSTANCE OrderedTree WITH Blank <- <<>>, failed <- call.failed

\* Every call does to the tree what its answer says, and nothing else: where the
\* texts are, which of them are shared, and how the lists are linked, a user
\* cannot tell.
ImplementsOrderedTree == Tree!Spec

-----------------------------------------------------------------------------
(* Ways through the document. *)

RECURSIVE Preorder(_, _)
Preorder(n, depth) ==
    <<[node |-> n, depth |-> depth]>>
      \o Concat([i \in DOMAIN kids[n] |-> Preorder(kids[n][i], depth + 1)])

\* With its attributes, as XPath has them.
Objects == LET nodes == Preorder(document, 0)
               Own(n) == [i \in 1 .. Len(attrs[n]) + 1 |->
                            [node |-> n,
                             attr |-> IF i = 1 THEN Null ELSE attrs[n][i - 1]]]
           IN  Concat([i \in DOMAIN nodes |-> Own(nodes[i].node)])

Elem(list, i) == IF i \in DOMAIN list THEN list[i] ELSE Null

Before(list, x) == {y \in ToSet(list) : \E i, j \in DOMAIN list :
                                           i < j /\ list[i] = y /\ list[j] = x}

\* Links, iterators, look-ups by name, paths, traversal and document order are
\* all those of the list of children (and attributes).
TraversalsAgree ==
    LET Named(list, name) == SelectSeq(list, LAMBDA x : HasName(h, x, name))
        Siblings(list, next(_), prev(_)) ==
            \A i \in DOMAIN list : /\ next(list[i]) = Elem(list, i + 1)
                                   /\ prev(list[i]) = Elem(list, i - 1)
        Lists(n) ==
            /\ Siblings(kids[n], LAMBDA c : next_sibling(h, c),
                                 LAMBDA c : iterator_decrement(h, n, c))
            /\ Siblings(attrs[n], LAMBDA a : h.obj[a].next_attribute,
                                  LAMBDA a : attribute_iterator_decrement(h, n, a))
            /\ iterator_decrement(h, n, Null) = Elem(kids[n], Len(kids[n]))
            /\ attribute_iterator_decrement(h, n, Null)
                 = Elem(attrs[n], Len(attrs[n]))
            /\ \A c \in ToSet(kids[n]) : h.obj[c].parent = n
        ByName(n) ==
            \A c \in ToSet(kids[n]) : h.obj[c].name # Null =>
                LET name == Text(h, c, "name")
                    all  == Named(kids[n], name)
                IN  /\ Siblings(all, LAMBDA x : next_sibling_named(h, x, name),
                          LAMBDA x : named_iterator_decrement(h, n, name, x))
                    /\ child(h, n, name) = all[1]
                    /\ named_iterator_decrement(h, n, name, Null) = Last(all)
                    /\ \A a \in ToSet(attrs[c]) : h.obj[a].name # Null =>
                          LET key == Text(h, a, "name")
                              val == Text(h, a, "value")
                              any == find_child_by_attribute(h, n, key, val)
                              one == find_named_child_by_attribute(h, n, name, key, val)
                          IN  /\ any \in ToSet(kids[n]) /\ one \in ToSet(all)
                              /\ one = c \/ one \in Before(kids[n], c)
                              /\ any = one \/ any \in Before(kids[n], one)
        Hinted(n) ==
            \A a \in ToSet(attrs[n]) : h.obj[a].name # Null =>
                LET name  == Text(h, a, "name")
                IN  \A hint \in ToSet(attrs[n]) \cup {Null} :
                       LET r == attribute_with_hint(h, n, name, hint)
                       IN  /\ HasName(h, r.attr, name)
                           /\ hint = Null => r.attr = attribute(h, n, name)
        Valued(n) ==
            LET t == text_data(h, n)
            IN  (t # Null /\ t # n /\ h.obj[t].value # Null)
                  => child_value(h, n) = Text(h, t, "value")
        Reached(n) ==
            (\A m \in Tree!Below(kids, document) :
                n \in Tree!Below(kids, m) => h.obj[m].name # Null \/ m = document)
              => Text(h, first_element_by_path(h, document, path(h, n)), "name")
                   = Text(h, n, "name")
        objects == Objects
    IN  /\ {x.node : x \in ToSet(objects)} = Nodes
        /\ \A n \in Nodes : /\ Lists(n) /\ ByName(n) /\ Hinted(n)
                            /\ Valued(n) /\ Reached(n)
                            /\ traverse(h, n) = Tail(Preorder(n, 0 - 1))
        /\ \A i, j \in DOMAIN objects : i # j =>
              (document_order_comparator(h, objects[i], objects[j]) <=> i < j)

-----------------------------------------------------------------------------
(* What a buffer of tokens means. A token is a tag, a text or another node;  *)
(* its text is a sequence of atoms, each white space, a reference or a        *)
(* character.                                                               *)

crlf == <<return_, newline>>
lt_reference == Chars("&lt;")
IsWhite(atom) == atom \in {<<blank>>, crlf}
AllWhite(atoms) == \A i \in DOMAIN atoms : IsWhite(atoms[i])

Meaning(atom, opts) ==
    CASE atom = crlf /\ "eol" \in opts                 -> <<newline>>
      [] atom = lt_reference /\ "escapes" \in opts -> <<lt>>
      [] OTHER                                     -> atom
Plain(atoms, opts) == Concat([i \in DOMAIN atoms |-> Meaning(atoms[i], opts)])

\* Without the white space at the ends.
Trimmed(atoms) ==
    LET inner == {i \in DOMAIN atoms : ~IsWhite(atoms[i])}
    IN  IF inner = {} THEN <<>> ELSE SubSeq(atoms, Min(inner), Max(inner))

AttributeValue(atoms, opts) ==
    LET kept   == opts \cap {"escapes"}
        Blanks(as) == [i \in DOMAIN as |-> IF IsWhite(as[i]) THEN <<blank>> ELSE as[i]]
        single == Blanks(Trimmed(atoms))
        once   == {i \in DOMAIN single : i > 1 => ~(IsWhite(single[i])
                                                    /\ IsWhite(single[i - 1]))}
    IN  IF "wnorm_attribute" \in opts
        THEN Concat([i \in DOMAIN single |-> IF i \in once
                                             THEN Meaning(single[i], kept) ELSE <<>>])
        ELSE IF "wconv_attribute" \in opts THEN Plain(Blanks(atoms), kept)
        ELSE Plain(atoms, opts)

Leaf(type, name, value) ==
    [item |-> [type |-> type, name |-> name, value |-> value],
     attrs |-> <<>>, kids |-> <<>>]
TokenNode(t, opts) ==
    [item  |-> [type |-> t.type, name |-> t.name,
                value |-> Plain(t.value, IF t.type \in {"comment", "cdata"}
                                         THEN opts \cap {"eol"} ELSE {})],
     attrs |-> [i \in DOMAIN t.attrs |->
                   [type |-> "attribute", name |-> t.attrs[i].name,
                    value |-> AttributeValue(t.attrs[i].value, opts)]],
     kids  |-> <<>>]

OptionOf(type) == CASE type = "comment" -> "comments" [] OTHER -> type

AddKid(stack, node) == [stack EXCEPT ![Len(stack)].kids = Append(@, node)]
Rejected == [ok |-> FALSE]

\* stack has the open elements, below them the root. At the top of a document
\* there are no texts, declarations and document types are nowhere else.
RECURSIVE Grammar(_, _, _)
Grammar(tokens, opts, stack) ==
    LET t    == Head(tokens)
        top  == Last(stack)
        last == Scan(tokens, 1, LAMBDA i : tokens[i].kind # "text")
        texts == SubSeq(tokens, 1, last - 1)
        atoms == Concat([i \in DOMAIN texts |-> texts[i].value])
        trim == "trim_pcdata" \in opts
        text == Plain(IF trim THEN Trimmed(atoms) ELSE atoms, opts)
        onlyText == last \in DOMAIN tokens /\ tokens[last].kind = "close"
                    /\ top.kids = <<>>
        skipped == AllWhite(atoms) /\
            \/ trim
            \/ opts \cap {"ws_pcdata", "ws_pcdata_single"} = {}
            \/ "ws_pcdata_single" \in opts /\ ~onlyText
        atTop == Len(stack) = 1
        embeds == /\ "embed_pcdata" \in opts /\ ~atTop
                  /\ top.kids = <<>> /\ top.item.value = <<>>
        rest == Tail(tokens)
    IN  IF tokens = <<>>
        THEN IF atTop THEN [ok |-> TRUE, kids |-> top.kids] ELSE Rejected
        ELSE CASE t.kind = "text" ->
                  Grammar(SubSeq(tokens, last, Len(tokens)), opts,
                     IF skipped \/ (atTop /\ "fragment" \notin opts) THEN stack
                     ELSE IF embeds
                     THEN [stack EXCEPT ![Len(stack)].item.value = text]
                     ELSE AddKid(stack, Leaf("pcdata", <<>>, text)))
               [] t.kind = "open" ->
                  Grammar(rest, opts, Append(stack, TokenNode(t, opts)))
               [] t.kind = "close" ->
                  IF atTop \/ top.item.name # t.name THEN Rejected
                  ELSE Grammar(rest, opts, AddKid(Front(stack), top))
               [] t.kind = "empty" ->
                  Grammar(rest, opts, AddKid(stack, TokenNode(t, opts)))
               [] t.kind = "node" ->
                  IF /\ ~atTop
                     /\ \/ t.type = "doctype"
                        \/ t.type = "declaration" /\ "declaration" \in opts
                  THEN Rejected
                  ELSE Grammar(rest, opts,
                          IF OptionOf(t.type) \in opts
                          THEN AddKid(stack, TokenNode(t, opts)) ELSE stack)

Root == Leaf("document", <<>>, <<>>)
DocumentTree == Tree!Shape(kids, attrs, item, document)

\* The names that were found in the buffer are at their offset.
NamesAtOffset(data) ==
    \A n \in Nodes :
        (h.obj[n].type \in {"element", "pi", "declaration"} /\ offset_debug(h, n) > 0)
          => StartsWith(data, offset_debug(h, n) + 1, Text(h, n, "name"))

\* A buffer is accepted when it is made of whole tokens that nest, with an
\* element unless fragments are allowed, and the document is then theirs; the
\* position of an error is in the buffer.
ParsedByGrammar ==
    call.op = "load" =>
        LET l == call.load
            g == IF l.cut THEN Rejected ELSE Grammar(l.tokens, l.opts, <<Root>>)
            elements == {i \in DOMAIN g.kids : g.kids[i].item.type = "element"}
        IN  /\ call.offset \in 0 .. call.length
            /\ (call.outcome = "read" /\ ~call.failed) =>
                  (call.status = "ok"
                     <=> g.ok /\ ("fragment" \in l.opts \/ elements # {}))
            /\ call.status = "ok" => DocumentTree.kids = g.kids
            /\ (call.status = "ok" /\ "fragment" \notin l.opts)
                  => document_element(h) # Null
            /\ UnitSize(l.encoding) = 1 => NamesAtOffset(l.data)
            /\ call.status # "ok" => call.outcome # "read" \/ call.length > 0

-----------------------------------------------------------------------------
(* What comes back of a saved document. *)

\* The text t wherever it is replaced by u.
RECURSIVE Replaced(_, _, _)
Replaced(s, t, u) ==
    LET i == Scan(s, 1, LAMBDA j : StartsWith(s, j, t))
    IN  IF i > Len(s) THEN s
        ELSE SubSeq(s, 1, i - 1) \o u
               \o Replaced(SubSeq(s, i + Len(t), Len(s)), t, u)

\* Comments cannot have two dashes, nor end with one.
Dashed(s) == LET t == Replaced(Replaced(s, <<dash, dash>>, <<dash, blank, dash>>),
                               <<dash, dash>>, <<dash, blank, dash>>)
             IN  IF t # <<>> /\ Last(t) = dash THEN Append(t, blank) ELSE t

Transcoded(s, encoding) ==
    IF encoding # "latin1" THEN s
    ELSE LET points == utf8_decoder(s)
         IN  Concat([i \in DOMAIN points |->
                utf8_writer(IF points[i] > 255 THEN question ELSE points[i])])

IsText(node) == node.item.type = "pcdata"
\* Texts beside each other are one, an empty one is none; among indentation one
\* of white space is lost as well.
JoinTexts(nodes, indented) ==
    LET Joined(ns, n) ==
            IF IsText(n) /\ ns # <<>> /\ IsText(Last(ns))
            THEN [ns EXCEPT ![Len(ns)].item.value = @ \o n.item.value]
            ELSE Append(ns, n)
        Empty(s) == s = <<>> \/ (indented /\ ToSet(s) \subseteq ct_space)
    IN  SelectSeq(FoldLeft(Joined, <<>>, nodes),
                  LAMBDA n : ~(IsText(n) /\ Empty(n.item.value)))

\* A section that contains its end becomes several.
RECURSIVE Sections(_)
Sections(s) ==
    LET i == Scan(s, 1, LAMBDA j : StartsWith(s, j, cdata_close))
    IN  IF i + 2 > Len(s) THEN <<Leaf("cdata", <<>>, s)>>
        ELSE <<Leaf("cdata", <<>>, SubSeq(s, 1, i + 1))>>
               \o Sections(SubSeq(s, i + 2, Len(s)))

RECURSIVE Saved(_, _)
\* The nodes that a node is when loaded again.
Saved(n, m) ==
    LET Encoded(s)  == Transcoded(s, m.encoding)
        NameOf(s)   == IF s = <<>> THEN anonymous ELSE Encoded(s)
        indented    == "raw" \notin m.flags
        attributes_ == [i \in DOMAIN n.attrs |->
                           [n.attrs[i] EXCEPT !.name = NameOf(@), !.value = Encoded(@)]]
        embedded == IF n.item.value = <<>> THEN <<>>
                    ELSE <<Leaf("pcdata", <<>>, Encoded(n.item.value))>>
        below    == embedded \o Concat([i \in DOMAIN n.kids |-> Saved(n.kids[i], m)])
        value    == Encoded(n.item.value)
        type     == n.item.type
    IN  CASE type = "element" ->
               <<[item  |-> [type |-> type, name |-> NameOf(n.item.name), value |-> <<>>],
                  attrs |-> attributes_, kids |-> JoinTexts(below, indented)]>>
          [] type = "declaration" ->
               <<[item |-> [n.item EXCEPT !.name = NameOf(@)], attrs |-> attributes_,
                  kids |-> <<>>]>>
          [] type = "pcdata"  -> <<Leaf(type, <<>>, value)>>
          [] type = "comment" -> <<Leaf(type, <<>>, Dashed(value))>>
          [] type = "pi"      -> <<Leaf(type, NameOf(n.item.name),
                                        Replaced(value, pi_close, pi_escape))>>
          [] type = "cdata"   -> Sections(value)
          [] type = "doctype" -> <<Leaf(type, <<>>, value)>>

\* The declaration that save puts first.
GeneratedDeclaration(m) ==
    LET Attr(name, value) == [type |-> "attribute", name |-> name, value |-> value]
        version == Attr(Chars("version"), Chars("1.0"))
    IN  IF "no_declaration" \in m.flags \/ has_declaration(h) THEN <<>>
        ELSE <<[Leaf("declaration", xml, <<>>) EXCEPT !.attrs =
                  IF m.encoding = "latin1"
                  THEN <<version, Attr(Chars("encoding"), Chars("ISO-8859-1"))>>
                  ELSE <<version>>]>>

\* How the saved bytes are loaded: the encoding is found out when the document
\* tells it.
Reloaded(m, bytes) ==
    LET tells == \/ "no_declaration" \notin m.flags /\ ~has_declaration(h)
                 \/ "write_bom" \in m.flags /\ m.encoding # "latin1"
        opts  == {"pi", "comments", "cdata", "escapes", "eol", "wconv_attribute",
                  "declaration", "doctype", "fragment"}
                   \cup (IF "raw" \in m.flags THEN {"ws_pcdata"} ELSE {})
    IN  load_buffer_impl(EmptyDocument, document, bytes, opts,
                         IF tells THEN "auto" ELSE m.encoding, FALSE, TRUE)

HeapTree(g) ==
    LET nodes == {o \in DOMAIN g.obj : IsNode(g, o)}
    IN  Tree!Shape([n \in nodes |-> children(g, n)], [n \in nodes |-> attributes(g, n)],
                   [o \in DOMAIN g.obj |->
                       [type |-> g.obj[o].type, name |-> Text(g, o, "name"),
                        value |-> Text(g, o, "value")]], document)

\* A document without texts at its top, saved in any format and encoding and
\* loaded again, is the same up to what a format cannot express.
SavedComesBack ==
    call.op = "save" /\ (\A c \in ToSet(kids[document]) : h.obj[c].type # "pcdata") =>
        \E r \in {Reloaded(call.mode, call.output)} :
            /\ r.status = "ok"
            /\ HeapTree(r.heap).kids
                 = GeneratedDeclaration(call.mode)
                     \o Concat([i \in DOMAIN DocumentTree.kids |->
                                  Saved(DocumentTree.kids[i], call.mode)])

-----------------------------------------------------------------------------
(* Numbers. *)

hex_symbols == Chars("0123456789abcdef")

\* What a text denotes: after white space a sign and the longest sequence of
\* digits, each counting as much as its place says.
DigitsDenote(s, symbols) ==
    LET count    == Scan(s, 1, LAMBDA i : s[i] \notin ToSet(symbols)) - 1
        Place(i) == (SelectInSeq(symbols, LAMBDA c : c = s[i]) - 1)
                       * Len(symbols) ^ (count - i)
    IN  FoldSet(LAMBDA i, n : n + Place(i), 0, 1 .. count)
UnsignedDenotes(s) ==
    IF Len(s) > 1 /\ s[1] = digit0 /\ Lower(s[2]) = letter_x
    THEN DigitsDenote(LowerText(SubSeq(s, 3, Len(s))), hex_symbols)
    ELSE DigitsDenote(s, SubSeq(hex_symbols, 1, 10))
SignedDenotes(s) ==
    CASE s # <<>> /\ s[1] = dash -> 0 - UnsignedDenotes(Tail(s))
      [] s # <<>> /\ s[1] = plus -> UnsignedDenotes(Tail(s))
      [] OTHER                   -> UnsignedDenotes(s)
Denoted(s) ==
    LET white == Scan(s, 1, LAMBDA i : s[i] \notin ct_space) - 1
    IN  SignedDenotes(SubSeq(s, white + 1, Len(s)))

Clamped(n, low, high) == IF n < low THEN low ELSE IF n > high THEN high ELSE n

\* A text is read as the nearest integer to what it denotes that its type has,
\* and a number that was set is read again, whether it is the value of an
\* attribute or the text of a node.
NumbersKept ==
    LET def == 7
        SignedOf(o) ==
            IF CanConvert(h, o)
            THEN Clamped(Denoted(Text(h, o, "value")), INT_MIN, INT_MAX) ELSE def
        UnsignedOf(o) ==
            IF CanConvert(h, o)
            THEN Clamped(Denoted(Text(h, o, "value")), 0, modulus - 1) ELSE def
        Read(x) == LET isText == call.op = "text_set"
                       o      == call.node
                   IN  CASE x.kind = "int" ->
                              IF isText THEN text_as_int(h, o, def) ELSE as_int(h, o, def)
                         [] x.kind = "uint" ->
                              IF isText THEN text_as_uint(h, o, def) ELSE as_uint(h, o, def)
                         [] x.kind = "bool" ->
                              IF isText THEN text_as_bool(h, o, ~x.value)
                                        ELSE as_bool(h, o, ~x.value)
    IN  /\ \A a \in Attrs : /\ as_int(h, a, def) = SignedOf(a)
                            /\ as_uint(h, a, def) = UnsignedOf(a)
        /\ \A n \in Nodes : LET t == text_data(h, n)
                            IN  /\ text_as_int(h, n, def) = SignedOf(t)
                                /\ text_as_uint(h, n, def) = UnsignedOf(t)
        /\ ("number" \in DOMAIN call /\ call.ok) => Read(call.number) = call.number.value
=============================================================================

---------------------------- MODULE XmlDocument ----------------------------
(***************************************************************************)
(* A pugixml document as its user sees it: it is loaded from a buffer, a    *)
(* file or a stream, changed by calls on its nodes, and saved.              *)
(*                                                                         *)
(* call is the last call with its arguments and its answer; edits counts    *)
(* the calls that changed the document since it was loaded (a bound).       *)
(* Copies between documents and moved-from documents are left out.          *)
(***************************************************************************)
EXTENDS XmlParser, XmlWriter, XmlNumbers

CONSTANTS ExtraSize,   \* sizeof(xml_extra_buffer) + sizeof(void*)
          Loads,       \* the loads: [how, data, opts, encoding]
          Edited,      \* those of them after which the document is changed
          MaxEdits,    \* bound
          NewTypes, NewNames, NewTexts, Numbers, Fragments,  \* arguments of the changes
          SaveModes    \* arguments of save: [indent, flags, encoding]

ASSUME ArgumentsAreLegal ==
    /\ \A l \in Loads : l.opts \subseteq parse_options /\ l.encoding \in xml_encoding
    /\ \A f \in Fragments : f.opts \subseteq parse_options
    /\ \A m \in SaveModes : /\ m.flags \subseteq format_flags
                            /\ m.encoding \in xml_encoding

VARIABLES h, call, edits

vars == <<h, call, edits>>

-----------------------------------------------------------------------------
(* Loading. *)

\* xml_document::_create: the sentinel page, full, holds the document node.
EmptyDocument ==
    [pages  |-> <<[id |-> 1, busy |-> PageSize, freed |-> 0]>>,
     busy   |-> PageSize,
     obj    |-> document :> [xml_node_struct(1, "document")
                                EXCEPT !.prev_sibling_c = document],
     str    |-> <<>>,
     oom    |-> FALSE,
     buffer |-> FALSE,   \* has a buffer been parsed into the document
     extra  |-> <<>>]    \* the pages of the elements of extra_buffers

Failure(g, status) == [heap |-> g, status |-> status, offset |-> 0, length |-> 0]

\* enough says that there is memory for a converted or copied buffer.
load_buffer_impl(g, root, data, opts, encoding, is_mutable, enough) ==
    LET buffer == convert_buffer(data, get_buffer_encoding(encoding, data), is_mutable)
        kept   == is_mutable /\ buffer = data
    IN  IF ~kept /\ ~enough THEN Failure(g, "out_of_memory")
        ELSE [length |-> Len(buffer)]
               @@ parse([g EXCEPT !.buffer = TRUE], buffer, root, opts)

\* A file is read as a whole; a zero is put behind it if no conversion does so.
zero_terminate_buffer(data, encoding) ==
    IF encoding = "utf8" THEN Append(data, 0) ELSE data

\* What a load gives; outcome is what happens to the file or stream. What is read
\* from one is parsed in place, in the encoding it has without the zero.
load(l, outcome) ==
    LET g      == EmptyDocument
        isRead == l.how \in {"file", "stream"}
        encoding == CASE l.how = "string" -> "utf8"
                      [] isRead -> get_buffer_encoding(l.encoding, l.data)
                      [] OTHER -> l.encoding
    IN  CASE outcome = "missing" ->
               Failure(g, IF l.how = "file" THEN "file_not_found" ELSE "io_error")
          [] outcome = "short_read" -> Failure(g, "io_error")
          [] isRead /\ outcome = "no_memory" -> Failure(g, "out_of_memory")
          [] OTHER ->
               load_buffer_impl(
                   g, document,
                   IF isRead THEN zero_terminate_buffer(l.data, encoding) ELSE l.data,
                   l.opts, encoding, isRead \/ l.how = "inplace",
                   outcome # "no_memory")

Outcomes(how) == CASE how \in {"file", "stream"} ->
                        {"read", "missing", "short_read", "no_memory"}
                   [] how = "inplace" -> {"read"}
                   [] OTHER -> {"read", "no_memory"}

\* What is parsed into a node goes behind its children. The name of the node is
\* taken away meanwhile, so that no end tag matches it.
append_buffer(g, n, data, opts) ==
    LET mem    == allocate_memory(MarkDocument(g), ExtraSize)
        before == [mem.heap EXCEPT !.extra = <<mem.page>> \o @,
                                   !.obj[n].name = Null]
    IN  IF ~allow_insert_child(TypeOf(g, n), "element")
        THEN Failure(g, "append_invalid_root")
        ELSE IF mem.page = Null THEN Failure(mem.heap, "out_of_memory")
        ELSE [load_buffer_impl(before, n, data, opts, "auto", FALSE, TRUE)
                EXCEPT !.heap.obj[n].name = g.obj[n].name]

-----------------------------------------------------------------------------
(* The calls. *)

Nodes == {o \in DOMAIN h.obj : IsNode(h, o)}
Attrs == DOMAIN h.obj \ Nodes

\* Beside the siblings, a place that does not exist.
Places(siblings) ==
    [how : {"append", "prepend"}]
      \cup [how : {"before", "after"}, at : ToSet(siblings) \cup {Null}]

Called(heap, new_call) ==
    /\ h' = Forget([heap EXCEPT !.oom = FALSE])
    /\ call' = new_call @@ [failed |-> heap.oom]

Load == /\ call.op = "none"
        /\ \E l \in Loads : \E outcome \in Outcomes(l.how) :
           \E r \in {load(l, outcome)} :
             Called(r.heap, [op |-> "load", load |-> l, status |-> r.status,
                             ok |-> r.status = "ok", outcome |-> outcome,
                             offset |-> r.offset, length |-> r.length])
        /\ edits' = 0

\* A document that was loaded with success is changed, up to MaxEdits times; a
\* call that was refused has changed nothing.
Edit == /\ call.op # "none"
        /\ call.op = "load" => call.load \in Edited
        /\ call.ok /\ call.op # "save"
        /\ edits < MaxEdits
        /\ edits' = edits + 1

Answer(r, c) == Called(r.heap, c @@ [ok |-> r.obj # Null, new |-> r.obj])
Done(r, c)   == Called(r.heap, c @@ [ok |-> r.ok])

InsertChild ==
    Edit /\
    \E n \in Nodes : \E type \in NewTypes : \E place \in Places(children(h, n)) :
        Answer(insert_child(h, n, type, place),
               [op |-> "insert_child", node |-> n, type |-> type,
                name |-> IF type = "declaration" THEN xml ELSE <<>>,
                place |-> place])

InsertNamedChild ==
    Edit /\
    \E n \in Nodes : \E name \in NewNames : \E place \in Places(children(h, n)) :
        Answer(insert_named_child(h, n, name, place),
               [op |-> "insert_child", node |-> n, type |-> "element",
                name |-> name, place |-> place])

InsertCopy ==
    Edit /\
    \E n, proto \in Nodes : \E place \in Places(children(h, n)) :
        Answer(insert_copy(h, n, proto, place),
               [op |-> "insert_copy", node |-> n, proto |-> proto,
                place |-> place])

InsertMove ==
    Edit /\
    \E n, moved \in Nodes : \E place \in Places(children(h, n)) :
        Answer(insert_move(h, n, moved, place),
               [op |-> "insert_move", node |-> n, moved |-> moved,
                place |-> place])

InsertAttribute ==
    Edit /\
    \E n \in Nodes : \E name \in NewNames : \E place \in Places(attributes(h, n)) :
        Answer(insert_attribute(h, n, name, place),
               [op |-> "insert_attribute", node |-> n, name |-> name,
                value |-> <<>>, place |-> place])

InsertAttributeCopy ==
    Edit /\
    \E n \in Nodes : \E proto \in Attrs : \E place \in Places(attributes(h, n)) :
        Answer(insert_attribute_copy(h, n, proto, place),
               [op |-> "insert_attribute", node |-> n,
                name |-> Text(h, proto, "name"),
                value |-> Text(h, proto, "value"), place |-> place])

RemoveAttribute ==
    Edit /\
    \E n \in Nodes : \E a \in Attrs :
        Done(remove_attribute_(h, n, a),
             [op |-> "remove_attribute", node |-> n, attr |-> a])

RemoveChild ==
    Edit /\
    \E n, c \in Nodes :
        Done(remove_child(h, n, c),
             [op |-> "remove_child", node |-> n, child |-> c])

SetText ==
    Edit /\
    \E o \in DOMAIN h.obj : \E field \in {"name", "value"} :
    \E text \in (IF field = "name" THEN NewNames ELSE NewTexts) \cup {<<>>} :
        Done(IF field = "name" THEN set_name(h, o, text) ELSE set_value(h, o, text),
             [op |-> "set", node |-> o, field |-> field, text |-> text])

TextSet ==
    Edit /\
    \E n \in Nodes : \E text \in NewTexts :
        Done(text_set(h, n, text), [op |-> "text_set", node |-> n, text |-> text])

SetNumber ==
    Edit /\
    \E a \in Attrs \cup {Null} : \E x \in Numbers :
        Done(attribute_set_number(h, a, x),
             [op |-> "set", node |-> a, field |-> "value", text |-> NumberText(x),
              number |-> x])

TextSetNumber ==
    Edit /\
    \E n \in Nodes : \E x \in Numbers :
        Done(text_set_number(h, n, x),
             [op |-> "text_set", node |-> n, text |-> NumberText(x), number |-> x])

AppendBuffer ==
    Edit /\
    \E n \in Nodes : \E f \in Fragments :
    \E r \in {append_buffer(h, n, f.data, f.opts)} :
        Called(r.heap, [op |-> "append_buffer", node |-> n, fragment |-> f,
                        status |-> r.status, ok |-> r.status = "ok"])

Save ==
    \E m \in SaveModes :
        /\ call.op \notin {"none", "save"}
        /\ call.op = "load" => call.load \in Edited
        /\ edits <= 1
        /\ Called(h, [op |-> "save", mode |-> m, ok |-> TRUE,
                      output |-> save(h, m.indent, m.flags, m.encoding)])
        /\ UNCHANGED edits

Next == \/ Load \/ InsertChild \/ InsertNamedChild \/ InsertCopy \/ InsertMove
        \/ InsertAttribute \/ InsertAttributeCopy \/ RemoveAttribute
        \/ RemoveChild \/ SetText \/ TextSet \/ SetNumber \/ TextSetNumber
        \/ AppendBuffer \/ Save

Init == /\ h = EmptyDocument
        /\ call = [op |-> "none", ok |-> TRUE, failed |-> FALSE]
        /\ edits = 0

Spec == Init /\ [][Next]_vars
=============================================================================

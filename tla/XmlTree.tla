------------------------------ MODULE XmlTree ------------------------------
(***************************************************************************)
(* The tree operations of pugixml on the heap of XmlHeap: the calls of      *)
(* xml_node, xml_attribute and xml_text that change a document, and those   *)
(* that walk through it. A call returns the heap and its result: a handle,  *)
(* Null for the empty handle, or a Boolean.                                 *)
(*                                                                         *)
(* The four calls that insert a child (append_..., prepend_...,             *)
(* insert_..._after, insert_..._before), and likewise those that insert a   *)
(* copy, a moved node, an attribute or a copied attribute, differ in the    *)
(* place: [how |-> "append"] and so on, with the sibling it is relative to. *)
(***************************************************************************)
EXTENDS XmlHeap

TypeOf(h, n) == IF n = Null THEN "null" ELSE h.obj[n].type

First(h, n)  == h.obj[n].first_child
Next_(h, n)  == h.obj[n].next_sibling
IsNode(h, o) == h.obj[o].type # "attribute"

is_text_node(h, n) == h.obj[n].type \in {"pcdata", "cdata"}

\* The elements of a list from x on (a list that is not one ends after as many
\* as there are objects).
RECURSIVE Walk(_, _, _, _)
Walk(h, x, next, bound) ==
    IF x = Null \/ bound = 0 THEN <<>>
    ELSE <<x>> \o Walk(h, h.obj[x][next], next, bound - 1)
ListOf(h, n, L) == Walk(h, h.obj[n][L.first], L.next, Cardinality(DOMAIN h.obj))

children(h, n)   == ListOf(h, n, Children)
attributes(h, n) == ListOf(h, n, Attributes)

\* The first element of a list for which P holds, or Null.
FirstWith(list, P(_)) ==
    LET i == SelectInSeq(list, P) IN IF i = 0 THEN Null ELSE list[i]

-----------------------------------------------------------------------------
(* Guards. *)

is_attribute_of(h, a, n) == a \in ToSet(attributes(h, n))

allow_insert_attribute(parent) == parent \in {"element", "declaration"}

allow_insert_child(parent, child) ==
    /\ parent \in {"document", "element"}
    /\ child \notin {"document", "null"}
    /\ parent # "document" => child \notin {"declaration", "doctype"}

RECURSIVE Ancestors(_, _)
Ancestors(h, n) == IF n = Null THEN {} ELSE {n} \cup Ancestors(h, h.obj[n].parent)

\* (The check that both are nodes of one document holds: there is one.)
allow_move(h, parent, child) ==
    /\ allow_insert_child(TypeOf(h, parent), TypeOf(h, child))
    /\ child \notin Ancestors(h, parent)

ChildPlaceExists(h, n, place) ==
    place.how \in {"before", "after"} =>
        place.at # Null /\ h.obj[place.at].parent = n
AttributePlaceExists(h, n, place) ==
    place.how \in {"before", "after"} =>
        place.at # Null /\ is_attribute_of(h, place.at, n)

-----------------------------------------------------------------------------
(* Texts. *)

set_name(h, n, text) ==
    IF TypeOf(h, n) \notin {"element", "pi", "declaration", "attribute"}
    THEN [heap |-> h, ok |-> FALSE]
    ELSE strcpy_insitu(h, n, "name", text)

set_value(h, n, text) ==
    IF TypeOf(h, n) \notin {"pcdata", "cdata", "comment", "pi", "doctype",
                            "attribute"}
    THEN [heap |-> h, ok |-> FALSE]
    ELSE strcpy_insitu(h, n, "value", text)

\* A copied text shares the memory of the document buffer, which both nodes
\* then leave alone; an allocated one is copied.
node_copy_string(h, d, s, field) ==
    LET source == h.obj[s][field]
    IN  IF source = Null THEN h
        ELSE IF field \notin h.obj[s].header
        THEN [h EXCEPT !.obj[d][field] = source,
                       !.obj[d].header = @ \cup {"shared"},
                       !.obj[s].header = @ \cup {"shared"}]
        ELSE strcpy_insitu(h, d, field, h.str[source].text).heap

node_copy_attribute(h, d, s) ==
    node_copy_string(node_copy_string(h, d, s, "name"), d, s, "value")

RECURSIVE CopyAttributes(_, _, _)
CopyAttributes(h, d, sa) ==
    IF sa = Null THEN h
    ELSE CopyAttributes(Linked(append_new_attribute(h, d), LAMBDA g, da :
                                  node_copy_attribute(g, da, sa)).heap,
                        d, h.obj[sa].next_attribute)

node_copy_contents(h, d, s) ==
    CopyAttributes(node_copy_attribute(h, d, s), d, h.obj[s].first_attribute)

-----------------------------------------------------------------------------
(* Copying a tree below dn. sit walks through the source, dit is where the   *)
(* copies of the children of its parent go.                                  *)

RECURSIVE CopyFrom(_, _, _, _, _), NextToCopy(_, _, _, _, _)
NextToCopy(h, dit, sit, dn, sn) ==
    IF Next_(h, sit) # Null THEN CopyFrom(h, dit, Next_(h, sit), dn, sn)
    ELSE IF h.obj[sit].parent = sn THEN h
    ELSE NextToCopy(h, h.obj[dit].parent, h.obj[sit].parent, dn, sn)

CopyBelow(h, copy, dit, sit, dn, sn) ==
    IF First(h, sit) # Null THEN CopyFrom(h, copy, First(h, sit), dn, sn)
    ELSE NextToCopy(h, dit, sit, dn, sn)

CopyInto(new, dit, sit, dn, sn) ==
    IF new.obj = Null THEN NextToCopy(new.heap, dit, sit, dn, sn)
    ELSE CopyBelow(node_copy_contents(new.heap, new.obj, sit), new.obj,
                   dit, sit, dn, sn)

\* A copy into one of its own descendants leaves out the new node.
CopyFrom(h, dit, sit, dn, sn) ==
    IF sit = dn THEN NextToCopy(h, dit, sit, dn, sn)
    ELSE CopyInto(append_new_node(h, dit, h.obj[sit].type), dit, sit, dn, sn)

CopyChildren(h, dn, sn) ==
    IF First(h, sn) = Null THEN h ELSE CopyFrom(h, dn, First(h, sn), dn, sn)
node_copy_tree(h, dn, sn) == CopyChildren(node_copy_contents(h, dn, sn), dn, sn)

-----------------------------------------------------------------------------
(* Inserting and removing. *)

Refuse(h) == [heap |-> h, obj |-> Null]

LinkChild(h, c, n, place) ==
    CASE place.how = "append"  -> append_node(h, c, n)
      [] place.how = "prepend" -> prepend_node(h, c, n)
      [] place.how = "after"   -> insert_node_after(h, c, place.at)
      [] place.how = "before"  -> insert_node_before(h, c, place.at)

LinkAttribute(h, a, n, place) ==
    CASE place.how = "append"  -> append_attribute(h, a, n)
      [] place.how = "prepend" -> prepend_attribute(h, a, n)
      [] place.how = "after"   -> insert_attribute_after(h, a, place.at, n)
      [] place.how = "before"  -> insert_attribute_before(h, a, place.at, n)

insert_child(h, n, type, place) ==
    IF \/ ~allow_insert_child(TypeOf(h, n), type)
       \/ ~ChildPlaceExists(h, n, place) THEN Refuse(h)
    ELSE Linked(allocate_node(h, type), LAMBDA g, c :
            IF type = "declaration"
            THEN set_name(LinkChild(g, c, n, place), c, xml).heap
            ELSE LinkChild(g, c, n, place))

insert_named_child(h, n, name, place) ==
    Linked(insert_child(h, n, "element", place),
           LAMBDA g, c : set_name(g, c, name).heap)

insert_copy(h, n, proto, place) ==
    IF \/ ~allow_insert_child(TypeOf(h, n), TypeOf(h, proto))
       \/ ~ChildPlaceExists(h, n, place) THEN Refuse(h)
    ELSE Linked(allocate_node(h, TypeOf(h, proto)), LAMBDA g, c :
            node_copy_tree(LinkChild(g, c, n, place), c, proto))

\* The document is marked shared: the order of its nodes is no longer that of
\* its buffer.
MarkDocument(h) == [h EXCEPT !.obj[document].header = @ \cup {"shared"}]

insert_move(h, n, moved, place) ==
    IF \/ ~allow_move(h, n, moved)
       \/ ~ChildPlaceExists(h, n, place)
       \/ place.how \in {"before", "after"} /\ place.at = moved THEN Refuse(h)
    ELSE [heap |-> LinkChild(remove_node(MarkDocument(h), moved), moved, n, place),
          obj  |-> moved]

insert_attribute(h, n, name, place) ==
    IF \/ ~allow_insert_attribute(TypeOf(h, n))
       \/ ~AttributePlaceExists(h, n, place) THEN Refuse(h)
    ELSE Linked(allocate_attribute(h), LAMBDA g, a :
            set_name(LinkAttribute(g, a, n, place), a, name).heap)

insert_attribute_copy(h, n, proto, place) ==
    IF \/ ~allow_insert_attribute(TypeOf(h, n))
       \/ ~AttributePlaceExists(h, n, place) THEN Refuse(h)
    ELSE Linked(allocate_attribute(h), LAMBDA g, a :
            node_copy_attribute(LinkAttribute(g, a, n, place), a, proto))

remove_attribute_(h, n, a) ==
    IF ~is_attribute_of(h, a, n) THEN [heap |-> h, ok |-> FALSE]
    ELSE [heap |-> destroy_attribute(remove_attribute(h, a, n), a), ok |-> TRUE]

remove_child(h, n, c) ==
    IF h.obj[c].parent # n THEN [heap |-> h, ok |-> FALSE]
    ELSE [heap |-> destroy_node(remove_node(h, c), c), ok |-> TRUE]

-----------------------------------------------------------------------------
(* xml_text: the text of an element is its first text child.                *)

text_data(h, n) ==
    IF n = Null \/ is_text_node(h, n) THEN n
    ELSE IF h.obj[n].type = "element" /\ h.obj[n].value # Null THEN n
    ELSE FirstWith(children(h, n), LAMBDA c : is_text_node(h, c))

text_data_new(h, n) ==
    IF text_data(h, n) # Null THEN [heap |-> h, obj |-> text_data(h, n)]
    ELSE insert_child(h, n, "pcdata", [how |-> "append"])

SetData(new, text) ==
    IF new.obj = Null THEN [heap |-> new.heap, ok |-> FALSE]
    ELSE strcpy_insitu(new.heap, new.obj, "value", text)
text_set(h, n, text) ==
    SetData(text_data_new(h, n), text)
=============================================================================

------------------------------ MODULE XmlWalk ------------------------------
(***************************************************************************)
(* The ways through a pugixml document: siblings and named siblings,        *)
(* iterators, look-ups of children and attributes, paths, traversal. They   *)
(* read the links of the heap, each in its own way.                         *)
(***************************************************************************)
EXTENDS XmlTree

Prev(h, n) == h.obj[n].prev_sibling_c
Size(h)    == Cardinality(DOMAIN h.obj)

HasName(h, o, name) == h.obj[o].name # Null /\ Text(h, o, "name") = name
HasValue(h, a, name, value) == HasName(h, a, name) /\ Text(h, a, "value") = value

child(h, n, name) == FirstWith(children(h, n), LAMBDA c : HasName(h, c, name))

attribute(h, n, name) ==
    FirstWith(attributes(h, n), LAMBDA a : HasName(h, a, name))

\* attribute with a hint where to start: from the hint to the end, then from
\* the first one up to the hint. Returns the next hint as well.
attribute_with_hint(h, n, name, hint) ==
    LET all   == attributes(h, n)
        at    == IF hint = Null THEN Len(all) + 1
                 ELSE SelectInSeq(all, LAMBDA a : a = hint)
        found == FirstWith(SubSeq(all, at, Len(all)) \o SubSeq(all, 1, at - 1),
                           LAMBDA a : HasName(h, a, name))
    IN  [attr |-> found, hint |-> IF found = Null THEN hint
                                  ELSE h.obj[found].next_attribute]

next_sibling(h, n) == h.obj[n].next_sibling
next_sibling_named(h, n, name) ==
    FirstWith(Walk(h, h.obj[n].next_sibling, "next_sibling", Size(h)),
              LAMBDA c : HasName(h, c, name))

\* The first sibling has the last one as its prev_sibling_c.
previous_sibling(h, n) ==
    IF next_sibling(h, Prev(h, n)) = Null THEN Null ELSE Prev(h, n)

RECURSIVE PreviousWith(_, _, _, _)
PreviousWith(h, i, name, bound) ==
    IF next_sibling(h, i) = Null \/ bound = 0 THEN Null
    ELSE IF HasName(h, i, name) THEN i
    ELSE PreviousWith(h, Prev(h, i), name, bound - 1)
previous_sibling_named(h, n, name) == PreviousWith(h, Prev(h, n), name, Size(h))

first_attribute(h, n) == h.obj[n].first_attribute
last_attribute(h, n) ==
    IF first_attribute(h, n) = Null THEN Null
    ELSE h.obj[first_attribute(h, n)].prev_attribute_c
last_child(h, n) == IF First(h, n) = Null THEN Null ELSE Prev(h, First(h, n))

previous_attribute(h, a) ==
    LET p == h.obj[a].prev_attribute_c
    IN  IF h.obj[p].next_attribute = Null THEN Null ELSE p

child_value(h, n) ==
    IF h.obj[n].type = "element" /\ h.obj[n].value # Null THEN Text(h, n, "value")
    ELSE LET c == FirstWith(children(h, n), LAMBDA i : is_text_node(h, i)
                                                   /\ h.obj[i].value # Null)
         IN  IF c = Null THEN <<>> ELSE Text(h, c, "value")

find_child_by_attribute(h, n, attr_name, attr_value) ==
    FirstWith(children(h, n), LAMBDA c :
        \E a \in ToSet(attributes(h, c)) : HasValue(h, a, attr_name, attr_value))
find_named_child_by_attribute(h, n, name, attr_name, attr_value) ==
    FirstWith(children(h, n), LAMBDA c :
        /\ HasName(h, c, name)
        /\ \E a \in ToSet(attributes(h, c)) : HasValue(h, a, attr_name, attr_value))

document_element(h) ==
    FirstWith(children(h, document), LAMBDA c : h.obj[c].type = "element")

-----------------------------------------------------------------------------
(* Iterators: a position is a child (or attribute), or Null for the end.     *)

iterator_decrement(h, parent, n) ==
    IF n = Null THEN last_child(h, parent) ELSE previous_sibling(h, n)

attribute_iterator_decrement(h, parent, a) ==
    IF a = Null THEN last_attribute(h, parent) ELSE previous_attribute(h, a)

named_iterator_decrement(h, parent, name, n) ==
    LET last == last_child(h, parent)
    IN  IF n # Null THEN previous_sibling_named(h, n, name)
        ELSE IF last = Null THEN Null
        ELSE IF Text(h, last, "name") = name THEN last
        ELSE previous_sibling_named(h, last, name)

-----------------------------------------------------------------------------
(* Paths: names joined by '/', from the node up to the document. *)

RECURSIVE path(_, _)
path(h, n) ==
    LET up == h.obj[n].parent
    IN  (IF up = Null THEN <<>> ELSE path(h, up) \o <<slash>>)
          \o Text(h, n, "name")

\* Slashes that follow each other count as one; what a segment matches depends
\* on the rest of the path, which is tried below each child of that name.
RECURSIVE first_element_by_path(_, _, _), FirstBelow(_, _, _, _)
FirstBelow(h, candidates, segment, rest) ==
    IF candidates = <<>> THEN Null
    ELSE LET c     == Head(candidates)
             found == IF HasName(h, c, segment)
                      THEN first_element_by_path(h, c, rest) ELSE Null
         IN  IF found # Null THEN found
             ELSE FirstBelow(h, Tail(candidates), segment, rest)
first_element_by_path(h, n, p) ==
    LET found   == IF p # <<>> /\ Head(p) = slash THEN document ELSE n
        Ends(s) == SelectInSeq(s, LAMBDA c : c = slash)
        Starts(s) == SelectInSeq(s, LAMBDA c : c # slash)
        rest    == IF Starts(p) = 0 THEN <<>> ELSE SubSeq(p, Starts(p), Len(p))
        segment == IF Ends(rest) = 0 THEN rest ELSE SubSeq(rest, 1, Ends(rest) - 1)
        after   == SubSeq(rest, Len(segment) + 1, Len(rest))
        next    == IF Starts(after) = 0 THEN <<>>
                   ELSE SubSeq(after, Starts(after), Len(after))
    IN  IF n = Null \/ p = <<>> THEN n
        ELSE IF segment = <<>> THEN found
        ELSE IF segment = <<dot>> THEN first_element_by_path(h, found, next)
        ELSE IF segment = <<dot, dot>>
        THEN first_element_by_path(h, h.obj[found].parent, next)
        ELSE FirstBelow(h, children(h, found), segment, next)

-----------------------------------------------------------------------------
(* traverse: every node below the root, with its depth, as a walker sees it.  *)

RECURSIVE Climb(_, _, _, _), Visit(_, _, _, _, _)
\* Up to the next node that has a sibling; Null when the root is reached.
Climb(h, cur, root, depth) ==
    IF next_sibling(h, cur) = Null /\ cur # root /\ h.obj[cur].parent # Null
    THEN Climb(h, h.obj[cur].parent, root, depth - 1)
    ELSE [cur |-> IF cur = root THEN root ELSE next_sibling(h, cur),
          depth |-> depth]
Visit(h, cur, root, depth, bound) ==
    IF cur \in {Null, root} \/ bound = 0 THEN <<>>
    ELSE <<[node |-> cur, depth |-> depth]>> \o
         IF First(h, cur) # Null
         THEN Visit(h, First(h, cur), root, depth + 1, bound - 1)
         ELSE LET up == Climb(h, cur, root, depth)
              IN  Visit(h, up.cur, root, up.depth, bound - 1)
traverse(h, n) == Visit(h, First(h, n), n, 0, Size(h))

\* Where a node's text was parsed, if it still has the text of the buffer and
\* the document has one buffer only (-1 otherwise).
offset_debug(h, n) ==
    LET field == IF h.obj[n].type \in {"element", "declaration", "pi"}
                 THEN "name" ELSE "value"
    IN  IF ~h.buffer \/ h.extra # <<>> THEN 0 - 1
        ELSE IF h.obj[n].type = "document" THEN 0
        ELSE IF /\ h.obj[n][field] # Null
                /\ h.obj[n].header \cap {field, "shared"} = {}
        THEN h.str[h.obj[n][field]].at
        ELSE 0 - 1
-----------------------------------------------------------------------------
(* Document order, as XPath's node sets are sorted by. *)

\* Where the text of a node or attribute is in the document's buffer, which is in
\* document order as long as the document is not marked (0 otherwise).
document_buffer_order(h, o) ==
    LET At(field) == IF h.obj[o][field] # Null
                        /\ h.obj[o].header \cap {field, "shared"} = {}
                     THEN h.str[h.obj[o][field]].at + 1 ELSE 0
        name_kept == h.obj[o].header \cap {"name", "shared"} = {}
    IN  IF "shared" \in h.obj[document].header THEN 0
        ELSE IF At("name") # 0 THEN At("name")
        ELSE IF h.obj[o].type = "attribute" /\ name_kept THEN 0
        ELSE At("value")

node_is_before_sibling(h, l, r) ==
    LET after(n) == ToSet(Walk(h, n, "next_sibling", Size(h)))
    IN  r \in after(l)

\* The ancestors (or selves) of two nodes that are siblings, or Null for one of
\* them when they are not as deep as each other.
RECURSIVE Lift(_, _, _), Raise(_, _, _)
Up(h, n) == h.obj[n].parent
Lift(h, l, r) == IF l # Null /\ r # Null /\ Up(h, l) # Up(h, r)
                 THEN Lift(h, Up(h, l), Up(h, r)) ELSE <<l, r>>
\* n as many levels up as p is deep.
Raise(h, n, p) == IF p = Null THEN n ELSE Raise(h, Up(h, n), Up(h, p))
node_is_before(h, ln, rn) ==
    LET same == Lift(h, ln, rn)
        l    == Raise(h, ln, same[1])
        r    == Raise(h, rn, same[2])
        both == Lift(h, l, r)
    IN  IF same[1] # Null /\ same[2] # Null
        THEN node_is_before_sibling(h, same[1], same[2])
        ELSE IF l = r THEN same[1] = Null
        ELSE node_is_before_sibling(h, both[1], both[2])

\* Whether lhs comes before rhs. An object is [node, attr], attr being Null for a
\* node.
document_order_comparator(h, lhs, rhs) ==
    LET Self(x) == IF x.attr # Null THEN x.attr ELSE x.node
        lo == document_buffer_order(h, Self(lhs))
        ro == document_buffer_order(h, Self(rhs))
    IN  IF lo # 0 /\ ro # 0 THEN lo < ro
        ELSE IF lhs.node # rhs.node THEN node_is_before(h, lhs.node, rhs.node)
        ELSE IF lhs.attr # Null /\ rhs.attr # Null
        THEN rhs.attr \in ToSet(Walk(h, lhs.attr, "next_attribute", Size(h)))
        ELSE lhs.attr = Null /\ rhs.attr # Null
=============================================================================

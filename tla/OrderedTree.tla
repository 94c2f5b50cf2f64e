---------------------------- MODULE OrderedTree ----------------------------
(***************************************************************************)
(* What a document promises its user: an ordered tree of nodes, each with a *)
(* type, a name, a value and an ordered list of attributes, that a call     *)
(* changes where it says and nowhere else. How the nodes are linked, where  *)
(* texts are stored and which of them share memory does not show.           *)
(*                                                                         *)
(* call is the last call with its answer, failed says that memory ran out   *)
(* during it. Every action is about the call that the step makes.           *)
(***************************************************************************)
EXTENDS Naturals, Sequences, FiniteSets, SequencesExt, Functions

VARIABLES kids,    \* node |-> its children
          attrs,   \* node |-> its attributes
          item,    \* node or attribute |-> its type, name and value
          call, failed

vars == <<kids, attrs, item, call, failed>>

CONSTANT Blank     \* the text of a name or value that was never set

Null == 0

\* The list with x at its place.
Placed(list, x, place) ==
    CASE place.how = "append"  -> Append(list, x)
      [] place.how = "prepend" -> <<x>> \o list
      [] place.how = "before"  -> InsertAt(list, SelectInSeq(list,
                                        LAMBDA y : y = place.at), x)
      [] place.how = "after"   -> InsertAt(list, SelectInSeq(list,
                                        LAMBDA y : y = place.at) + 1, x)

IsPlaceIn(list, place) ==
    place.how \in {"append", "prepend"} \/ place.at \in ToSet(list)

\* Documents have declarations and document types, documents and elements have
\* the other children, elements and declarations have attributes.
MayHaveChild(p, type) ==
    /\ item[p].type \in {"document", "element"}
    /\ type \notin {"document", "attribute"}
    /\ type \in {"declaration", "doctype"} => item[p].type = "document"
MayHaveAttribute(p) == item[p].type \in {"element", "declaration"}

Unchanged(old, new) == \A o \in DOMAIN old : o \in DOMAIN new /\ new[o] = old[o]

RECURSIVE Below(_, _), Shape(_, _, _, _), Pruned(_, _)
Below(k, n) == {n} \cup UNION {Below(k, c) : c \in ToSet(k[n])}

\* A subtree without its handles.
Shape(k, a, i, n) ==
    [item  |-> i[n],
     attrs |-> [j \in DOMAIN a[n] |-> i[a[n][j]]],
     kids  |-> [j \in DOMAIN k[n] |-> Shape(k, a, i, k[n][j])]]

\* What may be left of a copy when memory runs out: texts and whole attributes
\* or children are missing, the rest is in order.
IsPartOf(i, j) == /\ i.type = j.type
                  /\ i.name \in {Blank, j.name}
                  /\ i.value \in {Blank, j.value}
Pruned(s, t) ==
    LET Embeds(f, u, v) == \A x \in DOMAIN f :
                              /\ f[x] \in DOMAIN v
                              /\ \A y \in DOMAIN f : x < y => f[x] < f[y]
    IN  /\ IsPartOf(s.item, t.item)
        /\ \E f \in [DOMAIN s.attrs -> DOMAIN t.attrs] :
              /\ Embeds(f, s.attrs, t.attrs)
              /\ \A x \in DOMAIN f : IsPartOf(s.attrs[x], t.attrs[f[x]])
        /\ \E f \in [DOMAIN s.kids -> DOMAIN t.kids] :
              /\ Embeds(f, s.kids, t.kids)
              /\ \A x \in DOMAIN f : Pruned(s.kids[x], t.kids[f[x]])

-----------------------------------------------------------------------------
\* A call that answers "no" or "null" changes nothing.
Refused == /\ call'.op # "load"
           /\ ~call'.ok
           /\ UNCHANGED <<kids, attrs, item>>

\* A new child with a type and, unless memory is short, a name.
InsertChild ==
    LET c == call'
        new == c.new
    IN  /\ c.op = "insert_child" /\ c.ok
        /\ new \notin DOMAIN item
        /\ MayHaveChild(c.node, c.type) /\ IsPlaceIn(kids[c.node], c.place)
        /\ kids' = [kids EXCEPT ![c.node] = Placed(@, new, c.place)]
                       @@ (new :> <<>>)
        /\ attrs' = attrs @@ (new :> <<>>)
        /\ \E name \in {c.name} \cup (IF failed' THEN {Blank} ELSE {}) :
              item' = item @@ (new :> [type |-> c.type, name |-> name,
                                       value |-> Blank])

InsertAttribute ==
    LET c == call'
        new == c.new
    IN  /\ c.op = "insert_attribute" /\ c.ok
        /\ new \notin DOMAIN item
        /\ MayHaveAttribute(c.node) /\ IsPlaceIn(attrs[c.node], c.place)
        /\ attrs' = [attrs EXCEPT ![c.node] = Placed(@, new, c.place)]
        /\ UNCHANGED kids
        /\ \E name \in {c.name} \cup (IF failed' THEN {Blank} ELSE {}),
              value \in {c.value} \cup (IF failed' THEN {Blank} ELSE {}) :
              item' = item @@ (new :> [type |-> "attribute", name |-> name,
                                       value |-> value])

\* A copy of a node with everything below it as it was before the call, even
\* if the copy goes below the node itself.
InsertCopy ==
    LET c   == call'
        new == c.new
    IN  /\ c.op = "insert_copy" /\ c.ok
        /\ new \notin DOMAIN item
        /\ MayHaveChild(c.node, item[c.proto].type)
        /\ IsPlaceIn(kids[c.node], c.place)
        /\ kids'[c.node] = Placed(kids[c.node], new, c.place)
        /\ Unchanged([n \in DOMAIN kids \ {c.node} |-> kids[n]], kids')
        /\ Unchanged(attrs, attrs') /\ Unchanged(item, item')
        /\ LET copy  == Shape(kids', attrs', item', new)
               proto == Shape(kids, attrs, item, c.proto)
           IN  IF failed' THEN Pruned(copy, proto) ELSE copy = proto

\* A node moves with everything below it, but not below itself.
InsertMove ==
    LET c == call'
    IN  /\ c.op = "insert_move" /\ c.ok /\ c.new = c.moved
        /\ c.node \notin Below(kids, c.moved)
        /\ MayHaveChild(c.node, item[c.moved].type)
        /\ LET without == [n \in DOMAIN kids |->
                              SelectSeq(kids[n], LAMBDA x : x # c.moved)]
           IN  /\ IsPlaceIn(without[c.node], c.place)
               /\ kids' = [without EXCEPT ![c.node] = Placed(@, c.moved, c.place)]
        /\ UNCHANGED <<attrs, item>>

RemoveChild ==
    LET c    == call'
        gone == Below(kids, c.child)
    IN  /\ c.op = "remove_child" /\ c.ok
        /\ c.child \in ToSet(kids[c.node])
        /\ kids' = [n \in DOMAIN kids \ gone |->
                       SelectSeq(kids[n], LAMBDA x : x # c.child)]
        /\ attrs' = [n \in DOMAIN kids \ gone |-> attrs[n]]
        /\ item' = Restrict(item, DOMAIN item
                              \ (gone \cup UNION {ToSet(attrs[n]) : n \in gone}))

RemoveAttribute ==
    LET c == call'
    IN  /\ c.op = "remove_attribute" /\ c.ok
        /\ c.attr \in ToSet(attrs[c.node])
        /\ attrs' = [attrs EXCEPT ![c.node] =
                        SelectSeq(@, LAMBDA x : x # c.attr)]
        /\ item' = Restrict(item, DOMAIN item \ {c.attr})
        /\ UNCHANGED kids

\* A name or value of a node or attribute changes, and no other one.
SetText ==
    LET c == call'
    IN  /\ c.op = "set" /\ c.ok
        /\ item' = [item EXCEPT ![c.node][c.field] = c.text]
        /\ UNCHANGED <<kids, attrs>>

\* The text of an element is its first text child, or its own value when it has
\* one; there is a new child when it has neither. When memory runs out that child
\* may be left without the text.
TextSet ==
    LET c == call'
        IsText(n) == item[n].type \in {"pcdata", "cdata"}
        own    == \/ IsText(c.node)
                  \/ item[c.node].type = "element" /\ item[c.node].value # Blank
        at     == SelectInSeq(kids[c.node], IsText)
        holder == IF own THEN c.node ELSE kids[c.node][at]
        isNew  == ~own /\ at = 0
    IN  /\ c.op = "text_set"
        /\ isNew => MayHaveChild(c.node, "pcdata")
        /\ IF isNew
           THEN \E n \in DOMAIN item' \ DOMAIN item :
                   /\ kids'  = [kids EXCEPT ![c.node] = Append(@, n)] @@ (n :> <<>>)
                   /\ attrs' = attrs @@ (n :> <<>>)
                   /\ item'  = item @@ (n :> [type |-> "pcdata", name |-> Blank,
                                   value |-> IF c.ok THEN c.text ELSE Blank])
           ELSE /\ c.ok
                /\ item' = [item EXCEPT ![holder].value = c.text]
                /\ UNCHANGED <<kids, attrs>>
        /\ ~c.ok => failed'

\* Saving changes nothing.
Save == call'.op = "save" /\ UNCHANGED <<kids, attrs, item>>

\* Parsing into a node adds children to it (what they are, the parser says) and
\* leaves what was there, whether it succeeds or not.
AppendBuffer ==
    LET c == call'
    IN  /\ c.op = "append_buffer"
        /\ MayHaveChild(c.node, "element")
        /\ IsPrefix(kids[c.node], kids'[c.node])
        /\ Unchanged([n \in DOMAIN kids \ {c.node} |-> kids[n]], kids')
        /\ Unchanged(attrs, attrs') /\ Unchanged(item, item')

\* Loading a document replaces the one there was.
Load == /\ call'.op = "load"
        /\ \A o \in DOMAIN item' \cap {1} : item'[o] = item[o]

Next == \/ Refused \/ InsertChild \/ InsertAttribute \/ InsertCopy
        \/ InsertMove \/ RemoveChild \/ RemoveAttribute \/ SetText
        \/ TextSet \/ AppendBuffer \/ Load \/ Save

Init == /\ kids = (1 :> <<>>)
        /\ attrs = (1 :> <<>>)
        /\ item = (1 :> [type |-> "document", name |-> Blank, value |-> Blank])
        /\ failed = FALSE

Spec == Init /\ [][Next]_vars
=============================================================================

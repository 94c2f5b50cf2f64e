------------------------------ MODULE XmlHeap ------------------------------
(***************************************************************************)
(* The memory of a pugixml document (pugixml.cc, default build: neither    *)
(* PUGIXML_COMPACT nor PUGIXML_WCHAR_MODE): the allocator's list of pages,  *)
(* the strings, and the nodes and attributes with their intrusive lists.    *)
(*                                                                         *)
(* Every operator is a C++ function: it takes the heap and returns it as    *)
(* the function leaves it, with the function's result when it has one.      *)
(* A heap h has                                                            *)
(*   h.pages  the list of pages, the last one being the allocator's _root,  *)
(*            each with its busy_size and freed_size; the first is the      *)
(*            sentinel that holds the document node;                        *)
(*   h.busy   the allocator's _busy_size, which stands in for the busy_size *)
(*            of the last page until another page is appended;              *)
(*   h.obj    the live nodes and attributes, by handle;                     *)
(*   h.str    the strings: with the page and full_size of those allocated,  *)
(*            page 0 being the buffer the document was parsed in, where     *)
(*            they are at an offset;                                        *)
(*   h.oom    whether an allocation of the last call failed.                *)
(* Handles of deleted objects are given out again.                         *)
(***************************************************************************)
EXTENDS XmlText

CONSTANTS PageSize,        \* xml_memory_page_size, in units of memory
          NodeSize,        \* sizeof(xml_node_struct)
          AttrSize,        \* sizeof(xml_attribute_struct)
          Block,           \* xml_memory_block_alignment
          MaxEncoded,      \* max_encoded_offset
          ReuseThreshold,  \* reuse_threshold of strcpy_insitu_allow
          MaxPages         \* bound: xml_memory::allocate fails beyond

ASSUME PagesHoldNodes == /\ NodeSize \in 1 .. PageSize \div 4
                         /\ AttrSize \in 1 .. PageSize \div 4
                         /\ Block \in Nat \ {0}
                         /\ MaxEncoded > PageSize

Null == 0
document == 1

Fresh(used) == CHOOSE i \in 1 .. Cardinality(used) + 1 : i \notin used

-----------------------------------------------------------------------------
(* Pages. *)

PageIndex(h, page) == CHOOSE i \in DOMAIN h.pages : h.pages[i].id = page

\* A page for data_size, unless there is no memory; where it goes in the list
\* is up to the caller.
allocate_page(h) ==
    IF Len(h.pages) > MaxPages
    THEN Null ELSE Fresh({h.pages[i].id : i \in DOMAIN h.pages})

\* A small object gets a new last page; a large one gets a page of its own, put
\* before the last.
allocate_memory_oob(h, size) ==
    LET page == allocate_page(h)
        last == Len(h.pages)
    IN  IF page = Null THEN [heap |-> [h EXCEPT !.oom = TRUE], page |-> Null]
        ELSE IF size <= PageSize \div 4
        THEN [heap |-> [h EXCEPT !.pages =
                          Append([@ EXCEPT ![last].busy = h.busy],
                                 [id |-> page, busy |-> 0, freed |-> 0]),
                                 !.busy = size],
              page |-> page]
        ELSE [heap |-> [h EXCEPT !.pages =
                          InsertAt(@, last, [id |-> page, busy |-> size,
                                             freed |-> 0])],
              page |-> page]

allocate_memory(h, size) ==
    IF h.busy + size > PageSize THEN allocate_memory_oob(h, size)
    ELSE [heap |-> [h EXCEPT !.busy = @ + size], page |-> Last(h.pages).id]

\* Mutant: the size kept by the allocator is not looked at.
Mutant_deallocate_memory(h, size, page) ==
    LET i == PageIndex(h, page)
        p == [h.pages[i] EXCEPT !.freed = @ + size]
    IN  IF p.freed # p.busy THEN [h EXCEPT !.pages[i] = p]
        ELSE IF i = Len(h.pages)
        THEN [h EXCEPT !.pages[i] = [p EXCEPT !.busy = 0, !.freed = 0],
                       !.busy = 0]
        ELSE [h EXCEPT !.pages = RemoveAt(@, i)]

\* A page all of whose memory was given back is deleted, or reset when it is
\* the last one.
deallocate_memory(h, size, page) ==
    LET i == PageIndex(h, page)
        p == [h.pages[i] EXCEPT !.busy  = IF i = Len(h.pages) THEN h.busy
                                                              ELSE @,
                                !.freed = @ + size]
    IN  IF p.freed # p.busy THEN [h EXCEPT !.pages[i] = p]
        ELSE IF i = Len(h.pages)
        THEN [h EXCEPT !.pages[i] = [p EXCEPT !.busy = 0, !.freed = 0],
                       !.busy = 0]
        ELSE [h EXCEPT !.pages = RemoveAt(@, i)]

-----------------------------------------------------------------------------
(* Strings. *)

\* The memory of a string of length characters (its terminator among them) and
\* its header of one unit, rounded up to the alignment.
FullSize(length) == ((1 + length + Block - 1) \div Block) * Block

\* An allocated string; full_size 0 says that it has a page to itself.
NewString(mem, text, size) ==
    LET s == Fresh(DOMAIN mem.heap.str)
    IN  IF mem.page = Null THEN [heap |-> mem.heap, str |-> Null]
        ELSE [heap |-> [mem.heap EXCEPT !.str = @ @@
                (s :> [text |-> text, page |-> mem.page, at |-> 0,
                       full_size |-> IF size < MaxEncoded THEN size ELSE 0])],
              str |-> s]
allocate_string(h, text) ==
    NewString(allocate_memory(h, FullSize(Len(text) + 1)), text,
              FullSize(Len(text) + 1))

deallocate_string(h, s) ==
    LET string == h.str[s]
        size   == IF string.full_size = 0
                  THEN h.pages[PageIndex(h, string.page)].busy
                  ELSE string.full_size
    IN  deallocate_memory([h EXCEPT !.str = Restrict(@, DOMAIN @ \ {s})],
                          size, string.page)

\* A string of the document buffer is only forgotten, once nobody has it.
BufferString(text, at) == [text |-> text, page |-> 0, at |-> at, full_size |-> 0]
Used(h) == UNION {{h.obj[o].name, h.obj[o].value} : o \in DOMAIN h.obj}
Forget(h) == [h EXCEPT !.str = Restrict(@, DOMAIN @ \cap Used(h))]

\* field is "name" or "value", which is also the allocated bit of the header.
Text(h, o, field) ==
    IF h.obj[o][field] = Null THEN <<>> ELSE h.str[h.obj[o][field]].text

\* Mutant: shared strings are overwritten as well.
Mutant_strcpy_insitu_allow(length, header, field, target) ==
    /\ Len(target) >= length
    /\ \/ field \notin header
       \/ Len(target) < ReuseThreshold
       \/ Len(target) - length < Len(target) \div 2

\* Whether a text of that length may be copied over the present one: never over
\* one that other nodes may share, always over one of the document buffer, over
\* an allocated one when that wastes little.
strcpy_insitu_allow(length, header, field, target) ==
    /\ "shared" \notin header
    /\ Len(target) >= length
    /\ \/ field \notin header
       \/ Len(target) < ReuseThreshold
       \/ Len(target) - length < Len(target) \div 2

DropString(h, o, field) ==
    IF field \in h.obj[o].header THEN deallocate_string(h, h.obj[o][field])
                                 ELSE h

\* A field gets the new string, or is left as it is when there is none.
SetString(new, o, field) ==
    IF new.str = Null THEN [heap |-> new.heap, ok |-> FALSE]
    ELSE [heap |-> [DropString(new.heap, o, field)
                      EXCEPT !.obj[o][field] = new.str,
                             !.obj[o].header = @ \cup {field}],
          ok   |-> TRUE]

\* Gives a name or value another text.
strcpy_insitu(h, o, field, source) ==
    LET dest == h.obj[o][field]
    IN  IF source = <<>>
        THEN [heap |-> [DropString(h, o, field)
                          EXCEPT !.obj[o][field] = Null,
                                 !.obj[o].header = @ \ {field}],
              ok   |-> TRUE]
        ELSE IF dest # Null /\ strcpy_insitu_allow(Len(source),
                                  h.obj[o].header, field, h.str[dest].text)
        THEN [heap |-> [h EXCEPT !.str[dest].text = source], ok |-> TRUE]
        ELSE SetString(allocate_string(h, source), o, field)

-----------------------------------------------------------------------------
(* Nodes and attributes. *)

xml_attribute_struct(page) ==
    [type |-> "attribute", name |-> Null, value |-> Null,
     prev_attribute_c |-> Null, next_attribute |-> Null,
     header |-> {}, page |-> page]

xml_node_struct(page, type) ==
    [type |-> type, name |-> Null, value |-> Null, parent |-> Null,
     first_child |-> Null, prev_sibling_c |-> Null, next_sibling |-> Null,
     first_attribute |-> Null, header |-> {}, page |-> page]

NewObject(mem, struct(_)) ==
    LET o == Fresh(DOMAIN mem.heap.obj)
    IN  IF mem.page = Null THEN [heap |-> mem.heap, obj |-> Null]
        ELSE [heap |-> [mem.heap EXCEPT !.obj = @ @@ (o :> struct(mem.page))],
              obj  |-> o]

allocate_attribute(h) == NewObject(allocate_memory(h, AttrSize), xml_attribute_struct)

allocate_node(h, type) ==
    NewObject(allocate_memory(h, NodeSize), LAMBDA page : xml_node_struct(page, type))

\* Both give back the strings that were allocated, then the object.
DropObject(h, o, size) ==
    deallocate_memory([DropString(DropString(h, o, "name"), o, "value")
                         EXCEPT !.obj = Restrict(@, DOMAIN @ \ {o})],
                      size, h.obj[o].page)

destroy_attribute(h, a) == DropObject(h, a, AttrSize)

RECURSIVE destroy_node(_, _), DestroyAttributes(_, _), DestroyChildren(_, _)
DestroyAttributes(h, a) ==
    IF a = Null THEN h
    ELSE DestroyAttributes(destroy_attribute(h, a), h.obj[a].next_attribute)
DestroyChildren(h, c) ==
    IF c = Null THEN h
    ELSE DestroyChildren(destroy_node(h, c), h.obj[c].next_sibling)
destroy_node(h, n) ==
    DropObject(DestroyChildren(DestroyAttributes(h, h.obj[n].first_attribute),
                               h.obj[n].first_child), n, NodeSize)

-----------------------------------------------------------------------------
(* The lists. Children and attributes are kept in the same way: the owner    *)
(* has the first element, whose prev_..._c is the last one; next is Null at  *)
(* the end.                                                                  *)

Children   == [first |-> "first_child", prev |-> "prev_sibling_c",
               next |-> "next_sibling"]
Attributes == [first |-> "first_attribute", prev |-> "prev_attribute_c",
               next |-> "next_attribute"]

append(h, x, n, L) ==
    LET head == h.obj[n][L.first] IN
    IF head = Null
    THEN [h EXCEPT !.obj[n][L.first] = x, !.obj[x][L.prev] = x]
    ELSE LET tail == h.obj[head][L.prev]
         IN  [h EXCEPT !.obj[tail][L.next] = x, !.obj[x][L.prev] = tail,
                       !.obj[head][L.prev] = x]

prepend(h, x, n, L) ==
    LET head == h.obj[n][L.first]
        g    == IF head = Null THEN [h EXCEPT !.obj[x][L.prev] = x]
                ELSE [h EXCEPT !.obj[x][L.prev] = h.obj[head][L.prev],
                               !.obj[head][L.prev] = x]
    IN  [g EXCEPT !.obj[x][L.next] = head, !.obj[n][L.first] = x]

\* prev of the element after x, or of the first element when x is the last.
SetPrevOfNext(h, next, n, L, x) ==
    IF next # Null THEN [h EXCEPT !.obj[next][L.prev] = x]
    ELSE [h EXCEPT !.obj[h.obj[n][L.first]][L.prev] = x]

\* next of the element prev, or the owner's first when prev is the last one.
SetNextOfPrev(h, prev, n, L, x) ==
    IF h.obj[prev][L.next] # Null THEN [h EXCEPT !.obj[prev][L.next] = x]
    ELSE [h EXCEPT !.obj[n][L.first] = x]

insert_after(h, x, place, n, L) ==
    LET next == h.obj[place][L.next]
    IN  [SetPrevOfNext(h, next, n, L, x) EXCEPT
            !.obj[x][L.next] = next, !.obj[x][L.prev] = place,
            !.obj[place][L.next] = x]

insert_before(h, x, place, n, L) ==
    LET prev == h.obj[place][L.prev]
    IN  [SetNextOfPrev(h, prev, n, L, x) EXCEPT
            !.obj[x][L.prev] = prev, !.obj[x][L.next] = place,
            !.obj[place][L.prev] = x]

\* Mutant: the first element keeps the removed one as its last.
Mutant_unlink(h, x, n, L) ==
    LET next == h.obj[x][L.next]
        prev == h.obj[x][L.prev]
        g    == IF next = Null THEN h ELSE [h EXCEPT !.obj[next][L.prev] = prev]
    IN  [SetNextOfPrev(g, prev, n, L, next) EXCEPT
            !.obj[x][L.prev] = Null, !.obj[x][L.next] = Null]

unlink(h, x, n, L) ==
    LET next == h.obj[x][L.next]
        prev == h.obj[x][L.prev]
    IN  [SetNextOfPrev(SetPrevOfNext(h, next, n, L, prev), prev, n, L, next)
            EXCEPT !.obj[x][L.prev] = Null, !.obj[x][L.next] = Null]

WithParent(h, c, n) == [h EXCEPT !.obj[c].parent = n]

append_node(h, c, n)  == append(WithParent(h, c, n), c, n, Children)
prepend_node(h, c, n) == prepend(WithParent(h, c, n), c, n, Children)
insert_node_after(h, c, place) ==
    LET n == h.obj[place].parent
    IN  insert_after(WithParent(h, c, n), c, place, n, Children)
insert_node_before(h, c, place) ==
    LET n == h.obj[place].parent
    IN  insert_before(WithParent(h, c, n), c, place, n, Children)
remove_node(h, c) ==
    WithParent(unlink(h, c, h.obj[c].parent, Children), c, Null)

append_attribute(h, a, n)  == append(h, a, n, Attributes)
prepend_attribute(h, a, n) == prepend(h, a, n, Attributes)
insert_attribute_after(h, a, place, n)  == insert_after(h, a, place, n, Attributes)
insert_attribute_before(h, a, place, n) == insert_before(h, a, place, n, Attributes)
remove_attribute(h, a, n) == unlink(h, a, n, Attributes)

\* An object that was allocated is put into a list.
Linked(new, Link(_, _)) ==
    IF new.obj = Null THEN new ELSE [new EXCEPT !.heap = Link(@, new.obj)]

append_new_node(h, n, type) ==
    Linked(allocate_node(h, type), LAMBDA g, c : append_node(g, c, n))
append_new_attribute(h, n) ==
    Linked(allocate_attribute(h), LAMBDA g, a : append_attribute(g, a, n))
=============================================================================

------------------------------ MODULE DynList ------------------------------
(***************************************************************************)
(* dynlist_push_back, _push_front, _get, _length and _destroy of           *)
(* src/containers/dynlist.c.  The header's words are length and elem_size. *)
(* The node of a push stays in hand until it is counted.                   *)
(***************************************************************************)
EXTENDS Container

ListRequests ==
  [op : {"push_back", "push_front"}, arg : {0}, value : Values] \cup
  [op : {"get"}, arg : 0 .. 1, value : {Null}] \cup
  [op : {"length"}, arg : {0}, value : {Null}]

Nodes == Chain(ptr.head)
PushesOnto(p, empty) ==
  \/ Locked(p, "push_back") /\ (ptr.tail = Null) = empty
  \/ Locked(p, "push_front") /\ ptr.head = Null /\ empty

\* Allocate a node with the element and this next field.
NewNode(p, here, next, label) ==
  /\ here
  /\ \/ /\ Take(p, [Bytes(<<req[p].value>>) EXCEPT !.next = next])
        /\ Goto(p, label)
        /\ UNCHANGED <<answer, spoiled>>
     \/ Refused(p, "unlock")
  /\ UNCHANGED <<kind, top, lock, phase, req, calls, crashed, damaged,
                 content>>

\* A store to a node, or to a field of the header.
StoreNode(p, here, new, label) ==
  /\ here
  /\ mem' = new
  /\ Goto(p, label)
  /\ UNCHANGED <<kind, allocated, given, top, lock, phase, req, answer, calls,
                 crashed, damaged, ghosts>>

StorePtr(p, here, new, label) ==
  /\ here
  /\ ptr' = new
  /\ Goto(p, label)
  /\ UNCHANGED <<kind, heap, hdr, word, lock, phase, req, answer, calls,
                 crashed, damaged, ghosts>>

-----------------------------------------------------------------------------
(* dynlist_insert_node(after = null): the node becomes head and tail.      *)
FirstNode(p) == NewNode(p, PushesOnto(p, TRUE), Null, "first_head")
FirstHead(p) == StorePtr(p, At(p, "first_head"),
                         [ptr EXCEPT !.head = Mine(p)], "first_tail")
FirstTail(p) == StorePtr(p, At(p, "first_tail"),
                         [ptr EXCEPT !.tail = Mine(p)], "list_count")

(* dynlist_insert_node(after = tail)                                       *)
BackNode(p) == NewNode(p, PushesOnto(p, FALSE), Null, "back_link")
\* node->prev = after, node->next = after->next, after->next = node
BackLink(p) ==
  LET next == mem[ptr.tail].next IN
  StoreNode(p, At(p, "back_link"),
            [mem EXCEPT ![Mine(p)].prev = ptr.tail, ![Mine(p)].next = next,
                        ![ptr.tail].next = Mine(p)],
            IF next = Null THEN "back_tail" ELSE "back_prev")
\* A death may have left nodes behind the tail.
BackPrev(p) ==
  StoreNode(p, At(p, "back_prev"),
            [mem EXCEPT ![mem[Mine(p)].next].prev = Mine(p)], "list_count")
\* Mutant: the tail is left where it was.
TailForgotten(p) == StorePtr(p, At(p, "back_tail"), ptr, "list_count")
BackTail(p) == StorePtr(p, At(p, "back_tail"),
                        [ptr EXCEPT !.tail = Mine(p)], "list_count")

(* dynlist_push_front on a list that has a head                            *)
FrontNode(p) ==
  NewNode(p, Locked(p, "push_front") /\ ptr.head # Null, ptr.head,
          "front_prev")
FrontPrev(p) ==
  StoreNode(p, At(p, "front_prev"),
            [mem EXCEPT ![ptr.head].prev = Mine(p)], "front_head")
FrontHead(p) ==
  StorePtr(p, At(p, "front_head"), [ptr EXCEPT !.head = Mine(p)],
           IF ptr.tail = Null THEN "first_tail" ELSE "list_count")

\* hdr->length++
ListCount(p) ==
  /\ At(p, "list_count")
  /\ word' = [word EXCEPT ![1] = @ + 1]
  /\ content' = IF req[p].op = "push_back" THEN Append(content, req[p].value)
                ELSE <<req[p].value>> \o content
  /\ Settle(p) /\ UNCHANGED mem
  /\ Give(p, Done) /\ Goto(p, "unlock")
  /\ UNCHANGED <<kind, hdr, ptr, lock, phase, req, calls, crashed, damaged,
                 spoiled>>

-----------------------------------------------------------------------------
\* The index is held against length, the nodes are counted along next.
dynlist_get(p) ==
  LET i == req[p].arg IN
  /\ kind = "list" /\ Locked(p, "get")
  /\ Finish(p, IF i >= word[1] \/ i >= Len(Nodes) THEN Failed
               ELSE Append(Done, mem[Nodes[i + 1]].data[1]))

dynlist_length(p) ==
  /\ kind = "list" /\ Locked(p, "length")
  /\ Finish(p, Append(Done, word[1]))

\* dynlist_destroy passes the address behind the node header to
\* allocator_free, which takes the node's prev for its prefix.  That is null,
\* or leads to a node whose fields do not look like a block with this payload
\* (unless its element is made to): no node is freed.
DestroyList(p) == kind = "list" /\ DestroyAll(p, <<>>)

dynlist_push(p) == \/ FirstNode(p) \/ FirstHead(p) \/ FirstTail(p)
                   \/ BackNode(p) \/ BackLink(p) \/ BackPrev(p) \/ BackTail(p)
                   \/ FrontNode(p) \/ FrontPrev(p) \/ FrontHead(p)
                   \/ ListCount(p)
============================================================================

----------------------------- MODULE HashTable -----------------------------
(***************************************************************************)
(* hashtable_put, _get, _delete, _length and _destroy of                   *)
(* src/containers/hashtable.c.  A key is the value of its djb2 hash, and   *)
(* no longer than key_size.                                                *)
(***************************************************************************)
EXTENDS Container

TableRequests ==
  [op : {"put"}, arg : Keys, value : Values] \cup
  [op : {"get", "delete"}, arg : Keys, value : {Null}] \cup
  [op : {"length"}, arg : {0}, value : {Null}]

\* Index of a key's bucket in the array of heads.
hashtable_hash(k) == (k % word[1]) + 1

Buckets == mem[ptr.data].data
BucketChain(k) == Chain(Buckets[hashtable_hash(k)])
KeyOf(e) == mem[mem[e].key].data[1]

\* Entries of a chain with key k, in order.
Matches(k) == SelectSeq(BucketChain(k), LAMBDA e : KeyOf(e) = k)
Found(k) == Matches(k) # <<>>
Entry(k) == Head(Matches(k))

Entries == FlattenSeq([i \in 1 .. word[1] |-> Chain(Buckets[i])])

-----------------------------------------------------------------------------
(* hashtable_put, the key is there: free the old value, allocate a new one *)
(* and store its offset.                                                   *)

PutFreeOld(p) ==
  /\ Locked(p, "put") /\ Found(req[p].arg)
  /\ Release(mem[Entry(req[p].arg)].val)
  /\ Goto(p, "replace")
  /\ UNCHANGED <<kind, given, mem, top, lock, phase, req, answer, calls,
                 crashed, damaged, ghosts>>

\* If there is no memory, the entry keeps the offset of what was freed.
PutNewValue(p) ==
  /\ At(p, "replace")
  /\ \/ /\ Take(p, Bytes(<<req[p].value>>))
        /\ Goto(p, "replace_store")
        /\ UNCHANGED <<answer, spoiled>>
     \/ /\ Goto(p, "unlock") /\ Give(p, Failed)
        /\ spoiled' = TRUE
        /\ UNCHANGED heap
  /\ UNCHANGED <<kind, top, lock, phase, req, calls, crashed, damaged,
                 content>>

PutReplace(p) ==
  /\ At(p, "replace_store")
  /\ mem' = [mem EXCEPT ![Entry(req[p].arg)].val = Mine(p)]
  /\ content' = [content EXCEPT ![req[p].arg] = req[p].value]
  /\ Settle(p)
  /\ Give(p, Done) /\ Goto(p, "unlock")
  /\ UNCHANGED <<kind, top, lock, phase, req, calls, crashed, damaged,
                 spoiled>>

-----------------------------------------------------------------------------
(* hashtable_put, the key is new: key string, value buffer and entry are   *)
(* allocated, and the entry becomes the head of its bucket.                *)

Insert(p, here, filled, next, failed) ==
  /\ here
  /\ \/ /\ Take(p, filled)
        /\ Goto(p, next)
        /\ UNCHANGED <<answer, spoiled>>
     \/ Refused(p, failed)
  /\ UNCHANGED <<kind, top, lock, phase, req, calls, crashed, damaged,
                 content>>

\* hashtable_alloc_string
PutKey(p) == Insert(p, Locked(p, "put") /\ ~Found(req[p].arg),
                    Bytes(<<req[p].arg>>), "value", "unlock")

PutValue(p) == Insert(p, At(p, "value"), Bytes(<<req[p].value>>),
                      "entry", "free_all")

\* Mutant: a failure to allocate the entry is not undone.
EntryNotUndone(p) ==
  Insert(p, At(p, "entry"),
         [Blank EXCEPT !.key = given[p][1], !.val = given[p][2],
                       !.next = Buckets[hashtable_hash(req[p].arg)]],
         "link", "unlock")

\* hashtable_alloc_entry
PutEntry(p) ==
  Insert(p, At(p, "entry"),
         [Blank EXCEPT !.key = given[p][1], !.val = given[p][2],
                       !.next = Buckets[hashtable_hash(req[p].arg)]],
         "link", "free_all")

PutLink(p) ==
  /\ At(p, "link")
  /\ mem' = [mem EXCEPT ![ptr.data].data[hashtable_hash(req[p].arg)] = Mine(p)]
  /\ content' = [content EXCEPT ![req[p].arg] = req[p].value]
  /\ Settle(p)
  /\ Give(p, Done) /\ Goto(p, "unlock")
  /\ UNCHANGED <<kind, top, lock, phase, req, calls, crashed, damaged,
                 spoiled>>

-----------------------------------------------------------------------------
hashtable_get(p) ==
  LET k == req[p].arg IN
  /\ kind = "table" /\ Locked(p, "get")
  /\ Finish(p, IF Found(k) THEN Append(Done, mem[mem[Entry(k)].val].data[1])
               ELSE Failed)

hashtable_length(p) ==
  /\ kind = "table" /\ Locked(p, "length")
  /\ Finish(p, Append(Done, Len(Entries)))

(* hashtable_delete: unlink, then free key, value and entry.               *)

DeleteMissing(p) ==
  Locked(p, "delete") /\ ~Found(req[p].arg) /\ Finish(p, Failed)

\* Mutant: the entry stays in its chain.
NotUnlinked(k, e) == mem

\* What comes before entry e in its chain now leads past it.
Unlinked(k, e) ==
  LET chain == BucketChain(k) IN
  IF chain[1] = e
  THEN [mem EXCEPT ![ptr.data].data[hashtable_hash(k)] = mem[e].next]
  ELSE [mem EXCEPT ![chain[CHOOSE i \in DOMAIN chain : chain[i + 1] = e]].next
          = mem[e].next]

DeleteUnlink(p) ==
  LET k == req[p].arg
      e == Entry(k) IN
  /\ Locked(p, "delete") /\ Found(k)
  /\ mem' = Unlinked(k, e)
  /\ given' = [given EXCEPT ![p] = <<e, mem[e].val, mem[e].key>>]
  /\ content' = [content EXCEPT ![k] = Null]
  /\ Give(p, Done) /\ Goto(p, "free_all")
  /\ UNCHANGED <<kind, allocated, top, lock, phase, req, calls, crashed,
                 damaged, spoiled>>

\* hashtable_destroy: key, value and entry of every entry, then the buckets.
DestroyTable(p) ==
  LET cells(e) == <<e, mem[e].val, mem[e].key>> IN
  /\ kind = "table"
  /\ DestroyAll(p, <<ptr.data>> \o
                   FlattenSeq([i \in 1 .. Len(Entries) |->
                                 cells(Reverse(Entries)[i])]))

hashtable_put(p) == \/ PutFreeOld(p) \/ PutNewValue(p) \/ PutReplace(p)
                    \/ PutKey(p) \/ PutValue(p) \/ PutEntry(p) \/ PutLink(p)
hashtable_delete(p) == DeleteMissing(p) \/ DeleteUnlink(p)
============================================================================

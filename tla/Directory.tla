----------------------------- MODULE Directory -----------------------------
(***************************************************************************)
(* What the named roots and the shared index promise their clients: two    *)
(* bounded maps from names to object handles.  Each operation takes effect *)
(* at one instant between its call and its return, also when processes     *)
(* call concurrently and when some of them die.                            *)
(***************************************************************************)
EXTENDS Integers, FiniteSets

CONSTANTS
  Procs,       \* processes (or threads) that use the store
  Names,       \* names a root or an index entry may have
  Objects,     \* object handles
  NoName,      \* the empty name
  NoObject,    \* the null handle
  RootCapacity, IndexCapacity

Tables == {"roots", "index"}
Capacity(tb) == IF tb = "roots" THEN RootCapacity ELSE IndexCapacity

\* Only put passes a handle, and only the index has `contains'.
Requests ==
  [op : {"put"}, table : Tables, name : Names \cup {NoName},
   object : Objects \cup {NoObject}]
  \cup [op : {"get", "remove"}, table : Tables, name : Names \cup {NoName},
        object : {NoObject}]
  \cup [op : {"contains"}, table : {"index"}, name : Names \cup {NoName},
        object : {NoObject}]

NoRequest == [op |-> "none"]
NoAnswer == <<"none">>

VARIABLES
  dir,       \* dir[table][name] is a handle, or NoObject for an absent name
  request,   \* what each process is waiting for
  answer     \* the answer it is about to get

vars == <<dir, request, answer>>

Init ==
  /\ dir = [tb \in Tables |-> [n \in Names |-> NoObject]]
  /\ request = [p \in Procs |-> NoRequest]
  /\ answer = [p \in Procs |-> NoAnswer]

Invoke(p) ==
  /\ request[p] = NoRequest
  /\ \E r \in Requests : request' = [request EXCEPT ![p] = r]
  /\ UNCHANGED <<dir, answer>>

Bound(tb, n) == dir[tb][n] # NoObject
Room(tb) == Cardinality({n \in Names : Bound(tb, n)}) < Capacity(tb)

Bind(r, o) == dir' = [dir EXCEPT ![r.table][r.name] = o]
Answer(p, a) == answer' = [answer EXCEPT ![p] = a] /\ UNCHANGED request

Put(p, r) ==
  /\ r.op = "put"
  /\ \/ /\ Bound(r.table, r.name) \/ Room(r.table)
        /\ Bind(r, r.object)
        /\ Answer(p, <<"OK">>)
     \/ /\ ~Bound(r.table, r.name) /\ ~Room(r.table)
        /\ Answer(p, <<"OUT_OF_MEMORY">>)
        /\ UNCHANGED dir

Remove(p, r) ==
  /\ r.op = "remove"
  /\ \/ /\ Bound(r.table, r.name)
        /\ Bind(r, NoObject)
        /\ Answer(p, <<"OK">>)
     \/ /\ ~Bound(r.table, r.name)
        /\ Answer(p, <<"NOT_FOUND">>)
        /\ UNCHANGED dir

Get(p, r) ==
  /\ r.op = "get"
  /\ Answer(p, IF Bound(r.table, r.name)
               THEN <<"OK", dir[r.table][r.name]>> ELSE <<"NOT_FOUND">>)
  /\ UNCHANGED dir

Contains(p, r) ==
  /\ r.op = "contains"
  /\ Answer(p, <<"OK", Bound(r.table, r.name)>>)
  /\ UNCHANGED dir

TakeEffect(p) ==
  /\ request[p] # NoRequest /\ answer[p] = NoAnswer
  /\ \/ Put(p, request[p]) \/ Remove(p, request[p])
     \/ Get(p, request[p]) \/ Contains(p, request[p])

Return(p) ==
  /\ answer[p] # NoAnswer
  /\ request' = [request EXCEPT ![p] = NoRequest]
  /\ answer' = [answer EXCEPT ![p] = NoAnswer]
  /\ UNCHANGED dir

Next == \E p \in Procs : Invoke(p) \/ TakeEffect(p) \/ Return(p)

Spec == Init /\ [][Next]_vars
============================================================================

---------------------------- MODULE BoundedFifo ----------------------------
(***************************************************************************)
(* What a ring buffer promises producers and consumers: a queue of bounded *)
(* length in which each push and each pop takes effect at one instant      *)
(* between its call and its return.  A push fails exactly when the queue   *)
(* is full, a pop exactly when it is empty.                                *)
(***************************************************************************)
EXTENDS Integers, Sequences

CONSTANTS Procs, Values, MaxLength

Requests == [op : {"push"}, value : Values]
            \cup [op : {"pop", "is_empty", "is_full"}]
NoRequest == [op |-> "none"]
NoAnswer == <<"none">>

VARIABLES queue, request, answer
vars == <<queue, request, answer>>

Init ==
  /\ queue = <<>>
  /\ request = [p \in Procs |-> NoRequest]
  /\ answer = [p \in Procs |-> NoAnswer]

Invoke(p, r) ==
  /\ request[p] = NoRequest
  /\ request' = [request EXCEPT ![p] = r]
  /\ UNCHANGED <<queue, answer>>

Full == Len(queue) = MaxLength
Empty == queue = <<>>

\* The operation of p takes effect with answer a and leaves queue q.
Effect(p, a, q) ==
  /\ answer' = [answer EXCEPT ![p] = a]
  /\ queue' = q
  /\ UNCHANGED request

TakeEffect(p) ==
  LET r == request[p]
  IN /\ r # NoRequest /\ answer[p] = NoAnswer
     /\ \/ r.op = "push" /\ ~Full /\ Effect(p, <<"done">>, Append(queue, r.value))
        \/ r.op = "push" /\ Full /\ Effect(p, <<"failed">>, queue)
        \/ r.op = "pop" /\ ~Empty /\ Effect(p, <<"done", Head(queue)>>, Tail(queue))
        \/ r.op = "pop" /\ Empty /\ Effect(p, <<"failed">>, queue)
        \/ r.op = "is_empty" /\ Effect(p, <<"done", Empty>>, queue)
        \/ r.op = "is_full" /\ Effect(p, <<"done", Full>>, queue)

Return(p) ==
  /\ answer[p] # NoAnswer
  /\ request' = [request EXCEPT ![p] = NoRequest]
  /\ answer' = [answer EXCEPT ![p] = NoAnswer]
  /\ UNCHANGED queue

Next == \E p \in Procs :
  \/ \E r \in Requests : Invoke(p, r)
  \/ TakeEffect(p)
  \/ Return(p)

Spec == Init /\ [][Next]_vars
============================================================================

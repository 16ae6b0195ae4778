-------------------------------- MODULE LogFeed --------------------------------
(***************************************************************************)
(* What the log server promises a client: the last messages, as a copy     *)
(* made at one instant, and after them every message that is logged, in    *)
(* order; a client that has more waiting for it than its queue holds is    *)
(* let go.  There are no arrays here, and so nothing is shared.            *)
(***************************************************************************)
EXTENDS Integers, Sequences

CONSTANTS Clients, Limit, Buffer

VARIABLES
  sent,      \* the last message handed to the subscribers
  recorded,  \* the last message of the history
  feed       \* per client, what it has got and what is waiting for it

vars == <<sent, recorded, feed>>

Gone == [state |-> "gone", open |-> FALSE, todo |-> <<>>, got |-> <<>>]

\* The history: the last Limit messages.
Latest ==
  LET n == IF recorded < Limit THEN recorded ELSE Limit
  IN  [i \in 1 .. n |-> recorded - n + i]

Init ==
  /\ sent = 0 /\ recorded = 0
  /\ feed = [c \in Clients |-> Gone]

Queued(f, message) == [f EXCEPT !.todo = Append(@, message)]

Delivered(f) == [f EXCEPT !.got = Append(@, Head(f.todo)), !.todo = Tail(@)]

Closed(f) == [f EXCEPT !.open = FALSE]

Offered(f, message) ==
  IF f.state # "live" THEN f
  ELSE IF Len(f.todo) < Buffer THEN Queued(f, message) ELSE Closed(f)

Log ==
  /\ sent = recorded /\ sent' = sent + 1
  /\ feed' = [c \in Clients |-> Offered(feed[c], sent')]
  /\ UNCHANGED recorded

Record ==
  /\ recorded' = sent
  /\ UNCHANGED <<sent, feed>>

Becomes(c, f) ==
  /\ feed' = [feed EXCEPT ![c] = f]
  /\ UNCHANGED <<sent, recorded>>

\* The connection may have been lost again by the time the copy is made.
Connect(c) ==
  /\ feed[c].state = "gone"
  /\ \E open \in BOOLEAN :
       Becomes(c, [state |-> "history", open |-> open, todo |-> Latest, got |-> <<>>])

Deliver(c) ==
  /\ feed[c].todo # <<>>
  /\ Becomes(c, Delivered(feed[c]))

\* Between two messages, and after the whole history.
Subscribe(c) ==
  /\ feed[c].state = "history" /\ feed[c].todo = <<>>
  /\ sent = recorded
  /\ Becomes(c, [feed[c] EXCEPT !.state = "live"])

LetGo(c) == Becomes(c, Closed(feed[c]))

Leave(c) == Becomes(c, Gone)

Next ==
  \/ Log \/ Record
  \/ \E c \in Clients :
       Connect(c) \/ Deliver(c) \/ Subscribe(c) \/ LetGo(c) \/ Leave(c)

Spec == Init /\ [][Next]_vars
=============================================================================

------------------------------ MODULE LogServer ------------------------------
(***************************************************************************)
(* The log server (websockets/main.go): a logrus hook that hands every log *)
(* message to the subscribed websocket clients and keeps the last Limit of *)
(* them as the history a client is sent when it connects.                  *)
(*                                                                         *)
(* Messages are numbered in the order they are logged; logrus fires its    *)
(* hooks one message at a time.  The history is a Go slice: a subscriber   *)
(* copies its header, and reads the shared backing array while Fire goes   *)
(* on appending, so the arrays are modelled.  Fire holds subscribersMu     *)
(* from its first send to the end; it is two steps, between which a        *)
(* subscriber may take its snapshot of the history.                        *)
(***************************************************************************)
EXTENDS Integers, Sequences

CONSTANTS
  Clients,
  Limit,     \* the length of the history: 50
  Buffer,    \* subscriberMessageBuffer: 16
  MaxSpare,  \* bound: the spare capacity append allocates
  MaxLog     \* bound: the messages logged

ASSUME SizeAssumption ==
  /\ Limit \in Nat \ {0} /\ Buffer \in Nat \ {0}
  /\ MaxSpare \in Nat /\ MaxLog \in Nat

VARIABLES
  heap,     \* the backing arrays, in the order they are allocated
  history,  \* a slice: its array, the index of its first cell, its length
  sent,     \* the last message handed to the subscribers
  firing,   \* ... and not yet in the history: subscribersMu is held
  subs,     \* subscribers
  client    \* per client, the handler and the connection

vars == <<heap, history, sent, firing, subs, client>>

Off == [pc |-> "off", conn |-> "none", snap |-> [array |-> 1, first |-> 1, len |-> 0],
        msgs |-> <<>>, got |-> <<>>]

Init ==
  /\ heap = << <<>> >>
  /\ history = [array |-> 1, first |-> 1, len |-> 0]
  /\ sent = 0 /\ firing = FALSE
  /\ subs = {}
  /\ client = [c \in Clients |-> Off]

(***************************************************************************)
(* Slices.                                                                 *)
(***************************************************************************)
Value(slice) ==
  SubSeq(heap[slice.array], slice.first, slice.first + slice.len - 1)

\* A cell that was allocated and not written.
Blank == 0

\* append(slice, m): in the array when it has a cell left, else in a new one
\* whose capacity is the runtime's choice.
AppendTo(slice, m) ==
  LET cell == slice.first + slice.len IN
  IF cell <= Len(heap[slice.array])
  THEN /\ heap' = [heap EXCEPT ![slice.array][cell] = m]
       /\ history' = [slice EXCEPT !.len = @ + 1]
  ELSE \E spare \in 0 .. MaxSpare :
       /\ heap' = Append(heap, Append(Value(slice), m) \o [i \in 1 .. spare |-> Blank])
       /\ history' = [array |-> Len(heap) + 1, first |-> 1, len |-> slice.len + 1]

(***************************************************************************)
(* The hook.                                                               *)
(***************************************************************************)
\* Mutant: a send that waits for the subscriber.
SendBlocking ==
  /\ ~firing /\ sent < MaxLog
  /\ \A c \in subs : Len(client[c].msgs) < Buffer
  /\ sent' = sent + 1 /\ firing' = TRUE
  /\ client' = [c \in Clients |->
       IF c \in subs THEN [client[c] EXCEPT !.msgs = Append(@, sent + 1)] ELSE client[c]]
  /\ UNCHANGED <<heap, history, subs>>

\* Mutant: a subscriber whose buffer is full is not closed.
SendDropping ==
  /\ ~firing /\ sent < MaxLog
  /\ sent' = sent + 1 /\ firing' = TRUE
  /\ client' = [c \in Clients |->
       IF c \in subs /\ Len(client[c].msgs) < Buffer
       THEN [client[c] EXCEPT !.msgs = Append(@, sent + 1)] ELSE client[c]]
  /\ UNCHANGED <<heap, history, subs>>

\* Fire, the sends: a subscriber whose buffer is full misses the message, and a
\* goroutine is started that closes its connection.
Send ==
  /\ ~firing /\ sent < MaxLog
  /\ sent' = sent + 1 /\ firing' = TRUE
  /\ client' = [c \in Clients |->
       IF c \notin subs THEN client[c]
       ELSE IF Len(client[c].msgs) < Buffer
            THEN [client[c] EXCEPT !.msgs = Append(@, sent + 1)]
            ELSE [client[c] EXCEPT !.conn = IF @ = "open" THEN "closing" ELSE @]]
  /\ UNCHANGED <<heap, history, subs>>

\* Mutant: the history is shifted in its array when it is full.
RecordShifting ==
  /\ firing /\ firing' = FALSE
  /\ IF history.len < Limit THEN AppendTo(history, sent)
     ELSE /\ heap' = [heap EXCEPT ![history.array] = Append(Tail(Value(history)), sent)]
          /\ history' = [history EXCEPT !.first = 1]
  /\ UNCHANGED <<sent, subs, client>>

\* Mutant: the history has no limit.
RecordUnlimited ==
  /\ firing /\ firing' = FALSE
  /\ AppendTo(history, sent)
  /\ UNCHANGED <<sent, subs, client>>

\* Fire, the history: append(history, json), or append(history[1:], json).
Record ==
  /\ firing /\ firing' = FALSE
  /\ AppendTo(IF history.len < Limit THEN history
              ELSE [history EXCEPT !.first = @ + 1, !.len = @ - 1], sent)
  /\ UNCHANGED <<sent, subs, client>>

(***************************************************************************)
(* The handler of a client.                                                *)
(***************************************************************************)
Move(c, pc) == client' = [client EXCEPT ![c].pc = pc]

Accept(c) ==
  /\ client[c] = Off
  /\ client' = [client EXCEPT ![c].pc = "snapshot", ![c].conn = "open"]
  /\ UNCHANGED <<heap, history, sent, firing, subs>>

\* Mutant: the client is subscribed before it takes the snapshot.
SnapshotSubscribed(c) ==
  /\ client[c].pc = "snapshot" /\ ~firing
  /\ client' = [client EXCEPT ![c].pc = "history", ![c].snap = history]
  /\ subs' = subs \cup {c}
  /\ UNCHANGED <<heap, history, sent, firing>>

\* history := ls.history
Snapshot(c) ==
  /\ client[c].pc = "snapshot"
  /\ client' = [client EXCEPT ![c].pc = "history", ![c].snap = history]
  /\ UNCHANGED <<heap, history, sent, firing, subs>>

Sent(c) == Len(client[c].got)

\* A write succeeds only before the connection is closed.
WriteHistory(c) ==
  /\ client[c].pc = "history" /\ client[c].conn # "closed"
  /\ Sent(c) < client[c].snap.len
  /\ client' = [client EXCEPT ![c].got = Append(@, Value(client[c].snap)[Sent(c) + 1])]
  /\ UNCHANGED <<heap, history, sent, firing, subs>>

\* A write that fails, or times out and closes the connection.
FailHistory(c) ==
  /\ client[c].pc = "history" /\ Sent(c) < client[c].snap.len
  /\ client' = [client EXCEPT ![c] = Off]
  /\ UNCHANGED <<heap, history, sent, firing, subs>>

AddSubscriber(c) ==
  /\ client[c].pc = "history" /\ Sent(c) = client[c].snap.len
  /\ ~firing
  /\ subs' = subs \cup {c} /\ Move(c, "live")
  /\ UNCHANGED <<heap, history, sent, firing>>

WriteMessage(c) ==
  /\ client[c].pc = "live" /\ client[c].msgs # <<>> /\ client[c].conn # "closed"
  /\ client' = [client EXCEPT ![c].got = Append(@, Head(client[c].msgs)), ![c].msgs = Tail(@)]
  /\ UNCHANGED <<heap, history, sent, firing, subs>>

\* The loop ends when a write fails or times out, and when CloseRead finds the
\* connection closed.
Leave(c) ==
  /\ client[c].pc = "live"
  /\ client[c].msgs # <<>> \/ client[c].conn = "closed"
  /\ client' = [client EXCEPT ![c].pc = "delete", ![c].conn = "closed"]
  /\ UNCHANGED <<heap, history, sent, firing, subs>>

\* Mutant: the handler returns and stays subscribed.
ReturnSubscribed(c) ==
  /\ client[c].pc = "delete" /\ ~firing
  /\ client' = [client EXCEPT ![c].pc = "off"]
  /\ UNCHANGED <<heap, history, sent, firing, subs>>

DeleteSubscriber(c) ==
  /\ client[c].pc = "delete" /\ ~firing
  /\ subs' = subs \ {c}
  /\ client' = [client EXCEPT ![c] = Off]
  /\ UNCHANGED <<heap, history, sent, firing>>

\* closeSlow, in its own goroutine.
CloseSlow(c) ==
  /\ client[c].conn = "closing"
  /\ client' = [client EXCEPT ![c].conn = "closed"]
  /\ UNCHANGED <<heap, history, sent, firing, subs>>

\* The browser goes away.
Disconnect(c) ==
  /\ client[c].conn = "open"
  /\ client' = [client EXCEPT ![c].conn = "closed"]
  /\ UNCHANGED <<heap, history, sent, firing, subs>>

Serve(c) ==
  \/ Snapshot(c) \/ WriteHistory(c) \/ FailHistory(c) \/ AddSubscriber(c)
  \/ WriteMessage(c) \/ Leave(c) \/ DeleteSubscriber(c)

Next ==
  \/ Send \/ Record
  \/ \E c \in Clients : Accept(c) \/ Serve(c) \/ CloseSlow(c) \/ Disconnect(c)

\* The goroutine that logs, the closing ones, and the end of a handler whose
\* connection is closed; a write may hang until its timeout, so the handler of
\* an open connection need not go on.
Fairness ==
  /\ WF_vars(Send) /\ WF_vars(Record)
  /\ \A c \in Clients : /\ WF_vars(CloseSlow(c))
                        /\ WF_vars(client[c].conn = "closed" /\ Serve(c))
                        /\ SF_vars(AddSubscriber(c)) /\ SF_vars(DeleteSubscriber(c))

Spec == Init /\ [][Next]_vars /\ Fairness

(***************************************************************************)
(* Properties.                                                             *)
(***************************************************************************)
Slice == [array : Nat \ {0}, first : Nat \ {0}, len : 0 .. Limit]

\* The types of the variables; a slice lies in its array, a queue in its buffer.
TypeOK ==
  /\ heap \in Seq(Seq(0 .. MaxLog))
  /\ sent \in 0 .. MaxLog /\ firing \in BOOLEAN
  /\ subs \subseteq Clients
  /\ client \in [Clients -> [pc : {"off", "snapshot", "history", "live", "delete"},
                             conn : {"none", "open", "closing", "closed"}, snap : Slice,
                             msgs : Seq(1 .. MaxLog), got : Seq(0 .. MaxLog)]]
  /\ \A slice \in {history} \cup {client[c].snap : c \in Clients} :
       slice \in Slice /\ slice.array <= Len(heap)
       /\ slice.first + slice.len <= Len(heap[slice.array]) + 1
  /\ \A c \in Clients : Len(client[c].msgs) <= Buffer

Recorded == IF firing THEN sent - 1 ELSE sent

\* The history is the last Limit messages, in order.
HistoryIsLast ==
  /\ history.len = IF Recorded < Limit THEN Recorded ELSE Limit
  /\ \A i \in 1 .. history.len : Value(history)[i] = Recorded - history.len + i

\* What a client was sent of the history is what its snapshot holds still:
\* Fire, appending to the array they share, never overwrites a message that a
\* subscriber has yet to send.
SnapshotKept ==
  \A c \in Clients : client[c].pc = "history" =>
    LET snap == Value(client[c].snap) IN
    /\ client[c].got = SubSeq(snap, 1, Sent(c))
    /\ \A i \in 1 .. Len(snap) : snap[i] = snap[1] + i - 1 /\ snap[i] # Blank

\* A client never gets a message twice, nor an older one after a newer one.
InOrder ==
  \A c \in Clients : LET all == client[c].got \o client[c].msgs IN
    \A i \in 2 .. Len(all) : all[i - 1] < all[i]

LivePart(c) == SubSeq(client[c].got, client[c].snap.len + 1, Sent(c)) \o client[c].msgs

Consecutive(s) == \A i \in 2 .. Len(s) : s[i] = s[i - 1] + 1

\* A subscriber that is not being closed has missed nothing since it subscribed.
SubscriberComplete ==
  \A c \in subs : client[c].conn = "open" =>
    Consecutive(LivePart(c)) /\ (LivePart(c) # <<>> => LivePart(c)[Len(LivePart(c))] = sent)

\* What a client of the abstract feed has got, and what is waiting for it: the rest
\* of its snapshot, and later its queue.
FeedOf(k) ==
  [state |-> CASE k.pc \in {"off", "snapshot"} -> "gone"
               [] k.pc = "history" -> "history"
               [] k.pc \in {"live", "delete"} -> "live",
   open |-> k.conn = "open" /\ k.pc \notin {"off", "snapshot"},
   todo |-> IF k.pc = "history" THEN SubSeq(Value(k.snap), Len(k.got) + 1, k.snap.len) ELSE k.msgs,
   got |-> k.got]

Feed == INSTANCE LogFeed WITH
  recorded <- Recorded,
  feed <- [c \in Clients |-> FeedOf(client[c])]

\* The log server implements the feed: a client that reads the shared array while
\* the hook goes on appending to it is sent what a copy of the history would have
\* held, and after it each message in its turn.
LogFeedSpec == Feed!Spec

\* Logging never waits for a client.
LoggingProceeds == <>(sent = MaxLog /\ ~firing)

\* The subscriber of a connection that ends is removed.
ClosedLeaves ==
  \A c \in Clients : client[c].conn \in {"closing", "closed"} ~> c \notin subs
=============================================================================

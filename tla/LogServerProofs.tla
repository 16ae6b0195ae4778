---------------------------- MODULE LogServerProofs ----------------------------
(***************************************************************************)
(* The safety of LogServer, for any clients, lengths of the history and of *)
(* the buffers, spare capacities and numbers of messages.                  *)
(*                                                                         *)
(* The invariant is about single cells: a slice that a client is sending   *)
(* from ends before the cell that the hook writes next, or lies in an      *)
(* array that is not the one it writes to.                                 *)
(***************************************************************************)
EXTENDS LogServer, SequenceTheorems, TLAPS

USE SizeAssumption

Messages == 0 .. MaxLog

Handlers ==
  [pc : {"off", "snapshot", "history", "live", "delete"},
   conn : {"none", "open", "closing", "closed"}, snap : Slice,
   msgs : Seq(1 .. MaxLog), got : Seq(Messages)]

Fits(slice) ==
  /\ slice \in Slice /\ slice.array <= Len(heap)
  /\ slice.first + slice.len <= Len(heap[slice.array]) + 1

\* The hook appends to the array that was allocated last.
TypeInv ==
  /\ heap \in Seq(Seq(Messages)) /\ sent \in Messages /\ firing \in BOOLEAN
  /\ firing => sent >= 1
  /\ subs \subseteq Clients
  /\ client \in [Clients -> Handlers]
  /\ Fits(history) /\ history.array = Len(heap)
  /\ \A c \in Clients : Fits(client[c].snap) /\ Len(client[c].msgs) <= Buffer

LEMMA TypeInvOK == TypeInv => TypeOK
BY DEF TypeInv, TypeOK, Fits, Messages, Handlers

-----------------------------------------------------------------------------
(* Slices and their cells. *)

Cell(slice, i) == heap[slice.array][slice.first + i - 1]

LEMMA CellIndex ==
  ASSUME TypeInv, NEW slice, Fits(slice), NEW i \in 1 .. slice.len
  PROVE  /\ slice.array \in 1 .. Len(heap) /\ heap[slice.array] \in Seq(Messages)
         /\ slice.first + i - 1 \in 1 .. Len(heap[slice.array])
         /\ Cell(slice, i) \in Messages
<1>1. slice.array \in 1 .. Len(heap) /\ slice.first \in Nat \ {0} /\ slice.len \in Nat
  BY DEF Fits, Slice
<1>2. heap[slice.array] \in Seq(Messages)
  BY <1>1, ElementOfSeq DEF TypeInv
<1>3. Len(heap[slice.array]) \in Nat
  BY <1>2, LenProperties
<1>4. slice.first + i - 1 \in 1 .. Len(heap[slice.array])
  BY <1>1, <1>3, SMTT(30) DEF Fits
<1>5. Cell(slice, i) \in Messages
  BY <1>2, <1>4, ElementOfSeq DEF Cell
<1> QED BY <1>1, <1>2, <1>4, <1>5

LEMMA ValueCells ==
  ASSUME TypeInv, NEW slice, Fits(slice)
  PROVE  /\ Value(slice) \in Seq(Messages) /\ Len(Value(slice)) = slice.len
         /\ \A i \in 1 .. slice.len : Value(slice)[i] = Cell(slice, i)
<1> DEFINE a == heap[slice.array]
           m == slice.first
           n == slice.first + slice.len - 1
<1>1. m \in Nat \ {0} /\ n \in Int /\ slice.len \in Nat
  BY DEF Fits, Slice
<1>2. ASSUME NEW i \in m .. n PROVE a[i] \in Messages
  <2>1. i - m + 1 \in 1 .. slice.len
    BY <1>1, <1>2
  <2>2. m + (i - m + 1) - 1 = i
    BY <1>1, <1>2
  <2> QED BY <2>1, <2>2, CellIndex DEF Cell
<1>3. Value(slice) = SubSeq(a, m, n)
  BY DEF Value
<1> HIDE DEF a
<1>4. /\ SubSeq(a, m, n) \in Seq(Messages)
      /\ Len(SubSeq(a, m, n)) = IF m <= n THEN n - m + 1 ELSE 0
      /\ \A i \in 1 .. n - m + 1 : SubSeq(a, m, n)[i] = a[m + i - 1]
  BY <1>1, <1>2, SubSeqProperties
<1>5. n - m + 1 = slice.len
  BY <1>1
<1> QED BY <1>1, <1>3, <1>4, <1>5 DEF Cell, a

-----------------------------------------------------------------------------
(* The hook records a message. *)

Kept == IF history.len < Limit THEN history
        ELSE [history EXCEPT !.first = @ + 1, !.len = @ - 1]

LEMMA KeptFits ==
  ASSUME TypeInv
  PROVE  /\ Fits(Kept) /\ Kept.len + 1 \in 1 .. Limit /\ Kept.array = history.array
         /\ Kept.first + Kept.len = history.first + history.len
         /\ Kept.first = history.first + (history.len - Kept.len)
         /\ Kept.len = IF history.len < Limit THEN history.len ELSE Limit - 1
<1>1. history \in Slice /\ Fits(history)
  BY DEF TypeInv, Fits
<1>2. CASE history.len < Limit
  BY <1>1, <1>2 DEF Kept, Slice
<1>3. CASE ~(history.len < Limit)
  <2>1. /\ Kept.array = history.array /\ Kept.first = history.first + 1
        /\ Kept.len = history.len - 1 /\ history.len = Limit
    BY <1>1, <1>3 DEF Kept, Slice
  <2>2. Kept \in Slice
    <3>1. history.first + 1 \in Nat \ {0} /\ history.len - 1 \in 0 .. Limit
      BY <1>1, <1>3 DEF Slice
    <3> QED BY <1>1, <1>3, <3>1 DEF Kept, Slice
  <2> QED BY <1>1, <2>1, <2>2 DEF Fits, Slice
<1> QED BY <1>2, <1>3

\* What it does to the cells.
Recording ==
  /\ heap' \in Seq(Seq(Messages)) /\ Len(heap') >= Len(heap)
  /\ history' \in Slice /\ history'.len = Kept.len + 1 /\ history'.array = Len(heap')
  /\ history'.first + history'.len <= Len(heap'[history'.array]) + 1
  /\ history'.array = history.array =>
       history'.first + history'.len = history.first + history.len + 1
  /\ \A a \in 1 .. Len(heap) :
       /\ Len(heap'[a]) = Len(heap[a])
       /\ \A j \in 1 .. Len(heap[a]) :
            ~(a = history.array /\ j = history.first + history.len) => heap'[a][j] = heap[a][j]
  /\ \A i \in 1 .. Kept.len : Cell(history, i)' = Cell(Kept, i)
  /\ Cell(history, history.len)' = sent

LEMMA RecordCells == ASSUME TypeInv, Record PROVE Recording
<1> DEFINE k == Kept
           a == k.array
           cell == k.first + k.len
<1>1. AppendTo(k, sent)
  BY DEF Record, Kept
<1>2. /\ Fits(k) /\ k.len + 1 \in 1 .. Limit /\ a = history.array /\ a = Len(heap)
      /\ cell = history.first + history.len
  BY KeptFits DEF TypeInv
<1>3. k \in Slice /\ k.first \in Nat \ {0} /\ k.len \in Nat /\ a \in 1 .. Len(heap)
  BY <1>2 DEF Fits, Slice
<1>4. heap \in Seq(Seq(Messages)) /\ Len(heap) \in Nat /\ sent \in Messages
  BY LenProperties DEF TypeInv
<1>5. heap[a] \in Seq(Messages) /\ Len(heap[a]) \in Nat
  BY <1>3, <1>4, ElementOfSeq, LenProperties
<1> HIDE DEF k
<1>6. CASE cell <= Len(heap[a])
  <2> DEFINE b == [heap[a] EXCEPT ![cell] = sent]
  <2>1. heap' = [heap EXCEPT ![a] = b] /\ history' = [k EXCEPT !.len = @ + 1]
    <3>1. heap' = [heap EXCEPT ![a][cell] = sent]
      BY <1>1, <1>6 DEF AppendTo
    <3>2. heap \in [1 .. Len(heap) -> Seq(Messages)]
      BY <1>4, LenProperties
    <3> QED BY <1>1, <1>3, <1>6, <3>1, <3>2 DEF AppendTo
  <2>2. cell \in 1 .. Len(heap[a])
    BY <1>3, <1>5, <1>6
  <2>3. /\ b \in Seq(Messages) /\ Len(b) = Len(heap[a])
        /\ \A j \in 1 .. Len(heap[a]) : b[j] = IF j = cell THEN sent ELSE heap[a][j]
    BY <1>4, <1>5, <2>2, ExceptSeq
  <2> HIDE DEF b
  <2>4. /\ heap' \in Seq(Seq(Messages)) /\ Len(heap') = Len(heap)
        /\ \A d \in 1 .. Len(heap) : heap'[d] = IF d = a THEN b ELSE heap[d]
    BY <1>3, <1>4, <2>1, <2>3, ExceptSeq
  <2>5. /\ history' \in Slice /\ history'.array = a /\ history'.first = k.first
        /\ history'.len = k.len + 1
    BY <1>2, <1>3, <2>1 DEF Slice
  <2>6. heap'[a] = b
    BY <1>3, <2>4
  <2>7. history'.first + history'.len <= Len(heap'[history'.array]) + 1
    BY <1>3, <1>5, <1>6, <2>3, <2>5, <2>6
  <2>8. ASSUME NEW d \in 1 .. Len(heap)
        PROVE  /\ Len(heap'[d]) = Len(heap[d])
               /\ \A j \in 1 .. Len(heap[d]) : ~(d = a /\ j = cell) => heap'[d][j] = heap[d][j]
    BY <2>3, <2>4
  <2>9. ASSUME NEW i \in 1 .. k.len PROVE Cell(history, i)' = Cell(k, i)
    <3>1. k.first + i - 1 \in 1 .. Len(heap[a]) /\ k.first + i - 1 # cell
      BY <1>3, <1>5, <1>6
    <3> QED BY <2>3, <2>5, <2>6, <3>1 DEF Cell
  <2>10. Cell(history, history.len)' = sent
    <3>1. k.first + (k.len + 1) - 1 = cell
      BY <1>3
    <3> QED BY <2>2, <2>3, <2>5, <2>6, <3>1 DEF Cell
  <2>11. history'.first + history'.len = history.first + history.len + 1
    BY <1>2, <1>3, <2>5
  <2> QED BY <1>2, <1>4, <2>4, <2>5, <2>7, <2>8, <2>9, <2>10, <2>11 DEF Recording, k
<1>7. CASE ~(cell <= Len(heap[a]))
  <2>1. PICK spare \in 0 .. MaxSpare :
          /\ heap' = Append(heap, Append(Value(k), sent) \o [i \in 1 .. spare |-> Blank])
          /\ history' = [array |-> Len(heap) + 1, first |-> 1, len |-> k.len + 1]
    BY <1>1, <1>7 DEF AppendTo
  <2> DEFINE v == Append(Value(k), sent)
             z == [i \in 1 .. spare |-> Blank]
             b == v \o z
  <2>2. /\ Value(k) \in Seq(Messages) /\ Len(Value(k)) = k.len
        /\ \A i \in 1 .. k.len : Value(k)[i] = Cell(k, i)
    BY <1>2, ValueCells
  <2>3. /\ v \in Seq(Messages) /\ Len(v) = k.len + 1
        /\ \A i \in 1 .. k.len : v[i] = Cell(k, i)
        /\ v[k.len + 1] = sent
    BY <1>4, <2>2, AppendProperties
  <2>4. z \in Seq(Messages) /\ Len(z) = spare
    <3>1. z \in [1 .. spare -> Messages]
      BY DEF Blank, Messages
    <3>2. z \in Seq(Messages)
      BY <3>1, SeqDef
    <3> QED BY <3>1, <3>2, LenProperties
  <2> HIDE DEF v, z
  <2>5. /\ b \in Seq(Messages) /\ Len(b) = k.len + 1 + spare
        /\ \A i \in 1 .. k.len + 1 : b[i] = v[i]
    <3>1. /\ b \in Seq(Messages) /\ Len(b) = Len(v) + Len(z)
          /\ \A i \in 1 .. Len(v) + Len(z) : b[i] = IF i <= Len(v) THEN v[i] ELSE z[i - Len(v)]
      BY <2>3, <2>4, ConcatProperties
    <3> HIDE DEF b
    <3>2. Len(v) = k.len + 1 /\ Len(z) = spare /\ k.len \in Nat /\ spare \in Nat
      BY <1>3, <2>3, <2>4
    <3>3. Len(b) = k.len + 1 + spare
      BY <3>1, <3>2
    <3>4. ASSUME NEW i \in 1 .. k.len + 1 PROVE b[i] = v[i]
      <4>1. i \in 1 .. Len(v) + Len(z) /\ i <= Len(v)
        BY <3>2
      <4> QED BY <3>1, <4>1
    <3> QED BY <3>1, <3>3, <3>4
  <2>6. heap' = Append(heap, b)
    BY <2>1 DEF v, z
  <2> HIDE DEF b
  <2>7. /\ heap' \in Seq(Seq(Messages)) /\ Len(heap') = Len(heap) + 1
        /\ \A d \in 1 .. Len(heap) : heap'[d] = heap[d]
        /\ heap'[Len(heap) + 1] = b
    BY <1>4, <2>5, <2>6, AppendProperties
  <2>8. /\ history' \in Slice /\ history'.array = Len(heap) + 1 /\ history'.first = 1
        /\ history'.len = k.len + 1
    BY <1>2, <1>3, <1>4, <2>1 DEF Slice
  <2>9. history'.first + history'.len <= Len(heap'[history'.array]) + 1
    BY <1>3, <2>5, <2>7, <2>8
  <2>10. ASSUME NEW i \in 1 .. k.len PROVE Cell(history, i)' = Cell(k, i)
    <3>1. 1 + i - 1 = i /\ i \in 1 .. k.len + 1
      BY <1>3
    <3> QED BY <2>3, <2>5, <2>7, <2>8, <3>1 DEF Cell
  <2>11. Cell(history, history.len)' = sent
    <3>1. 1 + (k.len + 1) - 1 = k.len + 1 /\ k.len + 1 \in 1 .. k.len + 1
      BY <1>3
    <3> QED BY <2>3, <2>5, <2>7, <2>8, <3>1 DEF Cell
  <2>12. history'.array # history.array
    BY <1>2, <1>4, <2>8
  <2> QED BY <1>2, <1>4, <2>7, <2>8, <2>9, <2>10, <2>11, <2>12, SMTT(30) DEF Recording, k
<1> QED BY <1>6, <1>7

-----------------------------------------------------------------------------
(* Sequences of messages. *)

UpTo(s, n) ==
  /\ \A i \in 2 .. Len(s) : s[i - 1] < s[i]
  /\ \A i \in 1 .. Len(s) : s[i] <= n

EndsAt(s, n) == Consecutive(s) /\ (s # <<>> => s[Len(s)] = n)

LEMMA EmptyRuns == ASSUME NEW n PROVE UpTo(<<>>, n) /\ EndsAt(<<>>, n)
<1>1. Len(<<>>) = 0
  BY EmptySeq
<1> QED BY <1>1 DEF UpTo, EndsAt, Consecutive

LEMMA AppendUpTo ==
  ASSUME NEW s \in Seq(Messages), NEW x \in Messages, NEW n \in Nat, UpTo(s, n), n < x
  PROVE  UpTo(Append(s, x), x)
<1> DEFINE a == Append(s, x)
<1>1. /\ a \in Seq(Messages) /\ Len(a) = Len(s) + 1 /\ a[Len(s) + 1] = x
      /\ \A i \in 1 .. Len(s) : a[i] = s[i]
  BY AppendProperties
<1>2. Len(s) \in Nat /\ \A i \in 1 .. Len(s) : s[i] \in Nat /\ s[i] <= n
  BY LenProperties, ElementOfSeq DEF Messages, UpTo
<1> HIDE DEF a
<1>3. ASSUME NEW i \in 2 .. Len(a) PROVE a[i - 1] < a[i]
  <2>1. i - 1 \in 1 .. Len(s) /\ a[i - 1] = s[i - 1]
    BY <1>1, <1>2
  <2>2. CASE i \in 2 .. Len(s)
    <3>1. s[i - 1] < s[i] /\ a[i] = s[i]
      BY <1>1, <2>2 DEF UpTo
    <3> QED BY <2>1, <3>1
  <2>3. CASE i = Len(s) + 1
    <3>1. a[i] = x /\ s[i - 1] \in Nat /\ s[i - 1] <= n
      BY <1>1, <1>2, <2>1, <2>3
    <3> QED BY <2>1, <3>1 DEF Messages
  <2> QED BY <1>1, <1>2, <2>2, <2>3
<1>4. ASSUME NEW i \in 1 .. Len(a) PROVE a[i] <= x
  <2>1. CASE i \in 1 .. Len(s)
    <3>1. a[i] = s[i] /\ s[i] \in Nat /\ s[i] <= n
      BY <1>1, <1>2, <2>1
    <3> QED BY <3>1 DEF Messages
  <2>2. CASE i = Len(s) + 1
    BY <1>1, <2>2 DEF Messages
  <2> QED BY <1>1, <1>2, <2>1, <2>2
<1> QED BY <1>3, <1>4 DEF UpTo, a

LEMMA AppendEndsAt ==
  ASSUME NEW s \in Seq(Messages), NEW n \in Nat, n + 1 \in Messages, EndsAt(s, n)
  PROVE  EndsAt(Append(s, n + 1), n + 1)
<1> DEFINE a == Append(s, n + 1)
<1>1. /\ a \in Seq(Messages) /\ Len(a) = Len(s) + 1 /\ a[Len(s) + 1] = n + 1
      /\ \A i \in 1 .. Len(s) : a[i] = s[i]
  BY AppendProperties
<1>2. Len(s) \in Nat /\ (s = <<>> => Len(s) = 0)
  BY LenProperties, EmptySeq
<1> HIDE DEF a
<1>3. ASSUME NEW i \in 2 .. Len(a) PROVE a[i] = a[i - 1] + 1
  <2>1. i - 1 \in 1 .. Len(s) /\ a[i - 1] = s[i - 1]
    BY <1>1, <1>2
  <2>2. CASE i \in 2 .. Len(s)
    <3>1. s[i] = s[i - 1] + 1 /\ a[i] = s[i]
      BY <1>1, <2>2 DEF EndsAt, Consecutive
    <3> QED BY <2>1, <3>1
  <2>3. CASE i = Len(s) + 1
    <3>1. s # <<>> /\ i - 1 = Len(s)
      BY <1>2, <2>1, <2>3
    <3>2. s[i - 1] = n
      BY <3>1 DEF EndsAt
    <3>3. a[i] = n + 1
      BY <1>1, <2>3
    <3> QED BY <2>1, <3>2, <3>3
  <2> QED BY <1>1, <1>2, <2>2, <2>3
<1>4. Consecutive(a)
  BY <1>3 DEF Consecutive
<1>5. a[Len(a)] = n + 1
  BY <1>1
<1> QED BY <1>4, <1>5 DEF EndsAt, a

LEMMA ConcatAppend ==
  ASSUME NEW s \in Seq(Messages), NEW t \in Seq(Messages), NEW x \in Messages
  PROVE  s \o Append(t, x) = Append(s \o t, x)
<1>1. <<x>> \in Seq(Messages) /\ s \o t \in Seq(Messages)
  BY ConcatProperties
<1>2. Append(t, x) = t \o <<x>> /\ Append(s \o t, x) = (s \o t) \o <<x>>
  BY <1>1, AppendIsConcat
<1> QED BY <1>1, <1>2, ConcatAssociative

LEMMA HeadMoves ==
  ASSUME NEW s \in Seq(Messages), NEW t \in Seq(Messages), t # <<>>
  PROVE  Append(s, Head(t)) \o Tail(t) = s \o t
<1> DEFINE h == Head(t)
           u == Tail(t)
<1>1. /\ h \in Messages /\ u \in Seq(Messages) /\ Len(u) = Len(t) - 1 /\ h = t[1]
      /\ \A i \in 1 .. Len(u) : u[i] = t[i + 1]
  BY HeadTailProperties
<1>2. Len(s) \in Nat /\ Len(t) \in Nat
  BY LenProperties
<1> HIDE DEF h, u
<1> DEFINE a == Append(s, h)
<1>3. /\ a \in Seq(Messages) /\ Len(a) = Len(s) + 1 /\ a[Len(s) + 1] = h
      /\ \A i \in 1 .. Len(s) : a[i] = s[i]
  BY <1>1, AppendProperties
<1> HIDE DEF a
<1>4. /\ a \o u \in Seq(Messages) /\ Len(a \o u) = Len(a) + Len(u)
      /\ \A i \in 1 .. Len(a) + Len(u) : (a \o u)[i] = IF i <= Len(a) THEN a[i] ELSE u[i - Len(a)]
  BY <1>1, <1>3, ConcatProperties
<1>5. /\ s \o t \in Seq(Messages) /\ Len(s \o t) = Len(s) + Len(t)
      /\ \A i \in 1 .. Len(s) + Len(t) : (s \o t)[i] = IF i <= Len(s) THEN s[i] ELSE t[i - Len(s)]
  BY ConcatProperties
<1>6. Len(a \o u) = Len(s \o t)
  BY <1>1, <1>2, <1>3, <1>4, <1>5
<1>7. ASSUME NEW i \in 1 .. Len(a \o u) PROVE (a \o u)[i] = (s \o t)[i]
  <2>1. i \in 1 .. Len(a) + Len(u) /\ i \in 1 .. Len(s) + Len(t)
    BY <1>4, <1>5, <1>6
  <2>2. CASE i <= Len(s)
    <3>1. i \in 1 .. Len(s) /\ i <= Len(a)
      BY <1>2, <1>3, <2>1, <2>2
    <3> QED BY <1>3, <1>4, <1>5, <2>1, <2>2, <3>1
  <2>3. CASE i = Len(s) + 1
    <3>1. i <= Len(a) /\ ~(i <= Len(s)) /\ i - Len(s) = 1
      BY <1>2, <1>3, <2>3
    <3> QED BY <1>1, <1>3, <1>4, <1>5, <2>1, <2>3, <3>1
  <2>4. CASE i > Len(s) + 1
    <3>1. ~(i <= Len(a)) /\ ~(i <= Len(s)) /\ i - Len(a) \in 1 .. Len(u)
      BY <1>1, <1>2, <1>3, <2>1, <2>4
    <3>2. (i - Len(a)) + 1 = i - Len(s)
      BY <1>2, <1>3
    <3>3. u[i - Len(a)] = t[i - Len(s)]
      BY <1>1, <3>1, <3>2
    <3> QED BY <1>4, <1>5, <2>1, <3>1, <3>3
  <2> QED BY <1>2, <2>1, <2>2, <2>3, <2>4
<1>8. a \o u = s \o t
  BY <1>4, <1>5, <1>6, <1>7, SeqEqual
<1> QED BY <1>8 DEF a, h, u

LEMMA Suffix ==
  ASSUME NEW s \in Seq(Messages), NEW n \in Nat
  PROVE  SubSeq(s, n + 1, Len(s)) \in Seq(Messages)
<1>1. Len(s) \in Nat /\ \A i \in n + 1 .. Len(s) : s[i] \in Messages
  BY LenProperties, ElementOfSeq
<1> QED BY <1>1, SubSeqProperties

LEMMA SuffixAppend ==
  ASSUME NEW s \in Seq(Messages), NEW x \in Messages, NEW n \in Nat, n <= Len(s)
  PROVE  SubSeq(Append(s, x), n + 1, Len(Append(s, x))) = Append(SubSeq(s, n + 1, Len(s)), x)
<1> DEFINE a == Append(s, x)
           u == SubSeq(a, n + 1, Len(a))
           v == SubSeq(s, n + 1, Len(s))
           w == Append(v, x)
<1>1. /\ a \in Seq(Messages) /\ Len(a) = Len(s) + 1 /\ a[Len(s) + 1] = x
      /\ \A i \in 1 .. Len(s) : a[i] = s[i]
  BY AppendProperties
<1>2. Len(s) \in Nat
  BY LenProperties
<1> HIDE DEF a
<1>3. /\ u \in Seq(Messages)
      /\ Len(u) = Len(s) + 1 - n /\ \A i \in 1 .. Len(s) + 1 - n : u[i] = a[n + i]
  <2>1. \A i \in n + 1 .. Len(a) : a[i] \in Messages
    BY <1>1, <1>2, ElementOfSeq
  <2>2. /\ u \in Seq(Messages) /\ Len(u) = IF n + 1 <= Len(a) THEN Len(a) - (n + 1) + 1 ELSE 0
        /\ \A i \in 1 .. Len(a) - (n + 1) + 1 : u[i] = a[n + 1 + i - 1]
    BY <1>1, <1>2, <2>1, SubSeqProperties
  <2> HIDE DEF u
  <2>3. Len(a) - (n + 1) + 1 = Len(s) + 1 - n /\ n + 1 <= Len(a)
    BY <1>1, <1>2
  <2>4. \A i \in Int : n + 1 + i - 1 = n + i
    OBVIOUS
  <2> QED BY <2>2, <2>3, <2>4
<1>4. /\ v \in Seq(Messages)
      /\ Len(v) = Len(s) - n /\ \A i \in 1 .. Len(s) - n : v[i] = s[n + i]
  <2>1. \A i \in n + 1 .. Len(s) : s[i] \in Messages
    BY <1>2, ElementOfSeq
  <2>2. /\ v \in Seq(Messages) /\ Len(v) = IF n + 1 <= Len(s) THEN Len(s) - (n + 1) + 1 ELSE 0
        /\ \A i \in 1 .. Len(s) - (n + 1) + 1 : v[i] = s[n + 1 + i - 1]
    BY <1>2, <2>1, SubSeqProperties
  <2> HIDE DEF v
  <2>3. Len(s) - (n + 1) + 1 = Len(s) - n
    BY <1>2
  <2>4. Len(v) = Len(s) - n
    <3>1. CASE n + 1 <= Len(s)
      <4>1. Len(v) = Len(s) - (n + 1) + 1
        BY <2>2, <3>1
      <4> QED BY <2>3, <4>1
    <3>2. CASE ~(n + 1 <= Len(s))
      <4>1. Len(v) = 0
        BY <2>2, <3>2
      <4>2. n = Len(s)
        BY <1>2, <3>2
      <4> QED BY <1>2, <4>1, <4>2
    <3> QED BY <3>1, <3>2
  <2>5. ASSUME NEW i \in 1 .. Len(s) - n PROVE v[i] = s[n + i]
    <3>1. v[i] = s[n + 1 + i - 1]
      BY <2>2, <2>3
    <3>2. n + 1 + i - 1 = n + i
      BY <1>2
    <3> QED BY <3>1, <3>2
  <2> QED BY <2>2, <2>4, <2>5
<1> HIDE DEF u, v
<1>5. /\ w \in Seq(Messages) /\ Len(w) = Len(v) + 1 /\ w[Len(v) + 1] = x
      /\ \A i \in 1 .. Len(v) : w[i] = v[i]
  BY <1>4, AppendProperties
<1> HIDE DEF w
<1>6. Len(u) = Len(w)
  BY <1>2, <1>3, <1>4, <1>5
<1>7. ASSUME NEW i \in 1 .. Len(u) PROVE u[i] = w[i]
  <2>1. i \in 1 .. Len(s) + 1 - n /\ u[i] = a[n + i]
    BY <1>3
  <2>2. CASE i <= Len(s) - n
    <3>1. i \in 1 .. Len(v) /\ n + i \in 1 .. Len(s)
      BY <1>2, <1>4, <2>1, <2>2
    <3> QED BY <1>1, <1>4, <1>5, <2>1, <3>1
  <2>3. CASE i = Len(s) + 1 - n
    <3>1. n + i = Len(s) + 1 /\ i = Len(v) + 1
      BY <1>2, <1>4, <2>3
    <3> QED BY <1>1, <1>5, <2>1, <3>1
  <2> QED BY <1>2, <2>1, <2>2, <2>3
<1>8. u = w
  BY <1>3, <1>5, <1>6, <1>7, SeqEqual
<1> QED BY <1>8 DEF a, u, v, w

-----------------------------------------------------------------------------
(* The invariant. *)

\* HistoryIsLast, cell by cell.
HistoryInv ==
  /\ history.len = IF Recorded < Limit THEN Recorded ELSE Limit
  /\ \A i \in 1 .. history.len : Cell(history, i) = Recorded - history.len + i

\* What a handler is sending from will not be written to, and holds successive
\* messages, of which the client was sent the first.
SendsKept(k) ==
  k.pc = "history" =>
    /\ k.snap.array = history.array => k.snap.first + k.snap.len <= history.first + history.len
    /\ \E base \in Nat : /\ base + k.snap.len <= Recorded
                         /\ \A i \in 1 .. k.snap.len : Cell(k.snap, i) = base + i
    /\ Len(k.got) <= k.snap.len
    /\ \A i \in 1 .. Len(k.got) : k.got[i] = Cell(k.snap, i)

InTurn(k) == UpTo(k.got \o k.msgs, sent)

Live(k) == SubSeq(k.got, k.snap.len + 1, Len(k.got)) \o k.msgs

\* From the subscription on, nothing is missing up to the last message.
Complete(k) ==
  k.pc = "live" => /\ k.snap.len <= Len(k.got)
                   /\ k.conn = "open" => EndsAt(Live(k), sent)

Staged(k) ==
  /\ k.pc \notin {"live", "delete"} => k.msgs = <<>>
  /\ k.pc \in {"off", "snapshot"} => k.got = <<>>
  /\ k.pc = "delete" => k.conn = "closed"

HandlerInv(k) == Staged(k) /\ SendsKept(k) /\ InTurn(k) /\ Complete(k)

\* A client is subscribed from AddSubscriber to DeleteSubscriber.
Subscribers == \A c \in Clients : c \in subs <=> client[c].pc \in {"live", "delete"}

Inv == TypeInv /\ HistoryInv /\ Subscribers /\ \A c \in Clients : HandlerInv(client[c])

LEMMA Numbers ==
  ASSUME TypeInv
  PROVE  /\ sent \in Nat /\ sent <= MaxLog /\ Recorded \in Nat /\ Recorded <= sent
         /\ Len(heap) \in Nat /\ history.first \in Nat \ {0} /\ history.len \in 0 .. Limit
BY LenProperties DEF TypeInv, Messages, Recorded, Fits, Slice

LEMMA HandlerTypes ==
  ASSUME TypeInv, NEW c \in Clients
  PROVE  /\ client[c] \in Handlers /\ client[c].snap \in Slice
         /\ client[c].got \in Seq(Messages)
         /\ client[c].msgs \in Seq(1 .. MaxLog) /\ client[c].msgs \in Seq(Messages)
         /\ Len(client[c].got) \in Nat /\ Len(client[c].msgs) \in Nat
         /\ client[c].snap.len \in Nat /\ client[c].snap.first \in Nat \ {0}
         /\ Fits(client[c].snap) /\ Len(client[c].msgs) <= Buffer
<1>1. client[c] \in Handlers /\ Fits(client[c].snap) /\ Len(client[c].msgs) <= Buffer
  BY DEF TypeInv
<1>2. client[c].got \in Seq(Messages) /\ client[c].msgs \in Seq(1 .. MaxLog)
  BY <1>1 DEF Handlers
<1>3. Len(client[c].got) \in Nat /\ Len(client[c].msgs) \in Nat
  BY <1>2, LenProperties
<1>4. client[c].snap \in Slice
  BY <1>1 DEF Handlers
<1>5. client[c].msgs \in Seq(Messages)
  <2>1. 1 .. MaxLog \subseteq Messages
    BY DEF Messages
  <2> QED BY <1>2, <2>1, SeqMonotonic
<1> QED BY <1>1, <1>2, <1>3, <1>4, <1>5 DEF Slice

LEMMA OffInv ==
  ASSUME TypeInv
  PROVE  Off \in Handlers /\ Fits(Off.snap) /\ Len(Off.msgs) <= Buffer /\ HandlerInv(Off)
<1>1. Len(heap) \in Nat /\ Len(heap) >= 1 /\ heap[1] \in Seq(Messages) /\ Len(heap[1]) \in Nat
  <2>1. history.array \in Nat \ {0} /\ history.array = Len(heap)
    BY DEF TypeInv, Fits, Slice
  <2>2. heap[1] \in Seq(Messages)
    BY <2>1, ElementOfSeq DEF TypeInv
  <2> QED BY <2>1, <2>2, LenProperties
<1>2. Off \in Handlers
  BY EmptySeq DEF Off, Handlers, Slice
<1>3. Fits(Off.snap)
  BY <1>1 DEF Off, Fits, Slice
<1>4. Off.msgs = <<>> /\ Off.got = <<>> /\ Off.pc = "off" /\ Len(Off.msgs) = 0
  BY EmptySeq DEF Off
<1>5. InTurn(Off)
  <2>1. <<>> \o <<>> = <<>>
    BY EmptySeq, ConcatEmptySeq
  <2> QED BY <1>4, <2>1, EmptyRuns DEF InTurn
<1> QED BY <1>2, <1>3, <1>4, <1>5 DEF HandlerInv, Staged, SendsKept, Complete

\* A step that changes one handler and nothing that the others rely on.
LEMMA HandlerStep ==
  ASSUME Inv, NEW c \in Clients, NEW k \in Handlers, client' = [client EXCEPT ![c] = k],
         UNCHANGED <<heap, history, sent, firing>>,
         Fits(k.snap), Len(k.msgs) <= Buffer, HandlerInv(k),
         subs' = IF k.pc \in {"live", "delete"} THEN subs \cup {c} ELSE subs \ {c}
  PROVE  Inv'
<1>1. client \in [Clients -> Handlers] /\ TypeInv
  BY DEF Inv, TypeInv
<1>2. \A d \in Clients : client'[d] = IF d = c THEN k ELSE client[d]
  BY <1>1
<1>3. TypeInv'
  BY <1>1, <1>2 DEF TypeInv, Fits
<1>4. HistoryInv' /\ Subscribers'
  BY <1>2 DEF Inv, HistoryInv, Subscribers, Recorded, Cell
<1>5. ASSUME NEW d \in Clients PROVE HandlerInv(client[d])'
  <2>1. HandlerInv(client'[d])
    BY <1>2 DEF Inv
  <2> QED BY <2>1 DEF HandlerInv, SendsKept, InTurn, Complete, Recorded, Cell, Live, Staged
<1> QED BY <1>3, <1>4, <1>5 DEF Inv

LEMMA InitInv == Init => Inv
<1> SUFFICES ASSUME Init PROVE Inv
  OBVIOUS
<1>1. heap \in Seq(Seq(Messages)) /\ Len(heap) = 1 /\ heap[1] = <<>>
  <2>1. <<>> \in Seq(Messages)
    BY EmptySeq
  <2> QED BY <2>1 DEF Init
<1>2. \A c \in Clients : client[c] = Off
  BY DEF Init
<1>3. TypeInv
  <2>1. Off \in Handlers
    BY EmptySeq DEF Off, Handlers, Slice
  <2>2. Len(Off.msgs) <= Buffer
    BY EmptySeq DEF Off
  <2>3. Fits(history) /\ Fits(Off.snap) /\ history.array = Len(heap)
    BY <1>1, EmptySeq DEF Init, Fits, Slice, Off
  <2>4. client \in [Clients -> Handlers]
    BY <2>1 DEF Init
  <2>5. \A c \in Clients : Fits(client[c].snap) /\ Len(client[c].msgs) <= Buffer
    BY <1>2, <2>2, <2>3
  <2>6. sent = 0 /\ firing = FALSE /\ subs = {}
    BY DEF Init
  <2>7. 0 \in Messages
    BY DEF Messages
  <2> QED BY <1>1, <2>3, <2>4, <2>5, <2>6, <2>7 DEF TypeInv
<1>4. HistoryInv
  BY DEF Init, HistoryInv, Recorded
<1>5. Subscribers
  BY <1>2 DEF Init, Subscribers, Off
<1>6. \A c \in Clients : HandlerInv(client[c])
  BY <1>2, <1>3, OffInv
<1> QED BY <1>3, <1>4, <1>5, <1>6 DEF Inv

-----------------------------------------------------------------------------
(* The steps of the hook. *)

LEMMA SendInv == ASSUME Inv, Send PROVE Inv'
<1>1. TypeInv /\ ~firing /\ sent < MaxLog /\ sent' = sent + 1 /\ firing' = TRUE
      /\ UNCHANGED <<heap, history, subs>>
  BY DEF Send, Inv
<1>2. Recorded' = Recorded /\ sent \in Nat /\ sent + 1 \in Messages /\ sent + 1 \in 1 .. MaxLog
  BY <1>1, Numbers DEF Recorded, Messages
<1>3. ASSUME NEW c \in Clients
      PROVE  /\ client'[c] \in Handlers /\ client'[c].snap = client[c].snap
             /\ client'[c].pc = client[c].pc /\ client'[c].got = client[c].got
             /\ Len(client'[c].msgs) <= Buffer
             /\ Staged(client'[c]) /\ InTurn(client[c])' /\ Complete(client[c])'
  <2> DEFINE k == client[c]
             l == client'[c]
             all == k.got \o k.msgs
  <2>1. /\ k \in Handlers /\ k.got \in Seq(Messages) /\ k.msgs \in Seq(1 .. MaxLog)
        /\ k.msgs \in Seq(Messages) /\ Len(k.got) \in Nat /\ Len(k.msgs) \in Nat
        /\ k.snap.len \in Nat /\ Len(k.msgs) <= Buffer
    BY <1>1, HandlerTypes
  <2>2. HandlerInv(k)
    BY DEF Inv
  <2>3. c \in subs <=> k.pc \in {"live", "delete"}
    BY DEF Inv, Subscribers
  <2>4. all \in Seq(Messages) /\ UpTo(all, sent)
    BY <2>1, <2>2, ConcatProperties DEF HandlerInv, InTurn
  <2>5. UpTo(all, sent + 1)
    <3> HIDE DEF all
    <3>1. ASSUME NEW i \in 1 .. Len(all) PROVE all[i] <= sent + 1
      <4>1. all[i] \in Messages
        BY <2>4, ElementOfSeq
      <4>2. all[i] <= sent
        BY <2>4 DEF UpTo
      <4> QED BY <1>2, <4>1, <4>2 DEF Messages
    <3> QED BY <2>4, <3>1 DEF UpTo
  <2>6. CASE c \notin subs
    <3>1. l = k
      BY <2>6 DEF Send
    <3>2. k.pc # "live"
      BY <2>3, <2>6
    <3>3. InTurn(k)'
      BY <1>1, <2>5, <3>1 DEF InTurn
    <3>4. Complete(k)'
      BY <3>1, <3>2 DEF Complete
    <3> QED BY <2>1, <2>2, <3>1, <3>3, <3>4 DEF HandlerInv
  <2>7. CASE c \in subs /\ Len(k.msgs) < Buffer
    <3> DEFINE m == Append(k.msgs, sent + 1)
    <3>1. l = [k EXCEPT !.msgs = m]
      BY <2>7 DEF Send
    <3>2. m \in Seq(1 .. MaxLog) /\ Len(m) = Len(k.msgs) + 1
      BY <1>2, <2>1, AppendProperties
    <3>3. k.got \o m = Append(all, sent + 1)
      BY <1>2, <2>1, ConcatAppend
    <3>4. UpTo(k.got \o m, sent + 1)
      <4>1. sent < sent + 1
        BY <1>2
      <4> HIDE DEF all, m
      <4>2. UpTo(Append(all, sent + 1), sent + 1)
        BY <1>2, <2>4, <4>1, AppendUpTo
      <4> QED BY <3>3, <4>2
    <3> DEFINE live == SubSeq(k.got, k.snap.len + 1, Len(k.got))
    <3>5. live \in Seq(Messages) /\ live \o k.msgs \in Seq(Messages)
      BY <2>1, Suffix, ConcatProperties
    <3>6. live \o m = Append(live \o k.msgs, sent + 1)
      BY <1>2, <2>1, <3>5, ConcatAppend
    <3>7. EndsAt(live \o k.msgs, sent) => EndsAt(live \o m, sent + 1)
      BY <1>2, <3>5, <3>6, AppendEndsAt
    <3>8. k.pc = "live" /\ k.conn = "open" => EndsAt(live \o k.msgs, sent)
      BY <2>2 DEF HandlerInv, Complete, Live
    <3> HIDE DEF m
    <3>9. /\ l.msgs = m /\ l.pc = k.pc /\ l.got = k.got /\ l.snap = k.snap /\ l.conn = k.conn
          /\ l \in Handlers
      BY <2>1, <3>1, <3>2 DEF Handlers
    <3>10. InTurn(k)'
      BY <1>1, <3>4, <3>9 DEF InTurn
    <3>11. Complete(k)'
      <4>1. k.pc = "live" => k.snap.len <= Len(k.got)
        BY <2>2 DEF HandlerInv, Complete
      <4>2. k.pc = "live" /\ k.conn = "open" => EndsAt(live \o m, sent + 1)
        BY <3>7, <3>8
      <4> QED BY <1>1, <3>9, <4>1, <4>2 DEF Complete, Live
    <3>12. Len(m) <= Buffer /\ Staged(l)
      BY <2>1, <2>2, <2>3, <2>7, <3>2, <3>9 DEF HandlerInv, Staged
    <3> QED BY <3>9, <3>10, <3>11, <3>12
  <2>8. CASE c \in subs /\ ~(Len(k.msgs) < Buffer)
    <3>1. l = [k EXCEPT !.conn = IF @ = "open" THEN "closing" ELSE @]
      BY <2>8 DEF Send
    <3>2. /\ l.msgs = k.msgs /\ l.pc = k.pc /\ l.got = k.got /\ l.snap = k.snap
          /\ l.conn # "open" /\ (k.conn = "closed" => l.conn = "closed") /\ l \in Handlers
      BY <2>1, <3>1 DEF Handlers
    <3>3. InTurn(k)'
      BY <1>1, <2>5, <3>2 DEF InTurn
    <3>4. Complete(k)'
      BY <2>2, <3>2 DEF HandlerInv, Complete
    <3>5. Staged(l)
      BY <2>2, <3>2 DEF HandlerInv, Staged
    <3> QED BY <2>1, <3>2, <3>3, <3>4, <3>5
  <2> QED BY <2>6, <2>7, <2>8
<1>4. TypeInv'
  <2>1. client' \in [Clients -> Handlers]
    BY <1>3 DEF Send
  <2>2. \A c \in Clients : Fits(client'[c].snap) /\ Len(client'[c].msgs) <= Buffer
    BY <1>1, <1>3 DEF TypeInv
  <2>3. \A c \in Clients : (Fits(client[c].snap) /\ Len(client[c].msgs) <= Buffer)'
    BY <1>1, <2>2 DEF Fits
  <2>4. sent' >= 1
    BY <1>1, <1>2
  <2> QED BY <1>1, <1>2, <2>1, <2>3, <2>4 DEF TypeInv, Fits
<1>5. HistoryInv' /\ Subscribers'
  BY <1>1, <1>2, <1>3 DEF Inv, HistoryInv, Subscribers, Cell
<1>6. ASSUME NEW c \in Clients PROVE HandlerInv(client[c])'
  <2>1. SendsKept(client[c])
    BY DEF Inv, HandlerInv
  <2>2. SendsKept(client[c])'
    <3> DEFINE k == client[c]
    <3>1. /\ k'.pc = k.pc /\ k'.snap = k.snap /\ k'.got = k.got /\ history' = history
          /\ heap' = heap /\ Recorded' = Recorded
      BY <1>1, <1>2, <1>3
    <3>2. \A i : Cell(k.snap, i)' = Cell(k.snap, i)
      BY <3>1 DEF Cell
    <3> QED BY <2>1, <3>1, <3>2 DEF SendsKept
  <2> QED BY <1>3, <2>2 DEF HandlerInv, Staged
<1> QED BY <1>4, <1>5, <1>6 DEF Inv

\* What a client is sending from is left as it is.
LEMMA SnapshotCells ==
  ASSUME Inv, Record, NEW c \in Clients, client[c].pc = "history",
         NEW i \in 1 .. client[c].snap.len
  PROVE  Cell(client[c].snap, i)' = Cell(client[c].snap, i)
<1> DEFINE s == client[c].snap
<1>1. TypeInv /\ Recording /\ client' = client /\ history.array = Len(heap)
  BY RecordCells DEF Record, Inv, TypeInv
<1>2. s.len \in Nat /\ s.first \in Nat \ {0} /\ Fits(s) /\ s \in Slice
  BY <1>1, HandlerTypes
<1>3. s.array = history.array => s.first + s.len <= history.first + history.len
  BY DEF Inv, HandlerInv, SendsKept
<1>4. s.array \in 1 .. Len(heap) /\ s.first + i - 1 \in 1 .. Len(heap[s.array])
  BY <1>1, <1>2, CellIndex
<1>5. ~(s.array = history.array /\ s.first + i - 1 = history.first + history.len)
  <2>1. /\ s.first \in Int /\ s.len \in Int /\ i \in Int /\ i <= s.len
        /\ history.first \in Int /\ history.len \in Int
    BY <1>1, <1>2, Numbers
  <2> HIDE DEF s
  <2> QED BY <1>3, <2>1
<1> QED BY <1>1, <1>4, <1>5 DEF Recording, Cell

LEMMA RecordInv == ASSUME Inv, Record PROVE Inv'
<1>1. TypeInv /\ firing /\ firing' = FALSE /\ UNCHANGED <<sent, subs, client>>
  BY DEF Record, Inv
<1>2. Recording
  BY <1>1, RecordCells
<1>3. /\ Recorded' = sent /\ Recorded = sent - 1 /\ Recorded \in Nat /\ sent \in Nat
      /\ Len(heap) \in Nat /\ history.first \in Nat \ {0} /\ history.len \in 0 .. Limit
      /\ history.array = Len(heap)
  BY <1>1, Numbers DEF Recorded, TypeInv
<1>4. Len(heap') \in Nat
  BY <1>2, LenProperties DEF Recording
<1>5. /\ Kept.len \in Nat /\ Kept.len + 1 \in 1 .. Limit /\ Kept.array = history.array
      /\ Kept.first = history.first + (history.len - Kept.len)
      /\ Kept.len = IF history.len < Limit THEN history.len ELSE Limit - 1
  BY <1>1, KeptFits DEF Fits, Slice
<1>7. TypeInv'
  <2>1. ASSUME NEW c \in Clients PROVE (Fits(client[c].snap) /\ Len(client[c].msgs) <= Buffer)'
    <3>1. Fits(client[c].snap) /\ Len(client[c].msgs) <= Buffer /\ client' = client
      BY <1>1 DEF TypeInv
    <3> DEFINE k == client[c]
    <3>2. k' = k
      BY <3>1
    <3>3. \A slice : Fits(slice) => slice.array \in 1 .. Len(heap) /\ slice \in Slice
      BY <1>3 DEF Fits, Slice
    <3>4. \A slice : Fits(slice) => /\ slice.array <= Len(heap')
                                   /\ Len(heap'[slice.array]) = Len(heap[slice.array])
      BY <1>2, <1>3, <1>4, <3>3, SMTT(30) DEF Recording, Slice
    <3> QED BY <3>1, <3>3, <3>4 DEF Fits
  <2>2. Fits(history)'
    <3>1. history' \in Slice /\ history'.array = Len(heap')
          /\ history'.first + history'.len <= Len(heap'[history'.array]) + 1
      BY <1>2 DEF Recording
    <3> QED BY <1>4, <3>1 DEF Fits
  <2> QED BY <1>1, <1>2, <2>1, <2>2 DEF TypeInv, Recording
<1>8. HistoryInv'
  <2>1. history.len = IF Recorded < Limit THEN Recorded ELSE Limit
    BY DEF Inv, HistoryInv
  <2>2. history'.len = Kept.len + 1
    BY <1>2 DEF Recording
  <2>3. history'.len = IF sent < Limit THEN sent ELSE Limit
    <3>1. CASE history.len < Limit
      <4>1. history.len = sent - 1 /\ sent - 1 < Limit
        BY <1>3, <2>1, <3>1
      <4>2. history'.len = history.len + 1
        BY <1>5, <2>2, <3>1
      <4> QED BY <1>3, <4>1, <4>2
    <3>2. CASE ~(history.len < Limit)
      <4>1. history'.len = Limit
        BY <1>5, <2>2, <3>2
      <4>2. ~(sent < Limit)
        BY <1>3, <2>1, <3>2
      <4> QED BY <4>1, <4>2
    <3> QED BY <3>1, <3>2
  <2>4. ASSUME NEW i \in 1 .. history'.len PROVE Cell(history, i)' = sent - history'.len + i
    <3>1. CASE i <= Kept.len
      <4> DEFINE n == i + (history.len - Kept.len)
      <4>1. n \in 1 .. history.len
        BY <1>3, <1>5, <3>1
      <4>2. Kept.first + i - 1 = history.first + n - 1
        BY <1>3, <1>5
      <4>3. Cell(Kept, i) = Cell(history, n)
        BY <1>5, <4>2 DEF Cell
      <4>4. Cell(history, n) = Recorded - history.len + n
        BY <4>1 DEF Inv, HistoryInv
      <4>5. Cell(history, i)' = Cell(Kept, i)
        BY <1>2, <1>5, <3>1 DEF Recording
      <4> QED BY <1>3, <1>5, <2>2, <4>3, <4>4, <4>5
    <3>2. CASE i = history'.len
      <4>1. Cell(history, history.len)' = sent
        BY <1>2 DEF Recording
      <4> QED BY <1>3, <1>5, <2>2, <3>2, <4>1
    <3> QED BY <1>5, <2>2, <3>1, <3>2
  <2> QED BY <1>3, <2>3, <2>4 DEF HistoryInv
<1>9. ASSUME NEW c \in Clients PROVE HandlerInv(client[c])'
  <2> DEFINE k == client[c]
  <2>1. /\ k.snap \in Slice /\ k.snap.len \in Nat /\ k.snap.first \in Nat \ {0} /\ Fits(k.snap)
    BY <1>1, HandlerTypes
  <2>2. HandlerInv(k)
    BY DEF Inv
  <2>3. SendsKept(k)'
    <3> SUFFICES ASSUME k.pc = "history" PROVE SendsKept(k)'
      BY <1>1 DEF SendsKept
    <3>1. k.snap.array = history.array => k.snap.first + k.snap.len <= history.first + history.len
      BY <2>2 DEF HandlerInv, SendsKept
    <3>2. k.snap.array \in 1 .. Len(heap)
      BY <1>3, <2>1 DEF Fits, Slice
    <3>3. \A i \in 1 .. k.snap.len : Cell(k.snap, i)' = Cell(k.snap, i)
      BY SnapshotCells
    <3>4. k.snap.array = history'.array => k.snap.first + k.snap.len <= history'.first + history'.len
      <4> SUFFICES ASSUME k.snap.array = history'.array
                   PROVE  k.snap.first + k.snap.len <= history'.first + history'.len
        OBVIOUS
      <4>1. history'.array = history.array
        BY <1>2, <1>3, <1>4, <3>2 DEF Recording
      <4>2. k.snap.first + k.snap.len <= history.first + history.len
        BY <3>1, <4>1
      <4>3. history'.first + history'.len = history.first + history.len + 1
        BY <1>2, <4>1 DEF Recording
      <4> QED BY <1>3, <2>1, <4>2, <4>3
    <3>5. PICK base \in Nat : /\ base + k.snap.len <= Recorded
                              /\ \A i \in 1 .. k.snap.len : Cell(k.snap, i) = base + i
      BY <2>2 DEF HandlerInv, SendsKept
    <3>6. base + k.snap.len <= sent /\ \A i \in 1 .. k.snap.len : Cell(k.snap, i)' = base + i
      BY <1>3, <2>1, <3>3, <3>5, SMTT(30)
    <3>7. Len(k.got) <= k.snap.len /\ \A i \in 1 .. Len(k.got) : k.got[i] = Cell(k.snap, i)
      BY <2>2 DEF HandlerInv, SendsKept
    <3>8. \A i \in 1 .. Len(k.got) : k.got[i] = Cell(k.snap, i)'
      <4>1. Len(k.got) \in Nat
        BY <1>1, HandlerTypes
      <4> QED BY <2>1, <3>3, <3>7, <4>1
    <3> QED BY <1>1, <1>3, <3>4, <3>6, <3>7, <3>8 DEF SendsKept
  <2> QED BY <1>1, <2>2, <2>3 DEF HandlerInv, Staged, InTurn, Complete, Live
<1> QED BY <1>1, <1>7, <1>8, <1>9 DEF Inv, Subscribers

-----------------------------------------------------------------------------
(* The steps of a handler. *)

LEMMA AcceptInv == ASSUME Inv, NEW c \in Clients, Accept(c) PROVE Inv'
<1> DEFINE k == [Off EXCEPT !.pc = "snapshot", !.conn = "open"]
<1>1. TypeInv /\ client \in [Clients -> Handlers]
  BY DEF Inv, TypeInv
<1>2. client[c] = Off /\ UNCHANGED <<heap, history, sent, firing, subs>>
  BY DEF Accept
<1>3. /\ k.pc = "snapshot" /\ k.conn = "open" /\ k.snap = Off.snap /\ k.msgs = Off.msgs
      /\ k.got = Off.got
  BY DEF Off
<1>4. client' = [client EXCEPT ![c] = k]
  BY <1>1, <1>2 DEF Accept
<1>5. k \in Handlers
  BY <1>1, OffInv DEF Handlers
<1> HIDE DEF k
<1>6. HandlerInv(k)
  <2>1. HandlerInv(Off) /\ Off.pc = "off"
    BY <1>1, OffInv DEF Off
  <2> QED BY <1>3, <2>1 DEF HandlerInv, Staged, SendsKept, InTurn, Complete
<1>7. c \notin subs
  BY <1>2 DEF Inv, Subscribers, Off
<1> QED BY <1>1, <1>2, <1>3, <1>4, <1>5, <1>6, <1>7, OffInv, HandlerStep

LEMMA SnapshotInv == ASSUME Inv, NEW c \in Clients, Snapshot(c) PROVE Inv'
<1> DEFINE h == client[c]
           k == [h EXCEPT !.pc = "history", !.snap = history]
<1>1. TypeInv /\ client \in [Clients -> Handlers] /\ HistoryInv /\ HandlerInv(h)
  BY DEF Inv, TypeInv
<1>2. h.pc = "snapshot" /\ UNCHANGED <<heap, history, sent, firing, subs>>
  BY DEF Snapshot
<1>3. h \in Handlers /\ Len(h.msgs) <= Buffer
  BY <1>1, HandlerTypes
<1>4. client' = [client EXCEPT ![c] = k]
  BY <1>1 DEF Snapshot
<1>5. /\ k.pc = "history" /\ k.conn = h.conn /\ k.snap = history /\ k.msgs = h.msgs
      /\ k.got = h.got /\ k \in Handlers
  BY <1>1, <1>3 DEF Handlers, TypeInv, Fits
<1>6. Fits(history) /\ history.len \in Nat /\ Recorded \in Nat
  BY <1>1, Numbers DEF TypeInv
<1>7. c \notin subs
  BY <1>2 DEF Inv, Subscribers
<1> HIDE DEF k
<1>8. SendsKept(k)
  <2>1. k.got = <<>> /\ Len(k.got) = 0
    BY <1>1, <1>2, <1>5, EmptySeq DEF HandlerInv, Staged
  <2>2. Recorded - history.len \in Nat
    BY <1>1, <1>6 DEF HistoryInv
  <2>3. (Recorded - history.len) + k.snap.len <= Recorded
    BY <1>5, <1>6
  <2>4. \A i \in 1 .. k.snap.len : Cell(k.snap, i) = (Recorded - history.len) + i
    BY <1>1, <1>5 DEF HistoryInv
  <2>5. Len(k.got) <= k.snap.len /\ \A i \in 1 .. Len(k.got) : k.got[i] = Cell(k.snap, i)
    BY <1>5, <1>6, <2>1
  <2>6. history.first + history.len <= history.first + history.len
    BY <1>1, Numbers
  <2> QED BY <1>5, <2>2, <2>3, <2>4, <2>5, <2>6 DEF SendsKept
<1>9. HandlerInv(k)
  BY <1>1, <1>2, <1>5, <1>8 DEF HandlerInv, Staged, InTurn, Complete
<1> QED BY <1>1, <1>2, <1>3, <1>4, <1>5, <1>6, <1>7, <1>9, HandlerStep

\* Messages that follow each other are in turn.
LEMMA Successive ==
  ASSUME NEW s \in Seq(Messages), NEW base \in Nat, NEW n \in Nat,
         base + Len(s) <= n, \A i \in 1 .. Len(s) : s[i] = base + i
  PROVE  UpTo(s, n)
<1>1. Len(s) \in Nat
  BY LenProperties
<1>2. ASSUME NEW i \in 2 .. Len(s) PROVE s[i - 1] < s[i]
  <2>1. i - 1 \in 1 .. Len(s) /\ i \in 1 .. Len(s)
    BY <1>1
  <2>2. s[i - 1] = base + (i - 1) /\ s[i] = base + i
    BY <2>1
  <2> QED BY <1>1, <2>2
<1>3. \A i \in 1 .. Len(s) : s[i] <= n
  BY <1>1
<1> QED BY <1>2, <1>3 DEF UpTo

LEMMA WriteHistoryInv == ASSUME Inv, NEW c \in Clients, WriteHistory(c) PROVE Inv'
<1> DEFINE h == client[c]
           n == Len(h.got)
           v == Value(h.snap)[n + 1]
           g == Append(h.got, v)
           k == [h EXCEPT !.got = g]
<1>1. TypeInv /\ client \in [Clients -> Handlers] /\ HandlerInv(h)
  BY DEF Inv, TypeInv
<1>2. h.pc = "history" /\ n < h.snap.len /\ UNCHANGED <<heap, history, sent, firing, subs>>
  BY DEF WriteHistory, Sent
<1>3. /\ h \in Handlers /\ Len(h.msgs) <= Buffer /\ Fits(h.snap) /\ h.got \in Seq(Messages)
      /\ n \in Nat /\ h.snap.len \in Nat
  BY <1>1, HandlerTypes
<1>4. client' = [client EXCEPT ![c] = k]
  BY <1>1 DEF WriteHistory, Sent
<1>5. c \notin subs
  BY <1>2 DEF Inv, Subscribers
<1>6. v = Cell(h.snap, n + 1) /\ v \in Messages
  <2>1. n + 1 \in 1 .. h.snap.len
    BY <1>2, <1>3
  <2>2. Value(h.snap)[n + 1] = Cell(h.snap, n + 1)
    BY <1>1, <1>3, <2>1, ValueCells
  <2> QED BY <1>1, <1>3, <2>1, <2>2, CellIndex
<1> HIDE DEF v
<1>7. /\ g \in Seq(Messages) /\ Len(g) = n + 1 /\ g[n + 1] = v
      /\ \A i \in 1 .. n : g[i] = h.got[i]
  BY <1>3, <1>6, AppendProperties
<1> HIDE DEF g
<1>8. /\ k.pc = h.pc /\ k.conn = h.conn /\ k.snap = h.snap /\ k.msgs = h.msgs
      /\ k.got = g /\ k \in Handlers
  BY <1>3, <1>7 DEF Handlers
<1> HIDE DEF k
<1>9. /\ h.snap.array = history.array =>
           h.snap.first + h.snap.len <= history.first + history.len
      /\ \A i \in 1 .. n : h.got[i] = Cell(h.snap, i)
  BY <1>1, <1>2 DEF HandlerInv, SendsKept
<1>10. PICK base \in Nat : /\ base + h.snap.len <= Recorded
                           /\ \A i \in 1 .. h.snap.len : Cell(h.snap, i) = base + i
  BY <1>1, <1>2 DEF HandlerInv, SendsKept
<1>11. ASSUME NEW i \in 1 .. Len(g) PROVE g[i] = Cell(h.snap, i)
  <2>1. CASE i \in 1 .. n
    BY <1>7, <1>9, <2>1
  <2>2. CASE i = n + 1
    BY <1>6, <1>7, <2>2
  <2> QED BY <1>3, <1>7, <2>1, <2>2
<1>12. SendsKept(k)
  <2>1. Len(g) <= h.snap.len
    BY <1>2, <1>3, <1>7
  <2> QED BY <1>8, <1>9, <1>10, <1>11, <2>1 DEF SendsKept
<1>13. InTurn(k)
  <2>1. h.msgs = <<>>
    BY <1>1, <1>2 DEF HandlerInv, Staged
  <2>2. g \o <<>> = g
    BY <1>7, ConcatEmptySeq
  <2>3. ASSUME NEW i \in 1 .. Len(g) PROVE g[i] = base + i
    <3>1. i \in 1 .. h.snap.len
      BY <1>2, <1>3, <1>7
    <3> QED BY <1>10, <1>11, <3>1
  <2>4. sent \in Nat /\ Recorded \in Nat /\ Recorded <= sent
    BY <1>1, Numbers
  <2>5. base + Len(g) <= sent
    BY <1>2, <1>3, <1>7, <1>10, <2>4
  <2>6. UpTo(g, sent)
    BY <1>7, <2>3, <2>4, <2>5, Successive
  <2> QED BY <1>8, <2>1, <2>2, <2>6 DEF InTurn
<1>14. HandlerInv(k)
  BY <1>1, <1>2, <1>8, <1>12, <1>13 DEF HandlerInv, Staged, Complete
<1> QED BY <1>2, <1>3, <1>4, <1>5, <1>8, <1>14, HandlerStep

LEMMA OffStep ==
  ASSUME Inv, NEW c \in Clients, client' = [client EXCEPT ![c] = Off],
         UNCHANGED <<heap, history, sent, firing>>, subs' = subs \ {c}
  PROVE  Inv'
<1>1. TypeInv /\ Off.pc = "off"
  BY DEF Inv, Off
<1> QED BY <1>1, OffInv, HandlerStep

LEMMA FailHistoryInv == ASSUME Inv, NEW c \in Clients, FailHistory(c) PROVE Inv'
<1>1. c \notin subs
  BY DEF Inv, Subscribers, FailHistory
<1> QED BY <1>1, OffStep DEF FailHistory

LEMMA DeleteSubscriberInv == ASSUME Inv, NEW c \in Clients, DeleteSubscriber(c) PROVE Inv'
BY OffStep DEF DeleteSubscriber

LEMMA AddSubscriberInv == ASSUME Inv, NEW c \in Clients, AddSubscriber(c) PROVE Inv'
<1> DEFINE h == client[c]
           k == [h EXCEPT !.pc = "live"]
<1>1. TypeInv /\ client \in [Clients -> Handlers] /\ HandlerInv(h)
  BY DEF Inv, TypeInv
<1>2. /\ h.pc = "history" /\ Len(h.got) = h.snap.len /\ subs' = subs \cup {c}
      /\ UNCHANGED <<heap, history, sent, firing>>
  BY DEF AddSubscriber, Sent
<1>3. /\ h \in Handlers /\ Len(h.msgs) <= Buffer /\ Fits(h.snap) /\ h.got \in Seq(Messages)
      /\ h.snap.len \in Nat
  BY <1>1, HandlerTypes
<1>4. client' = [client EXCEPT ![c] = k]
  BY <1>1 DEF AddSubscriber, Move
<1>5. /\ k.pc = "live" /\ k.conn = h.conn /\ k.snap = h.snap /\ k.msgs = h.msgs
      /\ k.got = h.got /\ k \in Handlers
  BY <1>3 DEF Handlers
<1> HIDE DEF k
<1>6. Live(k) = <<>>
  <2>1. h.msgs = <<>>
    BY <1>1, <1>2 DEF HandlerInv, Staged
  <2>2. SubSeq(h.got, h.snap.len + 1, h.snap.len) = <<>>
    <3>1. h.snap.len < h.snap.len + 1 /\ h.snap.len \in Int /\ h.snap.len + 1 \in Int
      BY <1>3
    <3> QED BY <3>1, SubSeqEmpty
  <2>3. <<>> \o <<>> = <<>>
    BY EmptySeq, ConcatEmptySeq
  <2> QED BY <1>2, <1>5, <2>1, <2>2, <2>3 DEF Live
<1>7. Complete(k)
  <2>1. k.snap.len <= Len(k.got)
    BY <1>2, <1>3, <1>5
  <2> QED BY <1>6, <2>1, EmptyRuns DEF Complete
<1>8. HandlerInv(k)
  BY <1>1, <1>2, <1>5, <1>7 DEF HandlerInv, Staged, SendsKept, InTurn
<1> QED BY <1>2, <1>3, <1>4, <1>5, <1>8, HandlerStep

LEMMA WriteMessageInv == ASSUME Inv, NEW c \in Clients, WriteMessage(c) PROVE Inv'
<1> DEFINE h == client[c]
           g == Append(h.got, Head(h.msgs))
           m == Tail(h.msgs)
           k == [h EXCEPT !.got = g, !.msgs = m]
<1>1. TypeInv /\ client \in [Clients -> Handlers] /\ HandlerInv(h)
  BY DEF Inv, TypeInv
<1>2. /\ h.pc = "live" /\ h.msgs # <<>> /\ UNCHANGED <<heap, history, sent, firing, subs>>
  BY DEF WriteMessage
<1>3. /\ h \in Handlers /\ Len(h.msgs) <= Buffer /\ Fits(h.snap) /\ h.got \in Seq(Messages)
      /\ h.snap.len \in Nat /\ h.msgs \in Seq(1 .. MaxLog) /\ h.msgs \in Seq(Messages)
      /\ Len(h.msgs) \in Nat /\ Len(h.got) \in Nat
  BY <1>1, HandlerTypes
<1>4. client' = [client EXCEPT ![c] = k]
  BY <1>1 DEF WriteMessage
<1>5. c \in subs
  BY <1>2 DEF Inv, Subscribers
<1>6. Head(h.msgs) \in Messages /\ m \in Seq(1 .. MaxLog) /\ m \in Seq(Messages)
      /\ Len(m) = Len(h.msgs) - 1
  BY <1>2, <1>3, HeadTailProperties
<1>7. g \in Seq(Messages) /\ Len(g) = Len(h.got) + 1
  BY <1>3, <1>6, AppendProperties
<1>8. g \o m = h.got \o h.msgs
  BY <1>2, <1>3, HeadMoves
<1>9. h.snap.len <= Len(h.got)
  BY <1>1, <1>2 DEF HandlerInv, Complete
<1>10. SubSeq(g, h.snap.len + 1, Len(g)) \o m
         = SubSeq(h.got, h.snap.len + 1, Len(h.got)) \o h.msgs
  <2> DEFINE live == SubSeq(h.got, h.snap.len + 1, Len(h.got))
  <2>1. live \in Seq(Messages)
    BY <1>3, Suffix
  <2>2. SubSeq(g, h.snap.len + 1, Len(g)) = Append(live, Head(h.msgs))
    BY <1>3, <1>6, <1>9, SuffixAppend
  <2> HIDE DEF live
  <2>3. Append(live, Head(h.msgs)) \o Tail(h.msgs) = live \o h.msgs
    BY <1>2, <1>3, <2>1, HeadMoves
  <2> QED BY <2>2, <2>3 DEF live
<1> HIDE DEF g, m
<1>11. /\ k.pc = h.pc /\ k.conn = h.conn /\ k.snap = h.snap /\ k.msgs = m
       /\ k.got = g /\ k \in Handlers
  BY <1>3, <1>6, <1>7 DEF Handlers
<1> HIDE DEF k
<1>12. Complete(k)
  <2>1. k.snap.len <= Len(k.got)
    BY <1>3, <1>7, <1>9, <1>11
  <2>2. Live(k) = Live(h)
    BY <1>10, <1>11 DEF Live
  <2> QED BY <1>1, <1>2, <1>11, <2>1, <2>2 DEF HandlerInv, Complete
<1>13. HandlerInv(k)
  BY <1>1, <1>2, <1>8, <1>11, <1>12 DEF HandlerInv, Staged, SendsKept, InTurn
<1>14. Len(k.msgs) <= Buffer
  BY <1>3, <1>6, <1>11
<1>15. subs' = subs \cup {c}
  BY <1>2, <1>5
<1> QED BY <1>2, <1>3, <1>4, <1>11, <1>13, <1>14, <1>15, HandlerStep

\* A connection is closed, and the handler's place stays or becomes the end.
LEMMA ClosedStep ==
  ASSUME Inv, NEW c \in Clients, NEW pc \in {client[c].pc, "delete"},
         pc = client[c].pc \/ client[c].pc = "live",
         client' = [client EXCEPT ![c].pc = pc, ![c].conn = "closed"],
         UNCHANGED <<heap, history, sent, firing, subs>>
  PROVE  Inv'
<1> DEFINE h == client[c]
           k == [h EXCEPT !.pc = pc, !.conn = "closed"]
<1>1. TypeInv /\ client \in [Clients -> Handlers] /\ HandlerInv(h)
  BY DEF Inv, TypeInv
<1>2. h \in Handlers /\ Len(h.msgs) <= Buffer /\ Fits(h.snap)
  BY <1>1, HandlerTypes
<1>3. client' = [client EXCEPT ![c] = k]
  BY <1>1
<1>4. /\ k.pc = pc /\ k.conn = "closed" /\ k.snap = h.snap /\ k.msgs = h.msgs
      /\ k.got = h.got /\ k \in Handlers
  BY <1>2 DEF Handlers
<1> HIDE DEF k
<1>5. subs' = IF k.pc \in {"live", "delete"} THEN subs \cup {c} ELSE subs \ {c}
  BY <1>4 DEF Inv, Subscribers
<1>6. HandlerInv(k)
  BY <1>1, <1>4 DEF HandlerInv, Staged, SendsKept, InTurn, Complete
<1> QED BY <1>2, <1>3, <1>4, <1>5, <1>6, HandlerStep

LEMMA LeaveInv == ASSUME Inv, NEW c \in Clients, Leave(c) PROVE Inv'
BY ClosedStep DEF Leave

LEMMA ClosesInv ==
  ASSUME Inv, NEW c \in Clients, CloseSlow(c) \/ Disconnect(c) PROVE Inv'
<1>1. client \in [Clients -> Handlers]
  BY DEF Inv, TypeInv
<1>2. client[c] \in Handlers
  BY <1>1
<1>3. client' = [client EXCEPT ![c].conn = "closed"]
      /\ UNCHANGED <<heap, history, sent, firing, subs>>
  BY DEF CloseSlow, Disconnect
<1>4. client' = [client EXCEPT ![c].pc = client[c].pc, ![c].conn = "closed"]
  BY <1>1, <1>2, <1>3 DEF Handlers
<1> QED BY <1>3, <1>4, ClosedStep

LEMMA NextInv == Inv /\ [Next]_vars => Inv'
<1> SUFFICES ASSUME Inv, [Next]_vars PROVE Inv'
  OBVIOUS
<1>1. CASE Send
  BY <1>1, SendInv
<1>2. CASE Record
  BY <1>2, RecordInv
<1>3. ASSUME NEW c \in Clients, Accept(c) PROVE Inv'
  BY <1>3, AcceptInv
<1>4. ASSUME NEW c \in Clients, Serve(c) PROVE Inv'
  BY <1>4, SnapshotInv, WriteHistoryInv, FailHistoryInv, AddSubscriberInv, WriteMessageInv,
     LeaveInv, DeleteSubscriberInv DEF Serve
<1>5. ASSUME NEW c \in Clients, CloseSlow(c) \/ Disconnect(c) PROVE Inv'
  BY <1>5, ClosesInv
<1>6. CASE UNCHANGED vars
  <2>1. UNCHANGED <<heap, history, sent, firing, subs, client>>
    BY <1>6 DEF vars
  <2>2. TypeInv' /\ HistoryInv' /\ Subscribers'
    BY <2>1 DEF Inv, TypeInv, Fits, HistoryInv, Subscribers, Recorded, Cell
  <2>3. ASSUME NEW c \in Clients PROVE HandlerInv(client[c])'
    <3>1. HandlerInv(client[c])
      BY DEF Inv
    <3> QED BY <2>1, <3>1 DEF HandlerInv, Staged, SendsKept, InTurn, Complete, Live, Recorded, Cell
  <2> QED BY <2>2, <2>3 DEF Inv
<1> QED BY <1>1, <1>2, <1>3, <1>4, <1>5, <1>6 DEF Next

LEMMA Invariance == Spec => []Inv
BY InitInv, NextInv, PTL DEF Spec

-----------------------------------------------------------------------------
(* The properties. *)

\* The types of the variables; a slice lies in its array, a queue in its buffer.
THEOREM TypeCorrect == Spec => []TypeOK
<1>1. Inv => TypeOK
  BY TypeInvOK DEF Inv
<1> QED BY <1>1, Invariance, PTL

\* The history is the last Limit messages, in order.
THEOREM HistoryIsTheLast == Spec => []HistoryIsLast
<1>1. Inv => HistoryIsLast
  <2> SUFFICES ASSUME Inv PROVE HistoryIsLast
    OBVIOUS
  <2>1. TypeInv /\ Fits(history) /\ HistoryInv
    BY DEF Inv, TypeInv
  <2>2. \A i \in 1 .. history.len : Value(history)[i] = Cell(history, i)
    BY <2>1, ValueCells
  <2> QED BY <2>1, <2>2 DEF HistoryInv, HistoryIsLast
<1> QED BY <1>1, Invariance, PTL

\* Recording a message never overwrites one that a subscriber has yet to send,
\* although the slice it sends from shares its array with the history.
THEOREM SnapshotsAreKept == Spec => []SnapshotKept
<1>1. Inv => SnapshotKept
  <2> SUFFICES ASSUME Inv, NEW c \in Clients, client[c].pc = "history"
               PROVE  LET snap == Value(client[c].snap) IN
                      /\ client[c].got = SubSeq(snap, 1, Len(client[c].got))
                      /\ \A i \in 1 .. Len(snap) : snap[i] = snap[1] + i - 1 /\ snap[i] # Blank
    BY DEF SnapshotKept, Sent
  <2> DEFINE k == client[c]
             snap == Value(k.snap)
             got == k.got
             copy == SubSeq(snap, 1, Len(got))
  <2>1. /\ TypeInv /\ Fits(k.snap) /\ k.snap.len \in Nat /\ got \in Seq(Messages)
        /\ Len(got) \in Nat
    BY HandlerTypes DEF Inv
  <2>2. /\ snap \in Seq(Messages) /\ Len(snap) = k.snap.len
        /\ \A i \in 1 .. k.snap.len : snap[i] = Cell(k.snap, i)
    BY <2>1, ValueCells
  <2>3. SendsKept(k)
    BY DEF Inv, HandlerInv
  <2>4. Len(got) <= k.snap.len /\ \A i \in 1 .. Len(got) : got[i] = Cell(k.snap, i)
    BY <2>3 DEF SendsKept
  <2>5. PICK base \in Nat : \A i \in 1 .. k.snap.len : Cell(k.snap, i) = base + i
    BY <2>3 DEF SendsKept
  <2> HIDE DEF k, snap, got
  <2>6. got = copy
    <3>1. \A i \in 1 .. Len(got) : snap[i] \in Messages
      BY <2>1, <2>2, <2>4, ElementOfSeq
    <3>2. /\ copy \in Seq(Messages)
          /\ Len(copy) = IF 1 <= Len(got) THEN Len(got) - 1 + 1 ELSE 0
          /\ \A i \in 1 .. Len(got) - 1 + 1 : copy[i] = snap[1 + i - 1]
      BY <2>1, <3>1, SubSeqProperties
    <3> HIDE DEF copy
    <3>3. Len(copy) = Len(got)
      BY <2>1, <3>2
    <3>4. ASSUME NEW i \in 1 .. Len(got) PROVE copy[i] = got[i]
      <4>1. copy[i] = snap[1 + i - 1] /\ 1 + i - 1 = i
        BY <2>1, <3>2
      <4>2. snap[i] = Cell(k.snap, i)
        BY <2>1, <2>2, <2>4
      <4> QED BY <2>4, <4>1, <4>2
    <3> QED BY <2>1, <3>2, <3>3, <3>4, SeqEqual
  <2>7. ASSUME NEW i \in 1 .. Len(snap) PROVE snap[i] = snap[1] + i - 1 /\ snap[i] # Blank
    <3>1. i \in 1 .. k.snap.len /\ 1 \in 1 .. k.snap.len
      BY <2>1, <2>2
    <3>2. snap[i] = base + i /\ snap[1] = base + 1
      BY <2>2, <2>5, <3>1
    <3> QED BY <3>1, <3>2 DEF Blank
  <2> QED BY <2>6, <2>7 DEF k, snap, got
<1> QED BY <1>1, Invariance, PTL

\* A client never gets a message twice, nor an older one after a newer one.
THEOREM MessagesInOrder == Spec => []InOrder
<1>1. Inv => InOrder
  BY DEF Inv, HandlerInv, InTurn, UpTo, InOrder
<1> QED BY <1>1, Invariance, PTL

\* A subscriber that is not being closed has missed nothing since it subscribed.
THEOREM SubscribersComplete == Spec => []SubscriberComplete
<1>1. Inv => SubscriberComplete
  <2> SUFFICES ASSUME Inv, NEW c \in subs, client[c].conn = "open"
               PROVE  EndsAt(LivePart(c), sent)
    BY DEF SubscriberComplete, EndsAt
  <2>1. c \in Clients
    BY DEF Inv, TypeInv
  <2>2. client[c].pc = "live"
    BY <2>1 DEF Inv, Subscribers, HandlerInv, Staged
  <2> QED BY <2>1, <2>2 DEF Inv, HandlerInv, Complete, Live, LivePart, Sent
<1> QED BY <1>1, Invariance, PTL
-----------------------------------------------------------------------------
(* The log server implements the feed. *)

\* Slices of two sequences that agree there.
LEMMA SubSeqAgree ==
  ASSUME NEW s \in Seq(Messages), NEW t \in Seq(Messages), NEW m \in Nat \ {0}, NEW n \in Int,
         n <= Len(s), n <= Len(t), \A i \in m .. n : s[i] = t[i]
  PROVE  SubSeq(s, m, n) = SubSeq(t, m, n)
<1> DEFINE u == SubSeq(s, m, n)
           v == SubSeq(t, m, n)
<1>1. \A i \in m .. n : s[i] \in Messages /\ t[i] \in Messages
  BY LenProperties, ElementOfSeq
<1>2. /\ u \in Seq(Messages) /\ Len(u) = IF m <= n THEN n - m + 1 ELSE 0
      /\ \A i \in 1 .. n - m + 1 : u[i] = s[m + i - 1]
  BY <1>1, SubSeqProperties
<1>3. /\ v \in Seq(Messages) /\ Len(v) = IF m <= n THEN n - m + 1 ELSE 0
      /\ \A i \in 1 .. n - m + 1 : v[i] = t[m + i - 1]
  BY <1>1, SubSeqProperties
<1> HIDE DEF u, v
<1>4. ASSUME NEW i \in 1 .. Len(u) PROVE u[i] = v[i]
  <2>1. i \in 1 .. n - m + 1 /\ m + i - 1 \in m .. n
    BY <1>2
  <2> QED BY <1>2, <1>3, <2>1
<1>5. Len(u) = Len(v)
  BY <1>2, <1>3
<1>6. u = v
  BY <1>2, <1>3, <1>4, <1>5, SeqEqual
<1> QED BY <1>6 DEF u, v

\* What a client is sending from is left as it is, read as a whole.
LEMMA SnapshotValue ==
  ASSUME Inv, Record, NEW c \in Clients, client[c].pc = "history"
  PROVE  Value(client[c].snap)' = Value(client[c].snap)
<1> DEFINE s == client[c].snap
           a == s.array
<1>1. TypeInv /\ Recording /\ client' = client
  BY RecordCells DEF Record, Inv
<1>2. s.len \in Nat /\ s.first \in Nat \ {0} /\ Fits(s) /\ s \in Slice
  BY <1>1, HandlerTypes
<1>3. a \in 1 .. Len(heap) /\ heap \in Seq(Seq(Messages)) /\ Len(heap) \in Nat
  BY <1>1, <1>2, LenProperties DEF Fits, Slice, TypeInv
<1>4. /\ heap' \in Seq(Seq(Messages)) /\ Len(heap') >= Len(heap)
      /\ Len(heap'[a]) = Len(heap[a])
  BY <1>1, <1>3 DEF Recording
<1>5. heap[a] \in Seq(Messages) /\ Len(heap[a]) \in Nat
  BY <1>3, ElementOfSeq, LenProperties
<1>6. heap'[a] \in Seq(Messages)
  <2>1. Len(heap') \in Nat
    BY <1>4, LenProperties
  <2> QED BY <1>3, <1>4, <2>1, ElementOfSeq
<1>7. s.first + s.len - 1 <= Len(heap[a])
  <2>1. s.first + s.len <= Len(heap[a]) + 1
    BY <1>2 DEF Fits
  <2>2. \A x, y, z \in Int : x + y <= z + 1 => x + y - 1 <= z
    OBVIOUS
  <2>3. s.first \in Int /\ s.len \in Int /\ Len(heap[a]) \in Int
    BY <1>2, <1>5
  <2> HIDE DEF s, a
  <2> QED BY <2>1, <2>2, <2>3
<1>8. ASSUME NEW j \in s.first .. s.first + s.len - 1 PROVE heap'[a][j] = heap[a][j]
  <2>1. PICK i \in 1 .. s.len : s.first + i - 1 = j
    <3>1. j - s.first + 1 \in 1 .. s.len /\ s.first + (j - s.first + 1) - 1 = j
      BY <1>2
    <3> QED BY <3>1
  <2>2. Cell(s, i)' = Cell(s, i)
    BY SnapshotCells
  <2> QED BY <1>1, <2>1, <2>2 DEF Cell
<1>9. SubSeq(heap'[a], s.first, s.first + s.len - 1) = SubSeq(heap[a], s.first, s.first + s.len - 1)
  <2>1. s.first + s.len - 1 \in Int
    BY <1>2
  <2> QED BY <1>2, <1>4, <1>5, <1>6, <1>7, <1>8, <2>1, SubSeqAgree
<1> QED BY <1>1, <1>9 DEF Value

\* The history, read as a whole, is what the feed hands out.
LEMMA HistoryIsLatest == ASSUME Inv PROVE Value(history) = Feed!Latest
<1> DEFINE n == IF Recorded < Limit THEN Recorded ELSE Limit
<1>1. TypeInv /\ Fits(history) /\ HistoryInv /\ history.len = n
  BY DEF Inv, TypeInv, HistoryInv
<1>2. /\ Value(history) \in Seq(Messages) /\ Len(Value(history)) = n
      /\ \A i \in 1 .. n : Value(history)[i] = Recorded - n + i
  BY <1>1, ValueCells DEF HistoryInv
<1>3. Value(history) = [i \in 1 .. n |-> Value(history)[i]]
  BY <1>2, LenProperties
<1> QED BY <1>2, <1>3 DEF Feed!Latest

\* A step of one client: the feeds of the others stay as they are.
LEMMA FeedBecomes ==
  ASSUME TypeInv, NEW c \in Clients, NEW k, client' = [client EXCEPT ![c] = k],
         UNCHANGED <<heap, sent, firing>>
  PROVE  Feed!Becomes(c, FeedOf(k))
<1>1. client \in [Clients -> Handlers]
  BY DEF TypeInv
<1>2. \A d \in Clients : client'[d] = IF d = c THEN k ELSE client[d]
  BY <1>1
<1>3. \A d \in Clients : FeedOf(client[d])' = IF d = c THEN FeedOf(k) ELSE FeedOf(client[d])
  BY <1>2 DEF FeedOf, Value
<1>4. Recorded' = Recorded
  BY DEF Recorded
<1> QED BY <1>3, <1>4 DEF Feed!Becomes

\* The feed of a client, by what its handler is doing.
LEMMA FeedStages ==
  ASSUME Inv, NEW c \in Clients
  PROVE  LET k == client[c] IN
         /\ k.pc \in {"off", "snapshot"} => FeedOf(k) = Feed!Gone
         /\ k.pc = "history" =>
              FeedOf(k) = [state |-> "history", open |-> k.conn = "open", got |-> k.got,
                           todo |-> SubSeq(Value(k.snap), Len(k.got) + 1, k.snap.len)]
         /\ k.pc \in {"live", "delete"} =>
              FeedOf(k) = [state |-> "live", open |-> k.conn = "open", got |-> k.got,
                           todo |-> k.msgs]
         /\ k.pc \in {"off", "snapshot", "history", "live", "delete"}
<1> DEFINE k == client[c]
<1>1. k.pc \in {"off", "snapshot", "history", "live", "delete"}
  BY HandlerTypes DEF Inv, Handlers
<1>2. k.pc \in {"off", "snapshot"} => k.msgs = <<>> /\ k.got = <<>>
  BY DEF Inv, HandlerInv, Staged
<1> HIDE DEF k
<1>3. k.pc \in {"off", "snapshot"} => FeedOf(k) = Feed!Gone
  BY <1>2 DEF FeedOf, Feed!Gone
<1>4. k.pc = "history" =>
        FeedOf(k) = [state |-> "history", open |-> k.conn = "open", got |-> k.got,
                     todo |-> SubSeq(Value(k.snap), Len(k.got) + 1, k.snap.len)]
  BY DEF FeedOf
<1>5. k.pc \in {"live", "delete"} =>
        FeedOf(k) = [state |-> "live", open |-> k.conn = "open", got |-> k.got, todo |-> k.msgs]
  BY DEF FeedOf
<1> QED BY <1>1, <1>3, <1>4, <1>5 DEF k

(* What the steps of the feed make of a client's, field by field. *)

HasFields(f) == f = [state |-> f.state, open |-> f.open, todo |-> f.todo, got |-> f.got]

LEMMA FeedHasFields == ASSUME NEW k PROVE HasFields(FeedOf(k))
<1> DEFINE stage == CASE k.pc \in {"off", "snapshot"} -> "gone"
                      [] k.pc = "history" -> "history"
                      [] k.pc \in {"live", "delete"} -> "live"
           open == k.conn = "open" /\ k.pc \notin {"off", "snapshot"}
           rest == IF k.pc = "history"
                   THEN SubSeq(Value(k.snap), Len(k.got) + 1, k.snap.len) ELSE k.msgs
<1>1. PICK s, o, t, g : s = stage /\ o = open /\ t = rest /\ g = k.got
  <2> HIDE DEF stage, open, rest
  <2> QED OBVIOUS
<1>2. FeedOf(k) = [state |-> s, open |-> o, todo |-> t, got |-> g]
  BY <1>1, Zenon DEF FeedOf
<1> HIDE DEF stage, open, rest
<1> QED BY <1>2 DEF HasFields

LEMMA QueuedFields ==
  ASSUME NEW f, NEW g, NEW m, HasFields(f), HasFields(g),
         g.state = f.state, g.open = f.open, g.todo = Append(f.todo, m), g.got = f.got
  PROVE  g = Feed!Queued(f, m)
<1>1. PICK x : x = Append(f.todo, m)
  OBVIOUS
<1>2. [f EXCEPT !.todo = x] = [state |-> f.state, open |-> f.open, todo |-> x, got |-> f.got]
  BY DEF HasFields
<1>3. g = [state |-> f.state, open |-> f.open, todo |-> x, got |-> f.got]
  BY <1>1 DEF HasFields
<1> QED BY <1>1, <1>2, <1>3, Zenon DEF Feed!Queued

LEMMA DeliveredFields ==
  ASSUME NEW f, NEW g, HasFields(f), HasFields(g),
         g.state = f.state, g.open = f.open,
         g.todo = Tail(f.todo), g.got = Append(f.got, Head(f.todo))
  PROVE  g = Feed!Delivered(f)
<1>1. PICK x, y : x = Append(f.got, Head(f.todo)) /\ y = Tail(f.todo)
  OBVIOUS
<1>2. [f EXCEPT !.got = x, !.todo = y]
        = [state |-> f.state, open |-> f.open, todo |-> y, got |-> x]
  <2> DEFINE e == [f EXCEPT !.got = x]
  <2>1. e = [state |-> f.state, open |-> f.open, todo |-> f.todo, got |-> x]
    BY DEF HasFields
  <2>2. [f EXCEPT !.got = x, !.todo = y] = [e EXCEPT !.todo = y]
    OBVIOUS
  <2> HIDE DEF e
  <2>3. [e EXCEPT !.todo = y] = [state |-> f.state, open |-> f.open, todo |-> y, got |-> x]
    BY <2>1
  <2> QED BY <2>2, <2>3
<1>3. g = [state |-> f.state, open |-> f.open, todo |-> y, got |-> x]
  BY <1>1 DEF HasFields
<1> QED BY <1>1, <1>2, <1>3, Zenon DEF Feed!Delivered

LEMMA ClosedFields ==
  ASSUME NEW f, NEW g, HasFields(f), HasFields(g),
         g.state = f.state, g.open = FALSE, g.todo = f.todo, g.got = f.got
  PROVE  g = Feed!Closed(f)
<1>1. PICK x : x = FALSE
  OBVIOUS
<1>2. [f EXCEPT !.open = x] = [state |-> f.state, open |-> x, todo |-> f.todo, got |-> f.got]
  BY DEF HasFields
<1>3. g.open = x
  BY <1>1, Zenon
<1>4. g = [state |-> f.state, open |-> x, todo |-> f.todo, got |-> f.got]
  BY <1>3 DEF HasFields
<1> QED BY <1>1, <1>2, <1>4, Zenon DEF Feed!Closed

LEMMA SendFeeds == ASSUME Inv, Send PROVE Feed!Log
<1>1. /\ TypeInv /\ ~firing /\ sent' = sent + 1 /\ firing' = TRUE
      /\ UNCHANGED <<heap, history, subs>> /\ sent \in Nat
  BY Numbers DEF Send, Inv
<1>2. sent = Recorded /\ Recorded' = Recorded
  BY <1>1 DEF Recorded
<1>3. ASSUME NEW c \in Clients
      PROVE  FeedOf(client[c])' = Feed!Offered(FeedOf(client[c]), sent')
  <2> DEFINE k == client[c]
             l == client'[c]
             m == Append(k.msgs, sent + 1)
             open == k.conn = "open"
             still == l.conn = "open"
  <2>1. l = IF c \notin subs THEN k
            ELSE IF Len(k.msgs) < Buffer THEN [k EXCEPT !.msgs = m]
            ELSE [k EXCEPT !.conn = IF @ = "open" THEN "closing" ELSE @]
    BY DEF Send
  <2>2. k \in Handlers /\ (c \in subs <=> k.pc \in {"live", "delete"})
    BY <1>1, HandlerTypes DEF Inv, Subscribers
  <2>3. CASE c \notin subs
    <3>1. l = k
      BY <2>1, <2>3
    <3>2. FeedOf(client[c])' = FeedOf(k)
      BY <1>1, <3>1 DEF FeedOf, Value
    <3>3. FeedOf(k).state # "live"
      BY <2>2, <2>3 DEF FeedOf, Handlers
    <3> QED BY <3>2, <3>3 DEF Feed!Offered
  <2>4. ASSUME c \in subs
        PROVE  /\ FeedOf(k) = [state |-> "live", open |-> open, todo |-> k.msgs,
                               got |-> k.got]
               /\ FeedOf(client[c])' = [state |-> "live", open |-> still, todo |-> l.msgs,
                                        got |-> l.got]
    <3>1. k.pc \in {"live", "delete"} /\ l.pc = k.pc
      BY <2>1, <2>2, <2>4 DEF Handlers
    <3> HIDE DEF l
    <3>2. FeedOf(client[c])' = [state |-> "live", open |-> still, todo |-> l.msgs,
                                got |-> l.got]
      BY <3>1 DEF FeedOf, l
    <3> QED BY <3>1, <3>2, FeedStages
  <2>5. CASE c \in subs /\ Len(k.msgs) < Buffer
    <3>1. l.msgs = m /\ still = open /\ l.got = k.got
      BY <2>1, <2>2, <2>5 DEF Handlers
    <3> HIDE DEF k, l, m, open, still
    <3>2. Feed!Offered(FeedOf(k), sent') = Feed!Queued(FeedOf(k), sent + 1)
      BY <1>1, <2>4, <2>5 DEF Feed!Offered
    <3>3. /\ HasFields(FeedOf(k)) /\ HasFields(FeedOf(client[c])')
          /\ FeedOf(client[c])'.todo = Append(FeedOf(k).todo, sent + 1)
      BY <2>4, <2>5, <3>1, FeedHasFields DEF m, HasFields
    <3>4. /\ FeedOf(client[c])'.state = FeedOf(k).state
          /\ FeedOf(client[c])'.open = FeedOf(k).open
          /\ FeedOf(client[c])'.got = FeedOf(k).got
      BY <2>4, <2>5, <3>1
    <3>5. FeedOf(client[c])' = Feed!Queued(FeedOf(k), sent + 1)
      BY <3>3, <3>4, QueuedFields
    <3> QED BY <3>2, <3>5 DEF k
  <2>6. CASE c \in subs /\ ~(Len(k.msgs) < Buffer)
    <3>1. l.msgs = k.msgs /\ still = FALSE /\ l.got = k.got
      BY <2>1, <2>2, <2>6 DEF Handlers
    <3> HIDE DEF k, l, m, open, still
    <3>2. Feed!Offered(FeedOf(k), sent') = Feed!Closed(FeedOf(k))
      BY <2>4, <2>6 DEF Feed!Offered
    <3>3. HasFields(FeedOf(k)) /\ HasFields(FeedOf(client[c])')
      BY <2>4, <2>6, FeedHasFields DEF HasFields
    <3>4. /\ FeedOf(client[c])'.state = FeedOf(k).state
          /\ FeedOf(client[c])'.open = FALSE
          /\ FeedOf(client[c])'.todo = FeedOf(k).todo
          /\ FeedOf(client[c])'.got = FeedOf(k).got
      BY <2>4, <2>6, <3>1
    <3>5. FeedOf(client[c])' = Feed!Closed(FeedOf(k))
      BY <3>3, <3>4, ClosedFields
    <3> QED BY <3>2, <3>5 DEF k
  <2> QED BY <2>3, <2>5, <2>6
<1> QED BY <1>1, <1>2, <1>3 DEF Feed!Log

LEMMA RecordFeeds == ASSUME Inv, Record PROVE Feed!Record
<1>1. TypeInv /\ firing' = FALSE /\ UNCHANGED <<sent, subs, client>>
  BY DEF Record, Inv
<1>2. ASSUME NEW c \in Clients PROVE FeedOf(client[c])' = FeedOf(client[c])
  BY <1>1, SnapshotValue DEF FeedOf
<1>3. Recorded' = sent
  BY <1>1 DEF Recorded
<1> QED BY <1>1, <1>2, <1>3 DEF Feed!Record

LEMMA OffFeeds ==
  ASSUME Inv, NEW c \in Clients, client' = [client EXCEPT ![c] = Off],
         UNCHANGED <<heap, sent, firing>>
  PROVE  Feed!Leave(c)
<1>1. FeedOf(Off) = Feed!Gone
  BY DEF FeedOf, Off, Feed!Gone
<1>2. Feed!Becomes(c, FeedOf(Off))
  BY FeedBecomes DEF Inv
<1> QED BY <1>1, <1>2 DEF Feed!Leave

LEMMA AcceptFeeds == ASSUME Inv, NEW c \in Clients, Accept(c) PROVE Feed!Leave(c)
<1> DEFINE k == [Off EXCEPT !.pc = "snapshot", !.conn = "open"]
<1>1. client' = [client EXCEPT ![c] = k] /\ UNCHANGED <<heap, sent, firing>>
  BY DEF Accept, Inv, TypeInv
<1>2. FeedOf(k) = Feed!Gone
  BY DEF FeedOf, Off, Feed!Gone
<1>3. Feed!Becomes(c, FeedOf(k))
  BY <1>1, FeedBecomes DEF Inv
<1> QED BY <1>2, <1>3 DEF Feed!Leave

LEMMA SnapshotFeeds == ASSUME Inv, NEW c \in Clients, Snapshot(c) PROVE Feed!Connect(c)
<1> DEFINE h == client[c]
           k == [h EXCEPT !.pc = "history", !.snap = history]
           all == Value(history)
<1>1. /\ h.pc = "snapshot" /\ client' = [client EXCEPT ![c] = k]
      /\ UNCHANGED <<heap, sent, firing>>
  BY DEF Snapshot, Inv, TypeInv
<1>2. h \in Handlers /\ TypeInv /\ h.got = <<>>
  BY <1>1, HandlerTypes DEF Inv, HandlerInv, Staged
<1>3. k.pc = "history" /\ k.conn = h.conn /\ k.snap = history /\ k.got = <<>>
  BY <1>2 DEF Handlers
<1>4. SubSeq(all, Len(<<>>) + 1, history.len) = Feed!Latest
  <2>1. all \in Seq(Messages) /\ Len(all) = history.len
    BY <1>2, ValueCells DEF TypeInv
  <2>2. SubSeq(all, 1, Len(all)) = all /\ Len(<<>>) + 1 = 1
    BY <2>1, SubSeqFull, EmptySeq
  <2> QED BY <2>1, <2>2, HistoryIsLatest
<1> HIDE DEF k
<1>5. FeedOf(k) = [state |-> "history", open |-> h.conn = "open", todo |-> Feed!Latest, got |-> <<>>]
  BY <1>3, <1>4 DEF FeedOf
<1>6. Feed!Becomes(c, FeedOf(k))
  BY <1>1, <1>2, FeedBecomes
<1>7. FeedOf(h).state = "gone"
  BY <1>1 DEF FeedOf
<1>8. (h.conn = "open") \in BOOLEAN
  OBVIOUS
<1> QED BY <1>5, <1>6, <1>7, <1>8 DEF Feed!Connect

LEMMA WriteHistoryFeeds == ASSUME Inv, NEW c \in Clients, WriteHistory(c) PROVE Feed!Deliver(c)
<1> DEFINE h == client[c]
           open == h.conn = "open"
           n == Len(h.got)
           all == Value(h.snap)
           todo == SubSeq(all, n + 1, h.snap.len)
           k == [h EXCEPT !.got = Append(@, all[n + 1])]
<1>1. /\ h.pc = "history" /\ n < h.snap.len /\ client' = [client EXCEPT ![c] = k]
      /\ UNCHANGED <<heap, sent, firing>>
  BY DEF WriteHistory, Sent, Inv, TypeInv
<1>2. /\ TypeInv /\ h \in Handlers /\ Fits(h.snap) /\ h.got \in Seq(Messages)
      /\ n \in Nat /\ h.snap.len \in Nat
  BY HandlerTypes DEF Inv
<1>3. all \in Seq(Messages) /\ Len(all) = h.snap.len
  BY <1>2, ValueCells
<1>4. /\ Head(todo) = all[n + 1] /\ Tail(todo) = SubSeq(all, n + 1 + 1, h.snap.len)
      /\ todo # <<>>
  <2>1. n + 1 \in 1 .. Len(all) /\ h.snap.len \in n + 1 .. Len(all)
    BY <1>1, <1>2, <1>3
  <2>2. /\ Head(todo) = all[n + 1] /\ Tail(todo) = SubSeq(all, n + 1 + 1, h.snap.len)
    BY <1>3, <2>1, HeadTailOfSubSeq
  <2>3. Len(todo) = h.snap.len - (n + 1) + 1
    <3>1. \A i \in n + 1 .. h.snap.len : all[i] \in Messages
      BY <1>2, <1>3, ElementOfSeq
    <3>2. n + 1 \in Int /\ h.snap.len \in Int /\ n + 1 <= h.snap.len
      BY <1>1, <1>2
    <3> QED BY <3>1, <3>2, SubSeqProperties
  <2>4. Len(todo) # 0
    BY <1>1, <1>2, <2>3
  <2> QED BY <2>2, <2>4, EmptySeq
<1>5. /\ k.pc = "history" /\ k.conn = h.conn /\ k.snap = h.snap
      /\ k.got = Append(h.got, all[n + 1])
  BY <1>1, <1>2 DEF Handlers
<1>6. Len(k.got) = n + 1
  <2>1. n + 1 \in 1 .. Len(all)
    BY <1>1, <1>2, <1>3
  <2>2. all[n + 1] \in Messages
    BY <1>3, <2>1, ElementOfSeq
  <2> QED BY <1>2, <1>5, <2>2, AppendProperties
<1>7. FeedOf(h) = [state |-> "history", open |-> open, todo |-> todo, got |-> h.got]
  BY <1>1, FeedStages
<1> HIDE DEF k, todo
<1>8. FeedOf(k) = [state |-> "history", open |-> open,
                   todo |-> Tail(todo), got |-> Append(h.got, Head(todo))]
  <2>1. SubSeq(Value(k.snap), Len(k.got) + 1, k.snap.len) = Tail(todo)
    BY <1>4, <1>5, <1>6
  <2> QED BY <1>4, <1>5, <2>1 DEF FeedOf
<1>9. Feed!Becomes(c, FeedOf(k))
  BY <1>1, <1>2, FeedBecomes
<1> HIDE DEF open
<1>10. FeedOf(k) = Feed!Delivered(FeedOf(h))
  <2>1. /\ FeedOf(k).state = FeedOf(h).state /\ FeedOf(k).open = FeedOf(h).open
        /\ FeedOf(k).todo = Tail(FeedOf(h).todo)
        /\ FeedOf(k).got = Append(FeedOf(h).got, Head(FeedOf(h).todo))
    BY <1>7, <1>8
  <2> QED BY <2>1, FeedHasFields, DeliveredFields
<1>11. FeedOf(h).todo # <<>>
  BY <1>4, <1>7
<1> QED BY <1>9, <1>10, <1>11 DEF Feed!Deliver

LEMMA AddSubscriberFeeds ==
  ASSUME Inv, NEW c \in Clients, AddSubscriber(c) PROVE Feed!Subscribe(c)
<1> DEFINE h == client[c]
           k == [h EXCEPT !.pc = "live"]
<1>1. /\ h.pc = "history" /\ Len(h.got) = h.snap.len /\ ~firing
      /\ client' = [client EXCEPT ![c] = k] /\ UNCHANGED <<heap, sent, firing>>
  BY DEF AddSubscriber, Sent, Move
<1>2. h \in Handlers /\ h.msgs = <<>> /\ h.snap.len \in Nat
  BY <1>1, HandlerTypes DEF Inv, HandlerInv, Staged
<1>3. k.pc = "live" /\ k.conn = h.conn /\ k.got = h.got /\ k.msgs = <<>>
  BY <1>2 DEF Handlers
<1>4. SubSeq(Value(h.snap), Len(h.got) + 1, h.snap.len) = <<>>
  <2>1. h.snap.len < h.snap.len + 1 /\ h.snap.len \in Int /\ h.snap.len + 1 \in Int
    BY <1>2
  <2> QED BY <1>1, <2>1, SubSeqEmpty
<1>5. FeedOf(h) = [state |-> "history", open |-> h.conn = "open", got |-> h.got, todo |-> <<>>]
  BY <1>1, <1>4, FeedStages
<1> HIDE DEF k
<1>6. FeedOf(k) = [state |-> "live", open |-> h.conn = "open", got |-> h.got, todo |-> <<>>]
  BY <1>3 DEF FeedOf
<1>7. Feed!Becomes(c, FeedOf(k))
  BY <1>1, FeedBecomes DEF Inv
<1>8. sent = Recorded
  BY <1>1 DEF Recorded
<1> QED BY <1>5, <1>6, <1>7, <1>8 DEF Feed!Subscribe

LEMMA WriteMessageFeeds == ASSUME Inv, NEW c \in Clients, WriteMessage(c) PROVE Feed!Deliver(c)
<1> DEFINE h == client[c]
           open == h.conn = "open"
           k == [h EXCEPT !.got = Append(@, Head(h.msgs)), !.msgs = Tail(@)]
<1>1. /\ h.pc = "live" /\ h.msgs # <<>> /\ client' = [client EXCEPT ![c] = k]
      /\ UNCHANGED <<heap, sent, firing>>
  BY DEF WriteMessage, Inv, TypeInv
<1>2. h \in Handlers
  BY HandlerTypes DEF Inv
<1>3. /\ k.pc = "live" /\ k.conn = h.conn /\ k.got = Append(h.got, Head(h.msgs))
      /\ k.msgs = Tail(h.msgs)
  BY <1>1, <1>2 DEF Handlers
<1>4. FeedOf(h) = [state |-> "live", open |-> open, todo |-> h.msgs, got |-> h.got]
  BY <1>1, FeedStages
<1> HIDE DEF k
<1>5. FeedOf(k) = [state |-> "live", open |-> open,
                   todo |-> Tail(h.msgs), got |-> Append(h.got, Head(h.msgs))]
  BY <1>3 DEF FeedOf
<1>6. Feed!Becomes(c, FeedOf(k))
  BY <1>1, FeedBecomes DEF Inv
<1> HIDE DEF open
<1>7. FeedOf(k) = Feed!Delivered(FeedOf(h))
  <2>1. /\ FeedOf(k).state = FeedOf(h).state /\ FeedOf(k).open = FeedOf(h).open
        /\ FeedOf(k).todo = Tail(FeedOf(h).todo)
        /\ FeedOf(k).got = Append(FeedOf(h).got, Head(FeedOf(h).todo))
    BY <1>4, <1>5
  <2> QED BY <2>1, FeedHasFields, DeliveredFields
<1>8. FeedOf(h).todo # <<>>
  BY <1>1, <1>4
<1> QED BY <1>6, <1>7, <1>8 DEF Feed!Deliver

\* A connection is lost or closed, and the handler's place stays or becomes the end.
LEMMA ClosedFeeds ==
  ASSUME Inv, NEW c \in Clients, NEW pc,
         pc = client[c].pc \/ (client[c].pc = "live" /\ pc = "delete"),
         client' = [client EXCEPT ![c].pc = pc, ![c].conn = "closed"],
         UNCHANGED <<heap, sent, firing>>
  PROVE  Feed!Leave(c) \/ Feed!LetGo(c)
<1> DEFINE h == client[c]
           k == [h EXCEPT !.pc = pc, !.conn = "closed"]
<1>1. client' = [client EXCEPT ![c] = k] /\ h \in Handlers
  BY HandlerTypes DEF Inv, TypeInv
<1>2. k.pc = pc /\ k.conn = "closed" /\ k.snap = h.snap /\ k.got = h.got /\ k.msgs = h.msgs
  BY <1>1 DEF Handlers
<1> HIDE DEF k
<1>3. Feed!Becomes(c, FeedOf(k))
  BY <1>1, FeedBecomes DEF Inv
<1>4. CASE h.pc \in {"off", "snapshot"}
  <2>1. h.msgs = <<>> /\ h.got = <<>>
    BY <1>4 DEF Inv, HandlerInv, Staged
  <2>2. FeedOf(k) = Feed!Gone
    BY <1>2, <1>4, <2>1 DEF FeedOf, Feed!Gone
  <2> QED BY <1>3, <2>2 DEF Feed!Leave
<1>5. CASE h.pc \in {"history", "live", "delete"}
  <2> DEFINE open == h.conn = "open"
             state == IF h.pc = "history" THEN "history" ELSE "live"
             rest == IF h.pc = "history" THEN SubSeq(Value(h.snap), Len(h.got) + 1, h.snap.len)
                     ELSE h.msgs
  <2>1. FeedOf(h) = [state |-> state, open |-> open, todo |-> rest, got |-> h.got]
    BY <1>5 DEF FeedOf
  <2>2. FeedOf(k) = [state |-> state, open |-> FALSE, todo |-> rest, got |-> h.got]
    BY <1>2, <1>5 DEF FeedOf
  <2> HIDE DEF state, rest, open
  <2>3. FeedOf(k) = Feed!Closed(FeedOf(h))
    <3>1. /\ FeedOf(k).state = FeedOf(h).state /\ FeedOf(k).open = FALSE
          /\ FeedOf(k).todo = FeedOf(h).todo /\ FeedOf(k).got = FeedOf(h).got
      BY <2>1, <2>2
    <3> QED BY <3>1, FeedHasFields, ClosedFields
  <2> QED BY <1>3, <2>3 DEF Feed!LetGo
<1> QED BY <1>4, <1>5, FeedStages

LEMMA ServeFeeds == ASSUME Inv, NEW c \in Clients, Serve(c) PROVE [Feed!Next]_(Feed!vars)
<1>1. CASE Snapshot(c)
  BY <1>1, SnapshotFeeds DEF Feed!Next
<1>2. CASE WriteHistory(c)
  BY <1>2, WriteHistoryFeeds DEF Feed!Next
<1>3. CASE FailHistory(c) \/ DeleteSubscriber(c)
  <2>1. Feed!Leave(c)
    BY <1>3, OffFeeds DEF FailHistory, DeleteSubscriber
  <2> QED BY <2>1 DEF Feed!Next
<1>4. CASE AddSubscriber(c)
  BY <1>4, AddSubscriberFeeds DEF Feed!Next
<1>5. CASE WriteMessage(c)
  BY <1>5, WriteMessageFeeds DEF Feed!Next
<1>6. CASE Leave(c)
  <2>1. Feed!Leave(c) \/ Feed!LetGo(c)
    BY <1>6, ClosedFeeds DEF Leave
  <2> QED BY <2>1 DEF Feed!Next
<1> QED BY <1>1, <1>2, <1>3, <1>4, <1>5, <1>6 DEF Serve

LEMMA NextFeeds == Inv /\ [Next]_vars => [Feed!Next]_(Feed!vars)
<1> SUFFICES ASSUME Inv, [Next]_vars PROVE [Feed!Next]_(Feed!vars)
  OBVIOUS
<1>1. CASE Send
  BY <1>1, SendFeeds DEF Feed!Next
<1>2. CASE Record
  BY <1>2, RecordFeeds DEF Feed!Next
<1>3. ASSUME NEW c \in Clients, Accept(c) PROVE [Feed!Next]_(Feed!vars)
  BY <1>3, AcceptFeeds DEF Feed!Next
<1>4. ASSUME NEW c \in Clients, Serve(c) PROVE [Feed!Next]_(Feed!vars)
  BY <1>4, ServeFeeds
<1>5. ASSUME NEW c \in Clients, CloseSlow(c) \/ Disconnect(c) PROVE [Feed!Next]_(Feed!vars)
  <2>1. client' = [client EXCEPT ![c].conn = "closed"] /\ UNCHANGED <<heap, sent, firing>>
    BY <1>5 DEF CloseSlow, Disconnect
  <2>2. client \in [Clients -> Handlers] /\ client[c] \in Handlers
    BY HandlerTypes DEF Inv, TypeInv
  <2>3. client' = [client EXCEPT ![c].pc = client[c].pc, ![c].conn = "closed"]
    BY <2>1, <2>2 DEF Handlers
  <2>4. Feed!Leave(c) \/ Feed!LetGo(c)
    BY <2>1, <2>3, ClosedFeeds
  <2> QED BY <2>4 DEF Feed!Next
<1>6. CASE UNCHANGED vars
  BY <1>6 DEF vars, Feed!vars, FeedOf, Value, Recorded
<1> QED BY <1>1, <1>2, <1>3, <1>4, <1>5, <1>6 DEF Next

LEMMA InitFeeds == Init => Feed!Init
<1> SUFFICES ASSUME Init PROVE Feed!Init
  OBVIOUS
<1>1. FeedOf(Off) = Feed!Gone
  BY DEF FeedOf, Off, Feed!Gone
<1>2. sent = 0 /\ Recorded = 0 /\ \A c \in Clients : client[c] = Off
  BY DEF Init, Recorded
<1> QED BY <1>1, <1>2 DEF Feed!Init

\* The log server implements the feed: reading an array that the hook goes on
\* appending to, without a lock, is as good as reading a copy of the history.
THEOREM ImplementsLogFeed == Spec => LogFeedSpec
BY Invariance, InitFeeds, NextFeeds, PTL DEF Spec, LogFeedSpec, Feed!Spec
=============================================================================

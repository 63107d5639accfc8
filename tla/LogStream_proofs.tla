--------------------------- MODULE LogStream_proofs ---------------------------
(***************************************************************************)
(* The proofs of InOrder and NoGap of LogReader: what a log channel yields *)
(* of the lines that the controller sent, whoever else reads from the      *)
(* connection.                                                             *)
(*                                                                         *)
(* IInv adds three invariants to Base.  BufsInv: bufs counts what reads    *)
(* from a connection.  OrderInv: the entries of a channel, the one in the  *)
(* hand of its goroutine, the lines in its buffer and those that wait in   *)
(* the connection ascend, in that order; it carries InOrder.  GapInv:      *)
(* together they miss nothing, as long as one bufio.Reader is all that     *)
(* reads; it carries NoGap.                                                *)
(***************************************************************************)
EXTENDS LogReader_proofs

-----------------------------------------------------------------------------

Reading(t) == op[t].pc \in {"reply", "alarms"}

\* bufs counts: a reader, and whoever else reads beside it.
BufsOf(r) ==
  LET c == rd[r].c IN
  c # 0 =>
    /\ net[c].bufs >= 1
    /\ \A t \in Users : Reading(t) /\ op[t].c = c => net[c].bufs >= 2
    /\ \A t \in Users : op[t].pc = "stopReply" /\ conn = c => net[c].bufs >= 2
    /\ \A q \in Readers \ {r} : rd[q].c = c => net[c].bufs >= 2
    /\ \A q \in Readers : rd[q].pc = "reauth" => c # dialled

BufsInv ==
  /\ \A r \in Readers : BufsOf(r)
  /\ \A t \in Users : Reading(t) /\ op[t].c # 0 => net[op[t].c].bufs >= 1
  /\ \A t \in Users : op[t].pc = "stopReply" => net[conn].bufs >= 1

-----------------------------------------------------------------------------

\* The numbers of the numbered lines of a sequence
Nums(s) == {s[i].n : i \in {j \in DOMAIN s : HasNumber(s[j])}}

\* They ascend.
Asc(s) == \A i, j \in DOMAIN s : i < j /\ HasNumber(s[i]) /\ HasNumber(s[j]) => s[i].n < s[j].n

Below(S, T) == \A a \in S, b \in T : a < b

\* What waits in a connection is the latest that was sent, but for what is empty.
StreamOf(n) ==
  /\ Asc(n.stream)
  /\ \A a \in Nums(n.stream) : a <= n.sent
  /\ \A a \in Nums(n.stream) : \A x \in (a + 1)..n.sent : x \in Empty \cup Nums(n.stream)

\* A reader that has not started has nothing.
BlankOf(r) ==
  /\ rd[r].pc \in {"unused", "start"} => rd[r].c = 0
  /\ rd[r].c = 0 => rd[r].buf = <<>> /\ rd[r].hand = <<>> /\ Entries(r) = <<>>
  /\ rd[r].pc \in {"loop", "read", "reconnect", "reauth"} => rd[r].hand = <<>>

\* Entries, the one in the hand, the buffer and the connection follow one another.
Ordered(e, h, b, n) ==
  /\ Asc(e) /\ Asc(h) /\ Asc(b)
  /\ Below(Nums(e), Nums(h)) /\ Below(Nums(e) \cup Nums(h), Nums(b))
  /\ Below(Nums(e) \cup Nums(h) \cup Nums(b), Nums(n.stream))
  /\ \A a \in Nums(e) \cup Nums(h) \cup Nums(b) : a <= n.sent

OrderOf(r) == rd[r].c # 0 => Ordered(Entries(r), rd[r].hand, rd[r].buf, net[rd[r].c])

OrderInv ==
  /\ \A c \in Conns : StreamOf(net[c])
  /\ \A r \in Readers : BlankOf(r) /\ OrderOf(r)

-----------------------------------------------------------------------------

\* The goroutine is in its loop.
Live(r) == rd[r].pc \in {"loop", "read", "send", "reconnect", "reauth"}

\* Nothing sent after a held line is missing, or all that follows it was lost with
\* the connection.
Covered(S, n) ==
  \A a \in S : \A x \in (a + 1)..n.sent :
    x \in Empty \cup S \/ (~(n.open /\ n.peer = "up") /\ \A b \in S : b < x)

Held(r) == Nums(Entries(r)) \cup Nums(rd[r].hand) \cup Nums(rd[r].buf) \cup Nums(net[rd[r].c].stream)

\* No number between two of the set is missing.
Gapless(S) == \A a, b \in S : \A x \in (a + 1)..(b - 1) : x \in Empty \cup S

GapOf(r) ==
  rd[r].c # 0 /\ net[rd[r].c].bufs = 1 =>
    /\ Live(r) => Covered(Held(r), net[rd[r].c])
    /\ Gapless(Nums(Entries(r)))

GapInv == \A r \in Readers : GapOf(r)

IInv == Base /\ BufsInv /\ OrderInv /\ GapInv

-----------------------------------------------------------------------------
(* Numbers of sequences of lines                                           *)

LEMMA LenNat == \A s \in Lines_t : s \in Seq(Line_t) /\ Len(s) \in Nat /\ DOMAIN s = 1..Len(s)
  BY LenProperties DEF Lines_t

LEMMA LineNumbers == \A s \in Lines_t : \A i \in DOMAIN s : s[i] \in Line_t /\ s[i].n \in -1..MaxLines
  <1> SUFFICES ASSUME NEW s \in Lines_t, NEW i \in DOMAIN s PROVE s[i] \in Line_t /\ s[i].n \in -1..MaxLines
    OBVIOUS
  <1>1. s \in Seq(Line_t) /\ i \in 1..Len(s)
    BY LenNat
  <1>2. s[i] \in Line_t
    BY <1>1, ElementOfSeq
  <1> QED BY <1>2 DEF Line_t

LEMMA NumsInt == ASSUME NEW s \in Lines_t PROVE Nums(s) \subseteq -1..MaxLines
  BY LineNumbers DEF Nums

LEMMA NumsEmpty == Nums(<<>>) = {} /\ Asc(<<>>) /\ <<>> \in Lines_t
  <1>1. <<>> \in Seq(Line_t) /\ DOMAIN <<>> = {}
    BY EmptySeq
  <1> QED BY <1>1 DEF Nums, Asc, Lines_t

LEMMA NumsSingle ==
  ASSUME NEW x \in Line_t
  PROVE  /\ <<x>> \in Lines_t /\ Asc(<<x>>)
         /\ Nums(<<x>>) = IF HasNumber(x) THEN {x.n} ELSE {}
  <1>1. <<x>> \in Seq(Line_t) /\ DOMAIN <<x>> = {1} /\ <<x>>[1] = x
    OBVIOUS
  <1> QED BY <1>1 DEF Nums, Asc, Lines_t

\* A sequence of lines and one after it
LEMMA NumsConcat ==
  ASSUME NEW s \in Lines_t, NEW u \in Lines_t
  PROVE  s \o u \in Lines_t /\ Nums(s \o u) = Nums(s) \cup Nums(u)
  <1> DEFINE w == s \o u
  <1>1. /\ w \in Seq(Line_t) /\ Len(w) = Len(s) + Len(u)
        /\ \A i \in 1..Len(s) + Len(u) : w[i] = IF i <= Len(s) THEN s[i] ELSE u[i - Len(s)]
    BY ConcatProperties DEF Lines_t
  <1>2. /\ Len(s) \in Nat /\ DOMAIN s = 1..Len(s) /\ Len(u) \in Nat /\ DOMAIN u = 1..Len(u)
        /\ DOMAIN w = 1..Len(w)
    BY <1>1, LenNat DEF Lines_t
  <1> HIDE DEF w
  <1>3. \A i \in DOMAIN s : i \in DOMAIN w /\ w[i] = s[i]
    BY <1>1, <1>2
  <1>4. \A i \in DOMAIN u : Len(s) + i \in DOMAIN w /\ w[Len(s) + i] = u[i]
    BY <1>1, <1>2
  <1>5. \A i \in DOMAIN w : (i \in DOMAIN s /\ w[i] = s[i]) \/ (i - Len(s) \in DOMAIN u /\ w[i] = u[i - Len(s)])
    BY <1>1, <1>2
  <1>6. Nums(w) \subseteq Nums(s) \cup Nums(u)
    BY <1>5 DEF Nums
  <1>7. Nums(s) \subseteq Nums(w)
    BY <1>3 DEF Nums
  <1>8. Nums(u) \subseteq Nums(w)
    BY <1>4 DEF Nums
  <1> QED BY <1>1, <1>6, <1>7, <1>8 DEF w, Lines_t

LEMMA AscConcat ==
  ASSUME NEW s \in Lines_t, NEW u \in Lines_t
  PROVE  Asc(s \o u) <=> Asc(s) /\ Asc(u) /\ Below(Nums(s), Nums(u))
  <1> DEFINE w == s \o u
  <1>1. /\ w \in Seq(Line_t) /\ Len(w) = Len(s) + Len(u)
        /\ \A i \in 1..Len(s) + Len(u) : w[i] = IF i <= Len(s) THEN s[i] ELSE u[i - Len(s)]
    BY ConcatProperties DEF Lines_t
  <1>2. /\ Len(s) \in Nat /\ DOMAIN s = 1..Len(s) /\ Len(u) \in Nat /\ DOMAIN u = 1..Len(u)
        /\ DOMAIN w = 1..Len(w)
    BY <1>1, LenNat DEF Lines_t
  <1> HIDE DEF w
  <1>3. \A i \in DOMAIN s : i \in DOMAIN w /\ w[i] = s[i]
    BY <1>1, <1>2
  <1>4. \A i \in DOMAIN u : Len(s) + i \in DOMAIN w /\ w[Len(s) + i] = u[i]
    BY <1>1, <1>2
  <1>5. \A i \in DOMAIN w : (i \in DOMAIN s /\ w[i] = s[i]) \/ (i - Len(s) \in DOMAIN u /\ w[i] = u[i - Len(s)])
    BY <1>1, <1>2
  <1>6. ASSUME Asc(w) PROVE Asc(s) /\ Asc(u) /\ Below(Nums(s), Nums(u))
    <2>1. Asc(s)
      BY <1>3, <1>6 DEF Asc
    <2>2. ASSUME NEW i \in DOMAIN u, NEW j \in DOMAIN u, i < j, HasNumber(u[i]), HasNumber(u[j])
          PROVE  u[i].n < u[j].n
      <3>1. Len(s) + i < Len(s) + j
        BY <1>2, <2>2
      <3> QED BY <1>4, <1>6, <2>2, <3>1 DEF Asc
    <2>3. ASSUME NEW i \in DOMAIN s, NEW j \in DOMAIN u, HasNumber(s[i]), HasNumber(u[j])
          PROVE  s[i].n < u[j].n
      <3>1. i < Len(s) + j
        BY <1>2
      <3> QED BY <1>3, <1>4, <1>6, <2>3, <3>1 DEF Asc
    <2> QED BY <2>1, <2>2, <2>3 DEF Asc, Below, Nums
  <1>7. ASSUME Asc(s), Asc(u), Below(Nums(s), Nums(u)) PROVE Asc(w)
    <2> SUFFICES ASSUME NEW i \in DOMAIN w, NEW j \in DOMAIN w, i < j, HasNumber(w[i]), HasNumber(w[j])
                 PROVE  w[i].n < w[j].n
      BY DEF Asc
    <2>1. i \in Int /\ j \in Int
      BY <1>2
    <2>2. CASE i \in DOMAIN s /\ w[i] = s[i] /\ j \in DOMAIN s /\ w[j] = s[j]
      BY <1>7, <2>2 DEF Asc
    <2>3. CASE i \in DOMAIN s /\ w[i] = s[i] /\ j - Len(s) \in DOMAIN u /\ w[j] = u[j - Len(s)]
      BY <1>7, <2>3 DEF Below, Nums
    <2>4. CASE i - Len(s) \in DOMAIN u /\ w[i] = u[i - Len(s)] /\ j - Len(s) \in DOMAIN u /\ w[j] = u[j - Len(s)]
      <3>1. i - Len(s) < j - Len(s)
        BY <1>2, <2>1
      <3> QED BY <1>7, <2>4, <3>1 DEF Asc
    <2>5. ~(i - Len(s) \in DOMAIN u /\ j \in DOMAIN s)
      BY <1>2, <2>1
    <2> QED BY <1>5, <2>2, <2>3, <2>4, <2>5
  <1> QED BY <1>6, <1>7 DEF w

\* A sequence cut in two
LEMMA CutInTwo ==
  ASSUME NEW s \in Lines_t, NEW k \in 0..Len(s)
  PROVE  /\ SubSeq(s, 1, k) \in Lines_t /\ SubSeq(s, k + 1, Len(s)) \in Lines_t
         /\ s = SubSeq(s, 1, k) \o SubSeq(s, k + 1, Len(s))
  <1>1. s \in Seq(Line_t) /\ Len(s) \in Nat /\ k \in Nat /\ k <= Len(s)
    BY LenNat
  <1>2. SubSeq(s, 1, k) \in Seq(Line_t)
    <2>1. \A i \in 1..k : s[i] \in Line_t
      BY <1>1, ElementOfSeq
    <2> QED BY <1>1, <2>1, SubSeqProperties
  <1>3. SubSeq(s, k + 1, Len(s)) \in Seq(Line_t)
    BY LeftOver DEF Lines_t
  <1>4. s = SubSeq(s, 1, Len(s))
    BY <1>1, SubSeqFull
  <1>5. SubSeq(s, 1, Len(s)) = SubSeq(s, 1, k) \o SubSeq(s, k + 1, Len(s))
    <2>1. 1 \in 1..Len(s) + 1 /\ k \in 0..Len(s) /\ Len(s) \in k..Len(s) /\ k \in 1 - 1..Len(s)
      BY <1>1
    <2> QED BY <1>1, <2>1, ConcatAdjacentSubSeq
  <1> QED BY <1>2, <1>3, <1>4, <1>5 DEF Lines_t

\* The first of a sequence and the others
LEMMA FirstAndRest ==
  ASSUME NEW s \in Lines_t, s # <<>>
  PROVE  /\ Head(s) \in Line_t /\ <<Head(s)>> \in Lines_t /\ Tail(s) \in Lines_t
         /\ s = <<Head(s)>> \o Tail(s)
  <1>1. s \in Seq(Line_t) /\ Len(s) \in Nat
    BY LenNat
  <1>2. /\ Head(s) \in Line_t /\ Head(s) = s[1] /\ Tail(s) \in Seq(Line_t) /\ Len(Tail(s)) = Len(s) - 1
        /\ \A i \in 1..Len(Tail(s)) : Tail(s)[i] = s[i + 1]
    BY <1>1, HeadTailProperties
  <1>3. Len(s) # 0
    BY <1>1, EmptySeq
  <1>4. <<Head(s)>> \in Seq(Line_t) /\ Len(<<Head(s)>>) = 1 /\ <<Head(s)>>[1] = s[1]
    BY <1>2
  <1> DEFINE w == <<Head(s)>> \o Tail(s)
  <1>5. /\ w \in Seq(Line_t) /\ Len(w) = 1 + Len(Tail(s))
        /\ \A i \in 1..1 + Len(Tail(s)) : w[i] = IF i <= 1 THEN <<Head(s)>>[i] ELSE Tail(s)[i - 1]
    BY <1>2, <1>4, ConcatProperties
  <1> HIDE DEF w
  <1>6. Len(w) = Len(s)
    BY <1>1, <1>2, <1>5
  <1>7. ASSUME NEW i \in 1..Len(w) PROVE w[i] = s[i]
    BY <1>1, <1>2, <1>3, <1>4, <1>5, <1>6, <1>7
  <1>8. w = s
    BY <1>1, <1>5, <1>6, <1>7, SeqEqual
  <1> QED BY <1>2, <1>4, <1>8 DEF w, Lines_t

-----------------------------------------------------------------------------
(* What may become of a connection in a step                               *)

UpNet(n) == n.open /\ n.peer = "up"

\* Someone takes the first lines, or the connection is closed.
Less(n, m) ==
  /\ m.sent = n.sent /\ Nums(m.stream) \subseteq Nums(n.stream)
  /\ Asc(n.stream) => Asc(m.stream) /\ Below(Nums(n.stream) \ Nums(m.stream), Nums(m.stream))

\* Nobody takes a line, but the connection may end and lose those that wait.
Same(n, m) ==
  /\ m.sent = n.sent /\ (UpNet(m) => UpNet(n))
  /\ m.stream = n.stream \/ (m.stream = <<>> /\ ~UpNet(m))

\* The controller sends.
More(n, m) ==
  /\ UpNet(n) /\ m.sent >= n.sent /\ Nums(n.stream) \subseteq Nums(m.stream)
  /\ \A x \in Nums(m.stream) \ Nums(n.stream) : n.sent < x /\ x <= m.sent
  /\ \A x \in (n.sent + 1)..m.sent : x \in Empty \cup Nums(m.stream)
  /\ StreamOf(n) => Asc(m.stream)

LEMMA NetInts ==
  ASSUME NEW n \in Net_t
  PROVE  n.stream \in Lines_t /\ Nums(n.stream) \subseteq Int /\ n.sent \in Nat
  <1>1. n.stream \in Lines_t /\ n.sent \in 0..MaxLines
    BY DEF Net_t
  <1> QED BY <1>1, NumsInt, Apart

LEMMA LineInts == ASSUME NEW s \in Lines_t PROVE Nums(s) \subseteq Int
  BY NumsInt, Apart

LEMMA SameLess == ASSUME NEW n, NEW m, Same(n, m) PROVE Less(n, m)
  BY NumsEmpty DEF Same, Less, Below

\* The connection keeps its latest lines.
LEMMA TendStream ==
  ASSUME NEW n \in Net_t, NEW m \in Net_t, StreamOf(n), Less(n, m) \/ More(n, m)
  PROVE  StreamOf(m)
  <1>1. CASE Less(n, m)
    <2>1. Asc(m.stream) /\ \A a \in Nums(m.stream) : a <= m.sent
      BY <1>1 DEF Less, StreamOf
    <2>2. ASSUME NEW a \in Nums(m.stream), NEW x \in (a + 1)..m.sent PROVE x \in Empty \cup Nums(m.stream)
      <3>1. x \in Empty \cup Nums(n.stream)
        BY <1>1, <2>2 DEF Less, StreamOf
      <3>2. x \notin Nums(n.stream) \ Nums(m.stream)
        <4>1. a \in Int /\ x > a
          <5>1. Nums(m.stream) \subseteq Int /\ m.sent \in Nat
            BY NetInts
          <5> QED BY <2>2, <5>1
        <4> QED BY <1>1, <4>1 DEF Less, StreamOf, Below
      <3> QED BY <3>1, <3>2
    <2> QED BY <2>1, <2>2 DEF StreamOf
  <1>2. CASE More(n, m)
    <2>1. n.sent \in Nat /\ m.sent \in Nat /\ Nums(m.stream) \subseteq Int /\ Nums(n.stream) \subseteq Int
      BY NetInts
    <2>2. ASSUME NEW a \in Nums(m.stream) PROVE a <= m.sent
      BY <1>2, <2>1, <2>2 DEF More, StreamOf
    <2>3. ASSUME NEW a \in Nums(m.stream), NEW x \in (a + 1)..m.sent PROVE x \in Empty \cup Nums(m.stream)
      <3>1. CASE x > n.sent
        BY <1>2, <2>1, <2>3, <3>1 DEF More
      <3>2. CASE x <= n.sent
        <4>1. a \in Nums(n.stream) /\ x \in (a + 1)..n.sent
          BY <1>2, <2>1, <2>3, <3>2 DEF More
        <4> QED BY <1>2, <4>1 DEF More, StreamOf
      <3> QED BY <2>1, <3>1, <3>2
    <2> QED BY <1>2, <2>2, <2>3 DEF More, StreamOf
  <1> QED BY <1>1, <1>2

LEMMA TendOrdered ==
  ASSUME NEW n \in Net_t, NEW m \in Net_t, NEW e \in Lines_t, NEW h \in Lines_t, NEW b \in Lines_t,
         Ordered(e, h, b, n), Less(n, m) \/ More(n, m)
  PROVE  Ordered(e, h, b, m)
  <1> DEFINE T == Nums(e) \cup Nums(h) \cup Nums(b)
  <1>1. T \subseteq Int /\ n.sent \in Nat /\ m.sent \in Nat /\ Nums(m.stream) \subseteq Int
    BY NetInts, LineInts
  <1>2. /\ \A a \in T : a <= n.sent
        /\ Below(T, Nums(n.stream))
    BY DEF Ordered
  <1>3. \A x \in Nums(m.stream) : x \in Nums(n.stream) \/ x > n.sent
    BY DEF Less, More
  <1>4. m.sent >= n.sent
    BY <1>1 DEF Less, More
  <1> HIDE DEF T
  <1>5. Below(T, Nums(m.stream)) /\ \A a \in T : a <= m.sent
    BY <1>1, <1>2, <1>3, <1>4 DEF Below
  <1> QED BY <1>5 DEF Ordered, T

LEMMA TendCovered ==
  ASSUME NEW n \in Net_t, NEW m \in Net_t, NEW e \in Lines_t, NEW h \in Lines_t, NEW b \in Lines_t,
         Ordered(e, h, b, n), Same(n, m) \/ More(n, m),
         Covered(Nums(e) \cup Nums(h) \cup Nums(b) \cup Nums(n.stream), n)
  PROVE  Covered(Nums(e) \cup Nums(h) \cup Nums(b) \cup Nums(m.stream), m)
  <1> DEFINE T == Nums(e) \cup Nums(h) \cup Nums(b)
  <1>1. /\ T \subseteq Int /\ n.sent \in Nat /\ m.sent \in Nat
        /\ Nums(m.stream) \subseteq Int /\ Nums(n.stream) \subseteq Int
    BY NetInts, LineInts
  <1>2. Below(T, Nums(n.stream)) /\ \A a \in T : a <= n.sent
    BY DEF Ordered
  <1>3. Covered(T \cup Nums(n.stream), n)
    OBVIOUS
  <1> HIDE DEF T
  <1>4. CASE Same(n, m) /\ m.stream = n.stream
    BY <1>3, <1>4 DEF Same, Covered, UpNet, T
  <1>5. CASE Same(n, m) /\ m.stream = <<>> /\ ~UpNet(m)
    <2> SUFFICES ASSUME NEW a \in T, NEW x \in (a + 1)..m.sent
                 PROVE  x \in Empty \cup T \/ \A z \in T : z < x
      BY <1>5, NumsEmpty DEF Covered, UpNet, T
    <2>1. x \in Empty \cup T \cup Nums(n.stream) \/ \A z \in T : z < x
      BY <1>3, <1>5 DEF Covered, Same
    <2> QED BY <1>2, <2>1 DEF Below
  <1>6. CASE More(n, m)
    <2> SUFFICES ASSUME NEW a \in T \cup Nums(m.stream), NEW x \in (a + 1)..m.sent
                 PROVE  x \in Empty \cup T \cup Nums(m.stream)
      BY DEF Covered, T
    <2>1. CASE x > n.sent
      BY <1>1, <1>6, <2>1 DEF More
    <2>2. CASE x <= n.sent
      <3>1. a \in T \cup Nums(n.stream) /\ x \in (a + 1)..n.sent
        BY <1>1, <1>6, <2>2 DEF More
      <3>2. x \in Empty \cup T \cup Nums(n.stream)
        BY <1>3, <1>6, <3>1 DEF Covered, More, UpNet
      <3> QED BY <1>6, <3>2 DEF More
    <2> QED BY <1>1, <2>1, <2>2
  <1> QED BY <1>4, <1>5, <1>6 DEF Same

\* What has been delivered misses nothing between two lines, when nothing held does.
LEMMA CoveredGapless ==
  ASSUME NEW n \in Net_t, NEW e \in Lines_t, NEW h \in Lines_t, NEW b \in Lines_t,
         Ordered(e, h, b, n), Covered(Nums(e) \cup Nums(h) \cup Nums(b) \cup Nums(n.stream), n)
  PROVE  Gapless(Nums(e) \cup Nums(h))
  <1> DEFINE T == Nums(e) \cup Nums(h)
             W == Nums(b) \cup Nums(n.stream)
  <1>1. T \subseteq Int /\ W \subseteq Int /\ n.sent \in Nat
    BY NetInts, LineInts
  <1>2. Below(T, W) /\ \A a \in T : a <= n.sent
    BY DEF Ordered, Below
  <1>3. Covered(T \cup W, n)
    <2>1. T \cup W = Nums(e) \cup Nums(h) \cup Nums(b) \cup Nums(n.stream)
      OBVIOUS
    <2> QED BY <2>1
  <1> HIDE DEF T, W
  <1>4. ASSUME NEW a \in T, NEW z \in T, NEW x \in (a + 1)..(z - 1) PROVE x \in Empty \cup T
    <2>1. x \in (a + 1)..n.sent /\ x < z
      BY <1>1, <1>2, <1>4
    <2>2. x \in Empty \cup T \cup W \/ z < x
      BY <1>3, <2>1 DEF Covered
    <2> QED BY <1>1, <1>2, <2>1, <2>2 DEF Below
  <1> QED BY <1>4 DEF Gapless, T

-----------------------------------------------------------------------------
(* Lines that are sent, taken, and put into the channel                    *)

\* Lines with the numbers that follow are added to a stream.
LEMMA SentMore ==
  ASSUME NEW n \in Net_t, NEW m \in Net_t, NEW lines \in Lines_t, UpNet(n), m.sent >= n.sent,
         m.stream = n.stream \o lines, Asc(lines), Nums(lines) \subseteq (n.sent + 1)..m.sent,
         (n.sent + 1)..m.sent \subseteq Empty \cup Nums(lines)
  PROVE  More(n, m)
  <1>1. n.stream \in Lines_t /\ n.sent \in Nat /\ m.sent \in Nat /\ Nums(n.stream) \subseteq Int
    BY NetInts
  <1>2. Nums(m.stream) = Nums(n.stream) \cup Nums(lines)
    BY <1>1, NumsConcat
  <1>3. StreamOf(n) => Asc(m.stream)
    <2> SUFFICES ASSUME StreamOf(n) PROVE Asc(m.stream)
      OBVIOUS
    <2>1. Asc(n.stream) /\ \A a \in Nums(n.stream) : a <= n.sent
      BY DEF StreamOf
    <2>2. Below(Nums(n.stream), Nums(lines))
      BY <1>1, <2>1 DEF Below
    <2> QED BY <1>1, <2>1, <2>2, AscConcat
  <1>4. \A x \in Nums(m.stream) \ Nums(n.stream) : n.sent < x /\ x <= m.sent
    BY <1>1, <1>2
  <1> QED BY <1>1, <1>2, <1>3, <1>4 DEF More

\* The lines of an answer
LEMMA NumberedNums ==
  ASSUME NEW c, NEW n \in Nat, net[c].sent \in Nat, Numbered(c, "alarm", n) \in Lines_t
  PROVE  /\ Asc(Numbered(c, "alarm", n))
         /\ Nums(Numbered(c, "alarm", n)) = (net[c].sent + 1)..(net[c].sent + n)
  <1> DEFINE s == Numbered(c, "alarm", n)
  <1>1. DOMAIN s = 1..n /\ \A i \in 1..n : s[i].k = "alarm" /\ s[i].n = net[c].sent + i
    BY DEF Numbered, Line
  <1> HIDE DEF s
  <1>2. \A i \in 1..n : HasNumber(s[i])
    BY <1>1 DEF HasNumber
  <1>3. Asc(s)
    BY <1>1 DEF Asc
  <1>4. Nums(s) = {net[c].sent + i : i \in 1..n}
    BY <1>1, <1>2 DEF Nums
  <1>5. \A x \in (net[c].sent + 1)..(net[c].sent + n) : x - net[c].sent \in 1..n /\ x = net[c].sent + (x - net[c].sent)
    OBVIOUS
  <1>6. Nums(s) = (net[c].sent + 1)..(net[c].sent + n)
    BY <1>4, <1>5
  <1> QED BY <1>3, <1>6 DEF s

\* A line without a number before others
LEMMA NumsHeaded ==
  ASSUME NEW x \in Line_t, ~HasNumber(x), NEW s \in Lines_t, Asc(s)
  PROVE  /\ <<x>> \in Lines_t /\ Asc(<<x>>) /\ Nums(<<x>>) = {}
         /\ <<x>> \o s \in Lines_t /\ Asc(<<x>> \o s) /\ Nums(<<x>> \o s) = Nums(s)
  <1>1. <<x>> \in Lines_t /\ Asc(<<x>>) /\ Nums(<<x>>) = {}
    BY NumsSingle
  <1>2. Below({}, Nums(s))
    BY DEF Below
  <1>3. Asc(<<x>> \o s)
    BY <1>1, <1>2, AscConcat
  <1>4. <<x>> \o s \in Lines_t /\ Nums(<<x>> \o s) = {} \cup Nums(s)
    BY <1>1, NumsConcat
  <1> QED BY <1>1, <1>3, <1>4

\* The first lines of a stream are taken.
LEMMA TakenLess ==
  ASSUME NEW n \in Net_t, NEW m, NEW k \in 0..Len(n.stream),
         m.stream = SubSeq(n.stream, k + 1, Len(n.stream)), m.sent = n.sent
  PROVE  Less(n, m)
  <1>1. n.stream \in Lines_t
    BY NetInts
  <1> DEFINE a == SubSeq(n.stream, 1, k)
             z == SubSeq(n.stream, k + 1, Len(n.stream))
  <1>2. a \in Lines_t /\ z \in Lines_t /\ n.stream = a \o z
    BY <1>1, CutInTwo
  <1>m. m.stream = z
    OBVIOUS
  <1> HIDE DEF a, z
  <1>3. Nums(n.stream) = Nums(a) \cup Nums(z)
    BY <1>2, NumsConcat
  <1>4. Asc(n.stream) <=> Asc(a) /\ Asc(z) /\ Below(Nums(a), Nums(z))
    BY <1>2, AscConcat
  <1> QED BY <1>m, <1>3, <1>4 DEF Less, Below

\* The entry of a line has its number, if it has one.
LEMMA EntryNums ==
  ASSUME NEW x \in Line_t
  PROVE  /\ parseLogEntry(x) \in Lines_t /\ Asc(parseLogEntry(x)) /\ Nums(parseLogEntry(x)) = Nums(<<x>>)
         /\ <<x>> \in Lines_t
  <1>1. CASE x.k = "blank"
    <2>1. parseLogEntry(x) = <<>> /\ ~HasNumber(x)
      BY <1>1 DEF parseLogEntry, HasNumber
    <2> QED BY <2>1, NumsEmpty, NumsSingle
  <1>2. CASE x.k # "blank"
    <2>1. parseLogEntry(x) = <<x>>
      BY <1>2 DEF parseLogEntry
    <2> QED BY <2>1, NumsSingle
  <1> QED BY <1>1, <1>2

\* A line is taken from the buffer.
LEMMA TakenBuffered ==
  ASSUME NEW n \in Net_t, NEW e \in Lines_t, NEW b \in Lines_t, b # <<>>, Ordered(e, <<>>, b, n)
  PROVE  /\ Ordered(e, parseLogEntry(Head(b)), Tail(b), n)
         /\ Nums(parseLogEntry(Head(b))) \cup Nums(Tail(b)) = Nums(b)
  <1> DEFINE h == parseLogEntry(Head(b))
             u == Tail(b)
             f == <<Head(b)>>
  <1>1. Head(b) \in Line_t /\ f \in Lines_t /\ u \in Lines_t /\ b = f \o u
    BY FirstAndRest
  <1>2. h \in Lines_t /\ Asc(h) /\ Nums(h) = Nums(f)
    BY <1>1, EntryNums
  <1> HIDE DEF h, u, f
  <1>3. Nums(b) = Nums(h) \cup Nums(u)
    BY <1>1, <1>2, NumsConcat
  <1>4. Asc(u) /\ Below(Nums(h), Nums(u))
    <2>1. Asc(b)
      BY DEF Ordered
    <2> QED BY <1>1, <1>2, <2>1, AscConcat
  <1>5. Ordered(e, h, u, n)
    <2>1. /\ Asc(e) /\ Below(Nums(e), Nums(b)) /\ Below(Nums(e) \cup Nums(b), Nums(n.stream))
          /\ \A a \in Nums(e) \cup Nums(b) : a <= n.sent
      BY NumsEmpty DEF Ordered, Below
    <2>2. Below(Nums(e), Nums(h)) /\ Below(Nums(e) \cup Nums(h), Nums(u))
      BY <1>3, <1>4, <2>1 DEF Below
    <2> QED BY <1>2, <1>3, <1>4, <2>1, <2>2 DEF Ordered, Below
  <1> QED BY <1>3, <1>5 DEF h, u

\* Lines are taken from the stream, the first of them is handed out and the others kept.
LEMMA TakenStream ==
  ASSUME NEW n \in Net_t, NEW m \in Net_t, NEW e \in Lines_t, NEW k \in 1..Len(n.stream),
         m.stream = SubSeq(n.stream, k + 1, Len(n.stream)), m.sent = n.sent,
         Ordered(e, <<>>, <<>>, n), StreamOf(n)
  PROVE  /\ Ordered(e, parseLogEntry(Head(n.stream)), SubSeq(n.stream, 2, k), m)
         /\ Nums(parseLogEntry(Head(n.stream))) \cup Nums(SubSeq(n.stream, 2, k)) \cup Nums(m.stream) = Nums(n.stream)
  <1> DEFINE s == n.stream
             h == parseLogEntry(Head(s))
             b == SubSeq(s, 2, k)
             a == SubSeq(s, 1, k)
             f == <<Head(s)>>
  <1>1. s \in Lines_t /\ s \in Seq(Line_t) /\ Len(s) \in Nat /\ s # <<>>
    <2>1. s \in Lines_t
      BY NetInts
    <2>2. Len(<<>>) = 0
      BY EmptySeq
    <2> QED BY <2>1, <2>2, LenNat
  <1>2. a \in Lines_t /\ m.stream \in Lines_t /\ s = a \o m.stream
    <2>1. k \in 0..Len(s)
      BY <1>1
    <2> QED BY <1>1, <2>1, CutInTwo
  <1>3. Head(s) \in Line_t /\ f \in Lines_t /\ Head(s) = s[1]
    BY <1>1, FirstAndRest
  <1>4. b \in Lines_t
    <2>1. \A i \in 2..k : s[i] \in Line_t
      BY <1>1, ElementOfSeq
    <2> QED BY <1>1, <2>1, SubSeqProperties DEF Lines_t
  <1>5. a = f \o b
    <2>1. 1 \in 1..Len(s) /\ k \in 1..Len(s)
      BY <1>1
    <2>2. SubSeq(s, 1, k) = <<s[1]>> \o SubSeq(s, 1 + 1, k)
      BY <1>1, <2>1, SubSeqRecursiveFirst
    <2> QED BY SMTT(30), <1>3, <2>2
  <1>6. h \in Lines_t /\ Asc(h) /\ Nums(h) = Nums(f)
    BY <1>3, EntryNums
  <1> HIDE DEF s, h, b, a, f
  <1>7. Nums(a) = Nums(h) \cup Nums(b) /\ Nums(s) = Nums(a) \cup Nums(m.stream)
    BY <1>2, <1>3, <1>4, <1>5, <1>6, NumsConcat
  <1>8. /\ Asc(b) /\ Below(Nums(h), Nums(b)) /\ Below(Nums(a), Nums(m.stream))
    <2>1. Asc(s)
      BY DEF StreamOf, s
    <2>2. Asc(a) /\ Below(Nums(a), Nums(m.stream))
      BY <1>2, <2>1, AscConcat
    <2> QED BY <1>3, <1>4, <1>5, <1>6, <2>2, AscConcat
  <1>9. Ordered(e, h, b, m)
    <2>1. /\ Asc(e) /\ Below(Nums(e), Nums(s))
          /\ \A x \in Nums(e) : x <= n.sent
      BY NumsEmpty DEF Ordered, Below, s
    <2>2. \A x \in Nums(s) : x <= n.sent
      BY DEF StreamOf, s
    <2>3. /\ Below(Nums(e), Nums(h)) /\ Below(Nums(e) \cup Nums(h), Nums(b))
          /\ Below(Nums(e) \cup Nums(h) \cup Nums(b), Nums(m.stream))
      BY <1>7, <1>8, <2>1 DEF Below
    <2>4. \A x \in Nums(e) \cup Nums(h) \cup Nums(b) : x <= m.sent
      BY <1>7, <2>1, <2>2
    <2> QED BY <1>6, <1>8, <2>1, <2>3, <2>4 DEF Ordered
  <1> QED BY <1>7, <1>9 DEF s, h, b

\* The entry in the hand is put behind the others, or it is dropped.
LEMMA SentOrdered ==
  ASSUME NEW n \in Net_t, NEW e \in Lines_t, NEW h \in Lines_t, NEW b \in Lines_t, Ordered(e, h, b, n)
  PROVE  /\ Ordered(e \o h, <<>>, b, n) /\ Nums(e \o h) = Nums(e) \cup Nums(h)
         /\ Ordered(e, <<>>, b, n) /\ Ordered(e, h, <<>>, n)
  <1>1. Asc(e \o h) /\ Nums(e \o h) = Nums(e) \cup Nums(h)
    BY AscConcat, NumsConcat DEF Ordered
  <1> QED BY <1>1, NumsEmpty DEF Ordered, Below

-----------------------------------------------------------------------------
(* What a step does to the connections                                     *)

TendOf(c) ==
  /\ Less(net[c], net'[c]) \/ More(net[c], net'[c])
  /\ net'[c].bufs >= net[c].bufs

\* Nobody takes a line from a reader that is alone on its connection.
Alone(r) ==
  rd[r].c # 0 /\ net'[rd[r].c].bufs = 1 =>
    Same(net[rd[r].c], net'[rd[r].c]) \/ More(net[rd[r].c], net'[rd[r].c])

KeptBy(R) == (\A c \in Conns : TendOf(c)) /\ \A r \in R : Alone(r)

LEMMA ReaderConn ==
  ASSUME Types, Bounded, NEW r \in Readers
  PROVE  /\ rd[r].c \in Nat /\ rd[r].c <= dialled /\ dialled \in Nat
         /\ rd[r].c # 0 => rd[r].c \in Conns
  BY Apart DEF Types, Bounded, Rd_t, Conns

LEMMA Itself == ASSUME Types, NEW c \in Conns PROVE Same(net[c], net[c]) /\ Less(net[c], net[c]) /\ net[c].bufs >= net[c].bufs
  <1>1. net[c].bufs \in Nat
    BY DEF Types, Net_t
  <1> QED BY <1>1 DEF Same, Less, Below

LEMMA KeptNone ==
  ASSUME Types, Bounded, net' = net
  PROVE  KeptBy(Readers)
  <1>1. \A c \in Conns : TendOf(c)
    BY Itself DEF TendOf
  <1>2. \A r \in Readers : Alone(r)
    BY Itself, ReaderConn DEF Alone
  <1> QED BY <1>1, <1>2 DEF KeptBy

\* One connection changes.
LEMMA KeptAt ==
  ASSUME Types, Bounded, NEW R \in SUBSET Readers, NEW k \in Conns,
         \A d \in Conns \ {k} : net'[d] = net[d], TendOf(k),
         \A r \in R : rd[r].c = k /\ net'[k].bufs = 1 => Same(net[k], net'[k]) \/ More(net[k], net'[k])
  PROVE  KeptBy(R)
  <1>1. \A c \in Conns : TendOf(c)
    BY Itself DEF TendOf
  <1>2. ASSUME NEW r \in R PROVE Alone(r)
    <2>1. rd[r].c # 0 => rd[r].c \in Conns
      BY ReaderConn
    <2>2. CASE rd[r].c = k
      BY <2>2 DEF Alone
    <2>3. CASE rd[r].c # k
      BY <2>1, <2>3, Itself DEF Alone
    <2> QED BY <2>2, <2>3
  <1> QED BY <1>1, <1>2 DEF KeptBy

LEMMA KeptSame ==
  ASSUME Types, Bounded, NEW k \in Conns, \A d \in Conns \ {k} : net'[d] = net[d],
         Same(net[k], net'[k]) \/ More(net[k], net'[k]), net'[k].bufs >= net[k].bufs
  PROVE  KeptBy(Readers)
  <1>1. TendOf(k)
    BY SameLess DEF TendOf
  <1> QED BY <1>1, KeptAt

LEMMA ShutSame ==
  ASSUME NEW n \in [Conns -> Net_t], NEW c \in Conns
  PROVE  /\ Same(n[c], Shut(n, c)[c]) /\ Shut(n, c)[c].bufs = n[c].bufs /\ n[c].bufs \in Nat
         /\ \A d \in Conns \ {c} : Shut(n, c)[d] = n[d]
  <1>1. n[c] \in Net_t
    OBVIOUS
  <1>2. Shut(n, c)[c] = [n[c] EXCEPT !.open = FALSE, !.expired = FALSE, !.peer = "up",
                                     !.stream = <<>>, !.req = <<>>]
    BY Shuts
  <1>3. /\ Shut(n, c)[c].open = FALSE /\ Shut(n, c)[c].stream = <<>> /\ Shut(n, c)[c].sent = n[c].sent
        /\ Shut(n, c)[c].bufs = n[c].bufs
    BY <1>1, <1>2 DEF Net_t
  <1>4. n[c].bufs \in Nat
    BY <1>1 DEF Net_t
  <1> QED BY <1>3, <1>4, Shuts DEF Same, UpNet

\* A bufio.Reader is created.
LEMMA BufferedSame ==
  ASSUME NEW n \in [Conns -> Net_t], NEW c \in Conns
  PROVE  /\ Same(n[c], Buffered(n, c)[c]) /\ Buffered(n, c)[c].bufs = n[c].bufs + 1 /\ n[c].bufs \in Nat
         /\ \A d \in Conns \ {c} : Buffered(n, c)[d] = n[d]
  <1>0. c \in 0..MaxDials /\ c # 0
    BY Apart DEF Conns
  <1>1. n[c] \in Net_t
    OBVIOUS
  <1>2. Buffered(n, c)[c] = [n[c] EXCEPT !.bufs = n[c].bufs + 1] /\ \A d \in Conns : d # c => Buffered(n, c)[d] = n[d]
    BY <1>0, Buffers
  <1>3. /\ Buffered(n, c)[c].bufs = n[c].bufs + 1 /\ Buffered(n, c)[c].stream = n[c].stream
        /\ Buffered(n, c)[c].sent = n[c].sent /\ Buffered(n, c)[c].open = n[c].open
        /\ Buffered(n, c)[c].peer = n[c].peer
    BY <1>1, <1>2 DEF Net_t
  <1>4. n[c].bufs \in Nat
    BY <1>1 DEF Net_t
  <1> QED BY <1>2, <1>3, <1>4 DEF Same, UpNet

\* Lines are taken.
LEMMA DrainLess ==
  ASSUME Types, NEW c \in Conns, NEW k \in 0..Len(net[c].stream), net' = Drain(net, c, k)
  PROVE  /\ TendOf(c) /\ net'[c].bufs = net[c].bufs /\ \A d \in Conns \ {c} : net'[d] = net[d]
         /\ net'[c].stream = SubSeq(net[c].stream, k + 1, Len(net[c].stream)) /\ net'[c].sent = net[c].sent
         /\ UpNet(net'[c]) = UpNet(net[c])
  <1>1. net \in [Conns -> Net_t] /\ net[c] \in Net_t /\ net[c].bufs \in Nat
    BY DEF Types, Net_t
  <1>2. /\ net'[c].stream = SubSeq(net[c].stream, k + 1, Len(net[c].stream)) /\ net'[c].sent = net[c].sent
        /\ net'[c].bufs = net[c].bufs /\ net'[c].open = net[c].open /\ net'[c].peer = net[c].peer
    BY <1>1, DrainFields
  <1>3. Less(net[c], net'[c])
    BY <1>1, <1>2, TakenLess
  <1>4. \A d \in Conns \ {c} : net'[d] = net[d]
    <2>1. \A d \in Conns : d # c => Drain(net, c, k)[d] = net[d]
      BY <1>1, Drained
    <2> QED BY <2>1
  <1> QED BY <1>1, <1>2, <1>3, <1>4 DEF TendOf, UpNet

\* Lines are taken from a connection that no reader has to itself.
LEMMA KeptDrain ==
  ASSUME Types, Bounded, NEW R \in SUBSET Readers, NEW c \in Conns, NEW k \in 0..Len(net[c].stream),
         net' = Drain(net, c, k), \A r \in R : rd[r].c = c => net[c].bufs >= 2
  PROVE  KeptBy(R)
  <1>1. /\ TendOf(c) /\ net'[c].bufs = net[c].bufs /\ \A d \in Conns \ {c} : net'[d] = net[d]
    BY DrainLess
  <1>2. net[c].bufs \in Nat
    BY DEF Types, Net_t
  <1> QED BY <1>1, <1>2, KeptAt

\* A connection is dialled.
LEMMA DialLess ==
  ASSUME ConnInv, Types, dialled < MaxDials, net'[dialled + 1] = Dial
  PROVE  dialled + 1 \in Conns /\ TendOf(dialled + 1)
  <1>1. dialled + 1 \in Conns /\ dialled + 1 > dialled
    BY Apart DEF Types, Conns
  <1>2. net[dialled + 1] = Fresh
    BY <1>1 DEF ConnInv
  <1>3. Less(Fresh, Dial) /\ Dial.bufs >= Fresh.bufs
    BY NumsEmpty DEF Dial, Fresh, Less, Below
  <1> QED BY <1>1, <1>2, <1>3 DEF TendOf

\* A caller takes nothing from a reader that has its connection to itself.
LEMMA UserKeeps ==
  ASSUME Base, BufsInv, NEW t \in Users, Invoke(t) \/ UserStep(t) \/ UserLock(t)
  PROVE  KeptBy(Readers)
  <1>1. Types /\ Bounded /\ LockInv /\ ConnInv
    BY DEF Base
  <1>2. /\ net \in [Conns -> Net_t] /\ dialled \in Nat /\ conn \in Nat /\ conn <= dialled
        /\ conn # 0 => conn \in Conns
    BY <1>1, Apart DEF Types, Conns
  <1>3. net' = net => KeptBy(Readers)
    BY <1>1, KeptNone
  <1>4. conn # 0 /\ net' = Shut(net, conn) => KeptBy(Readers)
    <2> SUFFICES ASSUME conn # 0, net' = Shut(net, conn) PROVE KeptBy(Readers)
      OBVIOUS
    <2>1. /\ Same(net[conn], net'[conn]) /\ net'[conn].bufs = net[conn].bufs /\ net[conn].bufs \in Nat
          /\ \A d \in Conns \ {conn} : net'[d] = net[d]
      BY <1>2, ShutSame
    <2> QED BY <1>1, <1>2, <2>1, KeptSame
  <1>5. conn # 0 /\ net' = Buffered(net, conn) => KeptBy(Readers)
    <2> SUFFICES ASSUME conn # 0, net' = Buffered(net, conn) PROVE KeptBy(Readers)
      OBVIOUS
    <2>1. /\ Same(net[conn], net'[conn]) /\ net'[conn].bufs = net[conn].bufs + 1 /\ net[conn].bufs \in Nat
          /\ \A d \in Conns \ {conn} : net'[d] = net[d]
      BY <1>2, BufferedSame
    <2> QED BY <1>1, <1>2, <2>1, KeptSame
  <1>6. CASE Invoke(t)
    BY <1>1, <1>3, <1>6 DEF Invoke, wireVars
  <1>7. CASE Spawn(t) \/ ConnectAlready(t)
    BY <1>3, <1>7 DEF Spawn, ConnectAlready, wireVars
  <1>8. CASE ConnectDial(t)
    <2>1. CASE dialled < MaxDials /\ net' = [net EXCEPT ![dialled + 1] = Dial]
      <3>1. dialled + 1 \in Conns
        BY <1>2, <2>1, Apart DEF Conns
      <3>2. net'[dialled + 1] = Dial /\ \A d \in Conns \ {dialled + 1} : net'[d] = net[d]
        BY <1>2, <2>1, <3>1
      <3>3. TendOf(dialled + 1)
        BY <1>1, <2>1, <3>2, DialLess
      <3>4. \A r \in Readers : rd[r].c # dialled + 1
        BY <1>1, ReaderConn
      <3> QED BY <1>1, <3>1, <3>2, <3>3, <3>4, KeptAt
    <2> QED BY <1>3, <1>8, <2>1 DEF ConnectDial, wireVars
  <1>9. CASE ConnectAuth(t)
    <2>1. conn # 0 /\ conn \in Conns
      BY <1>1, <1>2, <1>9 DEF ConnectAuth, ConnInv, AuthOf
    <2>2. CASE \E k \in 1..Len(net[conn].stream) : net' = ReadBeside(Drain(net, conn, k), conn)
      <3>0. Len(net[conn].stream) \in Nat
        BY <1>2, <2>1, LenNat DEF Net_t
      <3>1. PICK k \in 0..Len(net[conn].stream) : net' = ReadBeside(Drain(net, conn, k), conn)
        BY <2>2, <3>0
      <3> DEFINE n == Drain(net, conn, k)
      <3>2. /\ n \in [Conns -> Net_t] /\ \A d \in Conns : d # conn => n[d] = net[d]
        BY <1>2, <2>1, Drained
      <3>3. /\ n[conn].stream = SubSeq(net[conn].stream, k + 1, Len(net[conn].stream))
            /\ n[conn].sent = net[conn].sent /\ n[conn].bufs = net[conn].bufs
        BY <1>2, <2>1, DrainFields
      <3> HIDE DEF n
      <3>4. /\ ReadBeside(n, conn)[conn] = [n[conn] EXCEPT !.bufs = IF n[conn].bufs = 0 THEN 0 ELSE n[conn].bufs + 1]
            /\ \A d \in Conns : d # conn => ReadBeside(n, conn)[d] = n[d]
        BY <2>1, <3>2, Beside
      <3>5. net' = ReadBeside(n, conn) /\ n[conn] \in Net_t /\ net[conn] \in Net_t /\ net[conn].bufs \in Nat
        BY <1>2, <2>1, <3>1, <3>2 DEF n, Net_t
      <3>6. /\ net'[conn].stream = n[conn].stream /\ net'[conn].sent = n[conn].sent
            /\ net'[conn].bufs = IF n[conn].bufs = 0 THEN 0 ELSE n[conn].bufs + 1
        BY <3>4, <3>5 DEF Net_t
      <3>7. Less(net[conn], net'[conn])
        BY <3>3, <3>5, <3>6, TakenLess
      <3>8. TendOf(conn) /\ \A d \in Conns \ {conn} : net'[d] = net[d]
        BY <3>2, <3>3, <3>4, <3>5, <3>6, <3>7 DEF TendOf
      <3>9. net'[conn].bufs # 1
        BY <3>3, <3>5, <3>6
      <3> QED BY <1>1, <2>1, <3>8, <3>9, KeptAt
    <2> QED BY <1>4, <1>9, <2>1, <2>2 DEF ConnectAuth
  <1>10. CASE Close(t)
    <2>1. net' = net \/ (connected /\ net' = Shut(net, conn))
      BY <1>10, CloseShape DEF Close
    <2>2. connected => conn # 0
      BY <1>1 DEF ConnInv, ConnectedIsOpen
    <2> QED BY <1>3, <1>4, <2>1, <2>2
  <1>11. CASE Command(t)
    <2>1. CASE conn # 0 /\ \E cmd : Write(conn, cmd)
      <3>1. PICK cmd : Write(conn, cmd)
        BY <2>1
      <3>2. conn \in Conns /\ net[conn] \in Net_t /\ net[conn].bufs \in Nat
        BY <1>2, <2>1 DEF Net_t
      <3>3. /\ net'[conn].stream = net[conn].stream /\ net'[conn].sent = net[conn].sent
            /\ net'[conn].open = net[conn].open /\ net'[conn].peer = net[conn].peer
            /\ net'[conn].bufs = net[conn].bufs /\ \A d \in Conns \ {conn} : net'[d] = net[d]
        BY <1>2, <3>1, <3>2 DEF Write, Net_t
      <3> QED BY <1>1, <3>2, <3>3, KeptSame DEF Same, UpNet
    <2> QED BY <1>3, <1>11, <2>1 DEF Command, Panic
  <1>12. CASE CommandReader(t)
    <2>1. conn = 0 => net' = net
      BY <1>12 DEF CommandReader, Buffered
    <2> QED BY <1>3, <1>5, <1>12, <2>1 DEF CommandReader
  <1>13. CASE CommandRead(t)
    <2>1. CASE op[t].c # 0 /\ \E x \in Reads(op[t].c, op[t].buf) : net' = Drain(net, op[t].c, x.taken)
      <3>1. op[t].c \in Conns /\ op[t].buf \in Lines_t /\ Reading(t)
        BY <1>1, <1>13, <2>1, Apart DEF Types, Bounded, Op_t, Conns, CommandRead, ReadLine, Reading
      <3>2. PICK x \in Reads(op[t].c, op[t].buf) : net' = Drain(net, op[t].c, x.taken)
        BY <2>1
      <3>3. x.taken \in 0..Len(net[op[t].c].stream)
        BY <1>1, <3>1, ReadTypes
      <3>4. \A r \in Readers : rd[r].c = op[t].c => net[op[t].c].bufs >= 2
        BY <2>1, <3>1 DEF BufsInv, BufsOf
      <3> QED BY <1>1, <3>1, <3>2, <3>3, <3>4, KeptDrain
    <2> QED BY <1>3, <1>13, <2>1 DEF CommandRead, ReadLine, Panic
  <1>14. CASE Stop(t)
    <2>1. CASE connected /\ net' = Buffered([net EXCEPT ![conn].req = Append(@, "stop")], conn)
      <3>1. conn \in Conns /\ conn # 0
        BY <1>1, <1>2, <2>1 DEF ConnInv, ConnectedIsOpen
      <3> DEFINE n == [net EXCEPT ![conn].req = Append(@, "stop")]
      <3>2. n \in [Conns -> Net_t]
        BY <1>2, <3>1, Appends
      <3>3. net[conn] \in Net_t /\ net[conn].bufs \in Nat
        BY <1>2, <3>1 DEF Net_t
      <3>4. /\ n[conn].stream = net[conn].stream /\ n[conn].sent = net[conn].sent
            /\ n[conn].open = net[conn].open /\ n[conn].peer = net[conn].peer
            /\ n[conn].bufs = net[conn].bufs /\ \A d \in Conns \ {conn} : n[d] = net[d]
        BY <1>2, <3>1, <3>3 DEF Net_t
      <3>5. net' = Buffered(n, conn)
        BY <2>1
      <3> HIDE DEF n
      <3>6. /\ Same(n[conn], net'[conn]) /\ net'[conn].bufs = n[conn].bufs + 1
            /\ \A d \in Conns \ {conn} : net'[d] = n[d]
        BY <3>1, <3>2, <3>5, BufferedSame
      <3>7. Same(net[conn], net'[conn]) /\ \A d \in Conns \ {conn} : net'[d] = net[d]
        BY <3>4, <3>6 DEF Same, UpNet
      <3> QED BY <1>1, <3>1, <3>3, <3>4, <3>6, <3>7, KeptSame
    <2> QED BY <1>3, <1>14, <2>1 DEF Stop
  <1>15. CASE StopReply(t)
    <2>1. conn \in Conns
      BY <1>1, <1>2, <1>15 DEF StopReply, ConnInv
    <2>2. CASE \E x \in Reads(conn, <<>>) : net' = Drain(net, conn, x.taken)
      <3>1. PICK x \in Reads(conn, <<>>) : net' = Drain(net, conn, x.taken)
        BY <2>2
      <3>2. x.taken \in 0..Len(net[conn].stream)
        BY <1>1, <2>1, ReadTypes, NumsEmpty
      <3>3. \A r \in Readers : rd[r].c = conn => net[conn].bufs >= 2
        <4>1. conn # 0 /\ op[t].pc = "stopReply"
          BY <1>15, <2>1 DEF Conns, StopReply
        <4> QED BY <4>1 DEF BufsInv, BufsOf
      <3> QED BY <1>1, <2>1, <3>1, <3>2, <3>3, KeptDrain
    <2> QED BY <1>3, <1>15, <2>2 DEF StopReply
  <1> QED BY <1>6, <1>7, <1>8, <1>9, <1>10, <1>11, <1>12, <1>13, <1>14, <1>15 DEF UserStep, UserLock

\* Nor does the controller; what it sends follows what it sent.
LEMMA NetKeeps ==
  ASSUME Types, Bounded, Types', NEW c \in Conns, Environment(c) \/ Expire(c)
  PROVE  KeptBy(Readers)
  <1>1. /\ net \in [Conns -> Net_t] /\ net[c] \in Net_t /\ net'[c] \in Net_t
        /\ net[c].stream \in Lines_t /\ net[c].stream \in Seq(Line_t) /\ net[c].sent \in Nat /\ net[c].bufs \in Nat
    BY NetInts DEF Types, Net_t, Lines_t
  <1>2. PICK v \in Net_t : NetStep(c, v)
    BY NetShape
  <1>3. net'[c].open /\ net'[c].bufs = net[c].bufs /\ net[c].open /\ \A d \in Conns \ {c} : net'[d] = net[d]
    BY <1>1, <1>2 DEF NetStep
  <1>4. ASSUME Same(net[c], net'[c]) \/ More(net[c], net'[c]) PROVE KeptBy(Readers)
    BY <1>1, <1>3, <1>4, KeptSame
  <1>5. ASSUME NEW lines \in Lines_t, Up(c), net'[c].sent >= net[c].sent,
               net'[c].stream = net[c].stream \o lines, Asc(lines),
               Nums(lines) \subseteq (net[c].sent + 1)..net'[c].sent,
               (net[c].sent + 1)..net'[c].sent \subseteq Empty \cup Nums(lines)
        PROVE  KeptBy(Readers)
    BY <1>1, <1>4, <1>5, SentMore DEF Up, UpNet
  <1>6. CASE Answer(c)
    <2>1. PICK n, h, lines : AnswerOf(c, n, h, lines)
      BY <1>6, AnswerShape
    <2>2. /\ n \in Nat /\ Numbered(c, "alarm", n) \in Lines_t /\ Line("head", h) \in Line_t /\ lines \in Lines_t
      BY <2>1, AnswerTypes
    <2>3. net'[c].stream = net[c].stream \o lines /\ net'[c].sent = net[c].sent + n /\ Up(c)
      BY <1>1, <2>1 DEF AnswerOf, Net_t
    <2>4. Asc(lines) /\ Nums(lines) = (net[c].sent + 1)..net'[c].sent
      <3>1. CASE lines = <<Line("head", h)>> \o Numbered(c, "alarm", n)
        <4>1. ~HasNumber(Line("head", h))
          BY DEF HasNumber, Line
        <4>2. /\ Asc(Numbered(c, "alarm", n))
              /\ Nums(Numbered(c, "alarm", n)) = (net[c].sent + 1)..(net[c].sent + n)
          BY <1>1, <2>2, NumberedNums
        <4> QED BY <2>2, <2>3, <3>1, <4>1, <4>2, NumsHeaded
      <3>2. CASE n = 0 /\ lines = <<Line("ok", 0)>>
        <4>1. ~HasNumber(Line("ok", 0)) /\ Line("ok", 0) \in Line_t
          BY Apart DEF HasNumber, Line, Line_t
        <4>2. Asc(lines) /\ Nums(lines) = {}
          BY <3>2, <4>1, NumsSingle
        <4>3. (net[c].sent + 1)..net'[c].sent = {}
          BY <1>1, <2>3, <3>2
        <4> QED BY <4>2, <4>3
      <3> QED BY <2>1, <3>1, <3>2 DEF AnswerOf
    <2>5. net'[c].sent >= net[c].sent
      BY <1>1, <2>2, <2>3
    <2> QED BY <1>5, <2>2, <2>3, <2>4, <2>5
  <1>7. CASE Refuse(c)
    <2>1. ~HasNumber(Line("no", 0)) /\ Line("no", 0) \in Line_t
      BY Apart DEF HasNumber, Line, Line_t
    <2>2. net'[c].stream = Append(net[c].stream, Line("no", 0)) /\ net'[c].sent = net[c].sent /\ Up(c)
      <3>1. ASSUME NEW x, net' = [net EXCEPT ![c].stream = Append(@, x), ![c].req = Tail(@)]
            PROVE  net'[c].stream = Append(net[c].stream, x) /\ net'[c].sent = net[c].sent
        BY <1>1, <3>1 DEF Net_t
      <3> QED BY <1>7, <3>1, Zenon DEF Refuse, Controlled
    <2>3. net'[c].stream = net[c].stream \o <<Line("no", 0)>>
      BY <1>1, <2>1, <2>2, AppendIsConcat
    <2>4. <<Line("no", 0)>> \in Lines_t /\ Asc(<<Line("no", 0)>>) /\ Nums(<<Line("no", 0)>>) = {}
      BY <2>1, NumsSingle
    <2>5. (net[c].sent + 1)..net'[c].sent = {} /\ net'[c].sent >= net[c].sent
      BY <1>1, <2>2
    <2> QED BY <1>5, <2>2, <2>3, <2>4, <2>5
  <1>8. CASE Emit(c)
    <2> DEFINE n == net[c].sent + 1
               line == Line(IF n \in Empty THEN "blank" ELSE "log", n)
    <2>1. n \in 0..MaxLines
      BY <1>1, <1>8, Apart DEF Emit, Net_t
    <2>2. line \in Line_t /\ line.n = n /\ (HasNumber(line) <=> n \notin Empty)
      BY <2>1 DEF Line, Line_t, HasNumber
    <2>3. net'[c].stream = Append(net[c].stream, line) /\ net'[c].sent = n /\ Up(c)
      <3>1. ASSUME NEW x, NEW k, net' = [net EXCEPT ![c].stream = Append(@, x), ![c].sent = k]
            PROVE  net'[c].stream = Append(net[c].stream, x) /\ net'[c].sent = k
        BY <1>1, <3>1 DEF Net_t
      <3> QED BY <1>8, <3>1, Zenon DEF Emit, Controlled
    <2> HIDE DEF line
    <2>4. net'[c].stream = net[c].stream \o <<line>>
      BY <1>1, <2>2, <2>3, AppendIsConcat
    <2>5. <<line>> \in Lines_t /\ Asc(<<line>>) /\ Nums(<<line>>) = IF n \in Empty THEN {} ELSE {n}
      BY <2>2, NumsSingle
    <2>6. (net[c].sent + 1)..net'[c].sent = {n} /\ net'[c].sent >= net[c].sent
      BY <1>1, <2>3
    <2> HIDE DEF n
    <2>7. Nums(<<line>>) \subseteq {n} /\ {n} \subseteq Empty \cup Nums(<<line>>)
      BY <2>5
    <2> QED BY <1>5, <2>3, <2>4, <2>5, <2>6, <2>7
  <1>9. CASE Silent(c) \/ Fin(c) \/ Rst(c) \/ Expire(c)
    <2>1. /\ net'[c].sent = net[c].sent /\ (UpNet(net'[c]) => UpNet(net[c]))
          /\ net'[c].stream = net[c].stream \/ (net'[c].stream = <<>> /\ ~UpNet(net'[c]))
      <3>1. CASE Silent(c)
        BY <1>1, <3>1 DEF Silent, Controlled, UpNet, Net_t
      <3>2. CASE Fin(c)
        BY <1>1, <3>2 DEF Fin, Controlled, UpNet, Up, Net_t
      <3>3. CASE Rst(c)
        BY <1>1, <3>3 DEF Rst, Controlled, UpNet, Up, Net_t
      <3>4. CASE Expire(c)
        BY <1>1, <3>4 DEF Expire, Controlled, UpNet, Net_t
      <3> QED BY <1>9, <3>1, <3>2, <3>3, <3>4
    <2> QED BY <1>4, <2>1 DEF Same
  <1> QED BY <1>6, <1>7, <1>8, <1>9 DEF Environment

\* Nor does another reader.
LEMMA ReadKeeps ==
  ASSUME Base, BufsInv, NEW q \in Readers, ReaderRead(q)
  PROVE  KeptBy(Readers \ {q}) /\ (net' = net => KeptBy(Readers))
  <1>1. Types /\ Bounded
    BY DEF Base
  <1>2. net' = net => KeptBy(Readers)
    BY <1>1, KeptNone
  <1>3. CASE rd[q].c # 0 /\ \E x \in Reads(rd[q].c, rd[q].buf) : net' = Drain(net, rd[q].c, x.taken)
    <2>1. PICK x \in Reads(rd[q].c, rd[q].buf) : net' = Drain(net, rd[q].c, x.taken)
      BY <1>3
    <2>2. rd[q].c \in Conns /\ rd[q].buf \in Lines_t
      BY <1>1, <1>3, ReaderConn DEF Types, Rd_t
    <2>3. x.taken \in 0..Len(net[rd[q].c].stream)
      BY <1>1, <2>2, ReadTypes
    <2>4. \A r \in Readers \ {q} : rd[r].c = rd[q].c => net[rd[q].c].bufs >= 2
      BY <1>3 DEF BufsInv, BufsOf
    <2>5. KeptBy(Readers \ {q})
      BY <1>1, <2>1, <2>2, <2>3, <2>4, KeptDrain
    <2> QED BY <1>2, <2>5
  <1>4. CASE net' = net
    BY <1>2, <1>4 DEF KeptBy
  <1> QED BY <1>3, <1>4 DEF ReaderRead, Panic

LEMMA ReaderKeeps ==
  ASSUME Base, BufsInv, NEW q \in Readers, ReaderStep(q) \/ ReaderLock(q) \/ Receive(q), ~ReaderRead(q)
  PROVE  KeptBy(Readers)
  <1>1. Types /\ Bounded /\ LockInv /\ ConnInv
    BY DEF Base
  <1>2. /\ net \in [Conns -> Net_t] /\ dialled \in Nat /\ conn \in Nat /\ conn <= dialled
        /\ conn # 0 => conn \in Conns
    BY <1>1, Apart DEF Types, Conns
  <1>3. net' = net => KeptBy(Readers)
    BY <1>1, KeptNone
  <1>4. ASSUME NEW c \in Conns, net' = Shut(net, c) PROVE KeptBy(Readers)
    <2>1. /\ Same(net[c], net'[c]) /\ net'[c].bufs = net[c].bufs /\ net[c].bufs \in Nat
          /\ \A d \in Conns \ {c} : net'[d] = net[d]
      BY <1>2, <1>4, ShutSame
    <2> QED BY <1>1, <2>1, KeptSame
  <1>5. CASE ReaderStart(q)
    <2>1. CASE conn = 0
      BY <1>3, <1>5, <2>1 DEF ReaderStart, Buffered
    <2>2. CASE conn # 0
      <3>1. /\ Same(net[conn], net'[conn]) /\ net'[conn].bufs = net[conn].bufs + 1 /\ net[conn].bufs \in Nat
            /\ \A d \in Conns \ {conn} : net'[d] = net[d]
        BY <1>2, <1>5, <2>2, BufferedSame DEF ReaderStart
      <3> QED BY <1>1, <1>2, <2>2, <3>1, KeptSame
    <2> QED BY <2>1, <2>2
  <1>6. CASE ReaderPoll(q) \/ ReaderSend(q) \/ CloseChan(q) \/ Receive(q)
    BY <1>3, <1>6 DEF ReaderPoll, ReaderSend, CloseChan, Receive, wireVars
  <1>7. CASE ReconnectAuth(q)
    <2>1. dialled \in Conns /\ rd[q].pc = "reauth"
      <3>1. conn # dialled /\ rd[q].pc = "reauth"
        BY <1>1, <1>7 DEF ReconnectAuth, ConnInv, ReauthOf
      <3>2. dialled # 0 /\ dialled \in 0..MaxDials
        BY <1>1, <1>2, <3>1 DEF Types
      <3> QED BY <3>1, <3>2, Apart DEF Conns
    <2>2. CASE \E k \in 1..Len(net[dialled].stream) : net' = Drain(net, dialled, k)
      <3>1. PICK k \in 0..Len(net[dialled].stream) : net' = Drain(net, dialled, k)
        <4>1. Len(net[dialled].stream) \in Nat
          BY <1>2, <2>1, LenNat DEF Net_t
        <4> QED BY <2>2, <4>1
      <3>2. \A r \in Readers : rd[r].c # dialled
        BY <2>1 DEF BufsInv, BufsOf, Conns
      <3> QED BY <1>1, <2>1, <3>1, <3>2, KeptDrain
    <2> QED BY <1>4, <1>7, <2>1, <2>2 DEF ReconnectAuth
  <1>8. CASE ReaderClose(q)
    <2>1. net' = net \/ (connected /\ net' = Shut(net, conn))
      BY <1>8, CloseShape DEF ReaderClose
    <2>2. connected => conn # 0
      BY <1>1 DEF ConnInv, ConnectedIsOpen
    <2> QED BY <1>2, <1>3, <1>4, <2>1, <2>2
  <1>9. CASE Reconnect(q)
    <2>1. OldClosed = net \/ (conn \in Conns /\ OldClosed = Shut(net, conn))
      BY <1>2 DEF OldClosed
    <2>2. CASE net' = OldClosed
      BY <1>3, <1>4, <2>1, <2>2
    <2>3. CASE dialled < MaxDials /\ net' = [OldClosed EXCEPT ![dialled + 1] = Dial]
      <3>1. dialled + 1 \in Conns
        BY <1>2, <2>3, Apart DEF Conns
      <3>2. OldClosed \in [Conns -> Net_t]
        <4>1. conn \in Conns => Shut(net, conn) \in [Conns -> Net_t]
          BY <1>2, Shuts
        <4> QED BY <1>2, <2>1, <4>1
      <3>3. net'[dialled + 1] = Dial /\ \A d \in Conns \ {dialled + 1} : net'[d] = OldClosed[d]
        BY <2>3, <3>1, <3>2
      <3>4. TendOf(dialled + 1)
        BY <1>1, <2>3, <3>3, DialLess
      <3>5. \A d \in Conns : Same(net[d], OldClosed[d]) /\ OldClosed[d].bufs >= net[d].bufs
        <4>1. CASE OldClosed = net
          BY <1>1, <4>1, Itself
        <4>2. CASE conn \in Conns /\ OldClosed = Shut(net, conn)
          <5>1. /\ Same(net[conn], OldClosed[conn]) /\ OldClosed[conn].bufs = net[conn].bufs /\ net[conn].bufs \in Nat
                /\ \A d \in Conns \ {conn} : OldClosed[d] = net[d]
            BY <1>2, <4>2, ShutSame
          <5> QED BY <1>1, <5>1, Itself
        <4> QED BY <2>1, <4>1, <4>2
      <3>6. \A c \in Conns : TendOf(c)
        BY <3>3, <3>4, <3>5, SameLess DEF TendOf
      <3>7. ASSUME NEW r \in Readers PROVE Alone(r)
        <4>1. rd[r].c # 0 => rd[r].c \in Conns \ {dialled + 1}
          BY <1>1, ReaderConn
        <4> QED BY <3>3, <3>5, <4>1 DEF Alone
      <3> QED BY <3>6, <3>7 DEF KeptBy
    <2> QED BY <1>9, <2>2, <2>3 DEF Reconnect
  <1> QED BY <1>5, <1>6, <1>7, <1>8, <1>9 DEF ReaderStep, ReaderLock

-----------------------------------------------------------------------------
(* bufs counts what reads from a connection                                *)

\* Nothing begins to read, and nothing is dialled or connected while it is read from.
LEMMA BufsCalm ==
  ASSUME Types, Bounded, Types', ConnInv, BufsInv,
         \A c \in Conns : net'[c].bufs >= net[c].bufs,
         \A r \in Readers : rd'[r].c = rd[r].c,
         \A t \in Users : op'[t].pc \in {"reply", "alarms"} => Reading(t) /\ op'[t].c = op[t].c,
         \A t \in Users : op'[t].pc = "stopReply" => op[t].pc = "stopReply" /\ conn' = conn,
         \A q \in Readers : rd'[q].pc = "reauth" => rd[q].pc = "reauth" /\ dialled' = dialled
  PROVE  BufsInv'
  <1>1. \A c \in Conns : net[c].bufs \in Nat /\ net'[c].bufs \in Nat
    BY DEF Types, Net_t
  <1>2. \A c \in Conns : /\ net[c].bufs >= 1 => net'[c].bufs >= 1
                         /\ net[c].bufs >= 2 => net'[c].bufs >= 2
    BY <1>1
  <1>3. ASSUME NEW r \in Readers PROVE BufsOf(r)'
    <2>1. rd[r].c # 0 => rd[r].c \in Conns
      BY ReaderConn
    <2>2. BufsOf(r) /\ rd'[r].c = rd[r].c
      BY DEF BufsInv
    <2> QED BY <1>2, <2>1, <2>2 DEF BufsOf, Reading
  <1>4. ASSUME NEW t \in Users, Reading(t)', op'[t].c # 0 PROVE net'[op'[t].c].bufs >= 1
    <2>1. op'[t].c = op[t].c /\ Reading(t)
      BY <1>4 DEF Reading
    <2>2. op[t].c \in Conns /\ net[op[t].c].bufs >= 1
      <3>1. op[t].c \in 0..MaxDials /\ op[t].c # 0
        BY <1>4, <2>1 DEF Types, Op_t
      <3> QED BY <2>1, <3>1, Apart DEF BufsInv, Conns
    <2> QED BY <1>2, <2>1, <2>2
  <1>5. ASSUME NEW t \in Users, op'[t].pc = "stopReply" PROVE net'[conn'].bufs >= 1
    <2>1. op[t].pc = "stopReply" /\ conn' = conn
      BY <1>5
    <2>2. conn # 0 /\ net[conn].bufs >= 1
      BY <2>1 DEF BufsInv, ConnInv
    <2>3. conn \in Conns
      BY <2>2, Apart DEF Types, Conns
    <2> QED BY <1>2, <2>1, <2>2, <2>3
  <1> QED BY <1>3, <1>4, <1>5 DEF BufsInv

LEMMA KeptBufs == ASSUME NEW R, KeptBy(R) PROVE \A c \in Conns : net'[c].bufs >= net[c].bufs
  BY DEF KeptBy, TendOf

LEMMA PanicFields ==
  ASSUME Types, Panic
  PROVE  /\ \A t \in Users : op'[t].pc = "dead"
         /\ \A r \in Readers : rd'[r].pc = "dead" /\ rd'[r].c = rd[r].c /\ rd'[r].buf = rd[r].buf
                               /\ rd'[r].hand = rd[r].hand
  BY DEF Types, Panic, Op_t, Rd_t

\* A call reads from a connection from CommandReader and from Stop on.
LEMMA UserCalmBufs ==
  ASSUME Base, BufsInv, Types', NEW t \in Users, Invoke(t) \/ UserStep(t) \/ UserLock(t),
         ~CommandReader(t), ~Stop(t)
  PROVE  BufsInv'
  <1>1. Types /\ Bounded /\ LockInv /\ ConnInv
    BY DEF Base
  <1>2. \A c \in Conns : net'[c].bufs >= net[c].bufs
    BY UserKeeps, KeptBufs
  <1>3. ASSUME Panic, UNCHANGED conn, UNCHANGED dialled PROVE BufsInv'
    BY <1>1, <1>2, <1>3, PanicFields, BufsCalm
  <1>4. ASSUME \A u \in Users \ {t} : op'[u] = op[u], rd' = rd, op'[t].pc # "stopReply",
               op'[t].pc \in {"reply", "alarms"} => Reading(t) /\ op'[t].c = op[t].c,
               (conn' = conn /\ dialled' = dialled) \/ mutex = NoOne
        PROVE  BufsInv'
    <2>1. \A u \in Users \ {t} : op[u].pc = "stopReply" => conn' = conn
      BY <1>1, <1>4, FreeMutex
    <2>2. \A q \in Readers : rd[q].pc = "reauth" => dialled' = dialled
      BY <1>1, <1>4, FreeMutex
    <2> QED BY <1>1, <1>2, <1>4, <2>1, <2>2, BufsCalm DEF Reading
  <1>5. ASSUME Return(t), rd' = rd, (conn' = conn /\ dialled' = dialled) \/ mutex = NoOne
        PROVE  BufsInv'
    BY <1>1, <1>4, <1>5, ReturnMoves
  <1>6. ASSUME NEW p, Goto(t, p), p \notin {"reply", "alarms", "stopReply"}, rd' = rd,
               (conn' = conn /\ dialled' = dialled) \/ mutex = NoOne
        PROVE  BufsInv'
    BY <1>1, <1>4, <1>6, GotoMoves
  <1>7. op[t].then \notin {"reply", "alarms", "stopReply"}
    BY <1>1 DEF Types, Op_t, Then_t
  <1>8. CASE Invoke(t)
    <2>1. PICK m, p : InvokeAs(t, m, p)
      BY <1>8, InvokeShape
    <2> QED BY <1>1, <1>4, <1>8, <2>1, InvokeMoves
  <1>9. CASE ConnectAlready(t)
    BY <1>6, <1>7, <1>9 DEF ConnectAlready, connVars, wireVars
  <1>10. CASE ConnectDial(t)
    BY <1>5, <1>6, <1>10 DEF ConnectDial
  <1>11. CASE ConnectAuth(t)
    BY <1>5, <1>6, <1>7, <1>11 DEF ConnectAuth
  <1>12. CASE Close(t)
    BY <1>5, <1>12 DEF Close
  <1>13. CASE Spawn(t)
    <2>1. op[t].id \in Readers /\ At(op[t].id, "start") /\ op[t].pc = "spawn"
      BY <1>13, Apart DEF Base, IdsInv, Types, Readers, Spawn, At
    <2>2. \A r \in Readers : rd'[r].c = rd[r].c /\ (rd'[r].pc = "reauth" => rd[r].pc = "reauth")
      <3>1. /\ \A q \in Readers \ {op[t].id} : rd'[q] = rd[q]
            /\ rd'[op[t].id].pc = "start" /\ rd'[op[t].id].c = rd[op[t].id].c
        BY <1>1, <2>1, AtMoves
      <3> QED BY <3>1
    <2>3. Return(t) /\ conn' = conn /\ dialled' = dialled
      BY <1>13 DEF Spawn, connVars, wireVars
    <2>4. op'[t].pc = "idle" /\ \A u \in Users \ {t} : op'[u] = op[u]
      BY <1>1, <2>3, ReturnMoves
    <2> QED BY <1>1, <1>2, <2>2, <2>3, <2>4, BufsCalm DEF Reading
  <1>14. CASE Command(t)
    BY <1>3, <1>5, <1>6, <1>14 DEF Command, connVars
  <1>15. CASE CommandRead(t)
    <2>1. Reading(t) /\ conn' = conn /\ dialled' = dialled
      BY <1>15 DEF CommandRead, ReadLine, connVars, Reading
    <2>2. ASSUME NEW x, CommandLine(t, x), rd' = rd PROVE BufsInv'
      BY <1>1, <1>4, <2>1, <2>2, CommandMoves
    <2> QED BY <1>3, <1>5, <1>15, <2>1, <2>2 DEF CommandRead, ReadLine
  <1>16. CASE StopReply(t)
    BY <1>5, <1>16 DEF StopReply, connVars
  <1> QED BY <1>8, <1>9, <1>10, <1>11, <1>12, <1>13, <1>14, <1>15, <1>16 DEF UserStep, UserLock

\* A bufio.Reader on lr.conn: whoever reads from it counts one more.
LEMMA UserBufs ==
  ASSUME Base, BufsInv, Types', NEW t \in Users, CommandReader(t) \/ Stop(t)
  PROVE  BufsInv'
  <1>1. Types /\ Bounded /\ LockInv /\ ConnInv
    BY DEF Base
  <1>2. \A c \in Conns : net'[c].bufs >= net[c].bufs /\ net[c].bufs \in Nat
    BY <1>1, UserKeeps, KeptBufs DEF UserStep, UserLock, Types, Net_t
  <1>more. \A c \in Conns : /\ net[c].bufs >= 1 => net'[c].bufs >= 1
                            /\ net[c].bufs >= 2 => net'[c].bufs >= 2
                            /\ net'[c].bufs >= 2 => net'[c].bufs >= 1
    <2>1. \A c \in Conns : net'[c].bufs \in Nat
      BY DEF Types, Net_t
    <2> QED BY <1>2, <2>1
  <1>3. /\ net \in [Conns -> Net_t] /\ (conn # 0 => conn \in Conns)
    BY <1>1, Apart DEF Types, Conns
  <1>4. UNCHANGED <<conn, dialled, rd>>
    BY DEF CommandReader, Stop, connVars
  <1>5. CASE CommandReader(t)
    <2>1. op'[t].pc = "reply" /\ op'[t].c = conn /\ \A u \in Users \ {t} : op'[u] = op[u]
      BY <1>1, <1>5 DEF CommandReader, Types, Op_t
    <2>2. conn # 0 => net'[conn].bufs = net[conn].bufs + 1
      BY <1>3, <1>5, BufferedSame DEF CommandReader
    <2>3. ASSUME NEW r \in Readers, rd[r].c = conn, conn # 0 PROVE net'[conn].bufs >= 2
      BY <1>2, <1>3, <2>2, <2>3 DEF BufsInv, BufsOf
    <2>4. ASSUME NEW r \in Readers PROVE BufsOf(r)'
      <3>1. BufsOf(r) /\ (rd[r].c # 0 => rd[r].c \in Conns)
        BY <1>1, ReaderConn DEF BufsInv
      <3>2. CASE rd[r].c = conn
        <4>1. rd[r].c # 0 => net'[rd[r].c].bufs >= 2 /\ net'[rd[r].c].bufs >= 1
          BY <1>more, <1>3, <2>3, <3>2
        <4> QED BY <1>4, <3>1, <4>1 DEF BufsOf
      <3>3. CASE rd[r].c # conn
        <4>1. rd[r].c # 0 => /\ net[rd[r].c].bufs >= 1 => net'[rd[r].c].bufs >= 1
                             /\ net[rd[r].c].bufs >= 2 => net'[rd[r].c].bufs >= 2
          BY <1>more, <3>1
        <4> QED BY <1>4, <2>1, <3>1, <3>3, <4>1 DEF BufsOf, Reading
      <3> QED BY <3>2, <3>3
    <2>5. ASSUME NEW u \in Users, Reading(u)', op'[u].c # 0 PROVE net'[op'[u].c].bufs >= 1
      <3>1. CASE u = t
        BY <1>2, <1>3, <2>1, <2>2, <2>5, <3>1
      <3>2. CASE u # t
        <4>1. Reading(u) /\ op[u].c # 0 /\ op'[u].c = op[u].c /\ op[u].c \in 0..MaxDials
          BY <1>1, <2>1, <2>5, <3>2 DEF Reading, Types, Op_t
        <4>2. op[u].c \in Conns /\ net[op[u].c].bufs >= 1
          BY <4>1, Apart DEF BufsInv, Conns
        <4> QED BY <1>more, <4>1, <4>2
      <3> QED BY <3>1, <3>2
    <2>6. ASSUME NEW u \in Users, op'[u].pc = "stopReply" PROVE net'[conn'].bufs >= 1
      <3>1. op[u].pc = "stopReply"
        BY <2>1, <2>6
      <3>2. net[conn].bufs >= 1 /\ conn \in Conns
        BY <1>1, <1>3, <3>1 DEF BufsInv, ConnInv
      <3> QED BY <1>more, <1>4, <3>2
    <2> QED BY <2>4, <2>5, <2>6 DEF BufsInv
  <1>6. CASE Stop(t)
    <2>1. CASE Return(t)
      <3>1. op'[t].pc = "idle" /\ \A u \in Users \ {t} : op'[u] = op[u]
        BY <1>1, <2>1, ReturnMoves
      <3> QED BY <1>1, <1>2, <1>4, <3>1, BufsCalm DEF Reading
    <2>2. CASE connected /\ net' = Buffered([net EXCEPT ![conn].req = Append(@, "stop")], conn) /\ Goto(t, "stopReply")
      <3>1. conn \in Conns /\ conn # 0
        BY <1>1, <1>3, <2>2 DEF ConnInv, ConnectedIsOpen
      <3>2. op'[t].pc = "stopReply" /\ op[t].pc = "stop" /\ \A u \in Users \ {t} : op'[u] = op[u]
        BY <1>1, <1>6, <2>2, GotoMoves DEF Stop
      <3>3. net'[conn].bufs = net[conn].bufs + 1
        <4> DEFINE n == [net EXCEPT ![conn].req = Append(@, "stop")]
        <4>1. n \in [Conns -> Net_t]
          BY <1>3, <3>1, Appends
        <4>2. n[conn].bufs = net[conn].bufs
          BY <1>3, <3>1 DEF Net_t
        <4>3. net' = Buffered(n, conn)
          BY <2>2
        <4> HIDE DEF n
        <4> QED BY <3>1, <4>1, <4>2, <4>3, BufferedSame
      <3>4. net'[conn].bufs >= 1
        BY <1>2, <3>1, <3>3
      <3>5. ASSUME NEW r \in Readers PROVE BufsOf(r)'
        <4>1. BufsOf(r) /\ (rd[r].c # 0 => rd[r].c \in Conns)
          BY <1>1, ReaderConn DEF BufsInv
        <4>2. rd[r].c # 0 => /\ net[rd[r].c].bufs >= 1 => net'[rd[r].c].bufs >= 1
                             /\ net[rd[r].c].bufs >= 2 => net'[rd[r].c].bufs >= 2
          BY <1>more, <4>1
        <4>3. rd[r].c = conn => net'[conn].bufs >= 2
          BY <1>2, <3>1, <3>3, <4>1 DEF BufsOf
        <4>4. \A u \in Users : Reading(u)' => Reading(u) /\ op'[u].c = op[u].c
          BY <3>2 DEF Reading
        <4> QED BY <1>4, <4>1, <4>2, <4>3, <4>4 DEF BufsOf
      <3>6. ASSUME NEW u \in Users, Reading(u)', op'[u].c # 0 PROVE net'[op'[u].c].bufs >= 1
        <4>1. Reading(u) /\ op[u].c # 0 /\ op'[u].c = op[u].c /\ op[u].c \in 0..MaxDials
          BY <1>1, <3>2, <3>6 DEF Reading, Types, Op_t
        <4>2. op[u].c \in Conns /\ net[op[u].c].bufs >= 1
          BY <4>1, Apart DEF BufsInv, Conns
        <4> QED BY <1>more, <4>1, <4>2
      <3> QED BY <1>4, <3>4, <3>5, <3>6 DEF BufsInv
    <2> QED BY <1>6, <2>1, <2>2 DEF Stop
  <1> QED BY <1>5, <1>6

\* A reader reads from lr.conn from ReaderStart on; what Reconnect dials nobody reads from.
LEMMA ReaderBufs ==
  ASSUME Base, BufsInv, Types', NEW r \in Readers, ReaderStep(r) \/ ReaderLock(r) \/ Receive(r)
  PROVE  BufsInv'
  <1>1. Types /\ Bounded /\ LockInv /\ ConnInv
    BY DEF Base
  <1>2. \A c \in Conns : net'[c].bufs >= net[c].bufs /\ net[c].bufs \in Nat
    BY <1>1, ReadKeeps, ReaderKeeps, KeptBufs DEF Types, Net_t
  <1>more. \A c \in Conns : /\ net[c].bufs >= 1 => net'[c].bufs >= 1
                            /\ net[c].bufs >= 2 => net'[c].bufs >= 2
                            /\ net'[c].bufs >= 2 => net'[c].bufs >= 1
    <2>1. \A c \in Conns : net'[c].bufs \in Nat
      BY DEF Types, Net_t
    <2> QED BY <1>2, <2>1
  <1>3. /\ net \in [Conns -> Net_t] /\ (conn # 0 => conn \in Conns)
    BY <1>1, Apart DEF Types, Conns
  <1>4. ASSUME Panic, UNCHANGED conn, UNCHANGED dialled PROVE BufsInv'
    BY <1>1, <1>2, <1>4, PanicFields, BufsCalm
  <1>5. ASSUME op' = op, \A q \in Readers \ {r} : rd'[q] = rd[q], rd'[r].c = rd[r].c, rd'[r].pc # "reauth",
               dialled' = dialled, conn' = conn \/ \A u \in Users : op[u].pc # "stopReply"
        PROVE  BufsInv'
    <2>1. \A q \in Readers : rd'[q].c = rd[q].c
      BY <1>5
    <2>2. \A u \in Users : op[u].pc = "stopReply" => conn' = conn
      BY <1>5
    <2> QED BY <1>1, <1>2, <1>5, <2>1, <2>2, BufsCalm DEF Reading
  <1>6. ASSUME NEW p, At(r, p), p # "reauth", op' = op, dialled' = dialled,
               conn' = conn \/ \A u \in Users : op[u].pc # "stopReply"
        PROVE  BufsInv'
    BY <1>1, <1>5, <1>6, AtMoves
  <1>7. CASE ReaderStart(r)
    <2>1. rd'[r].c = conn /\ rd'[r].pc = "loop" /\ \A q \in Readers \ {r} : rd'[q] = rd[q]
      BY <1>1, <1>7 DEF ReaderStart, Types, Rd_t
    <2>2. UNCHANGED <<op, conn, dialled>>
      BY <1>7 DEF ReaderStart, connVars
    <2>3. conn # 0 => net'[conn].bufs = net[conn].bufs + 1
      BY <1>3, <1>7, BufferedSame DEF ReaderStart
    <2>4. BufsOf(r)'
      <3> SUFFICES ASSUME conn # 0 PROVE BufsOf(r)'
        BY <2>1 DEF BufsOf
      <3>1. conn \in Conns /\ net'[conn].bufs >= 1 /\ (net[conn].bufs >= 1 => net'[conn].bufs >= 2)
        BY <1>2, <1>3, <2>3
      <3>2. \A u \in Users : Reading(u) /\ op[u].c = conn => net[conn].bufs >= 1
        BY DEF BufsInv
      <3>3. \A u \in Users : op[u].pc = "stopReply" => net[conn].bufs >= 1
        BY DEF BufsInv
      <3>4. \A q \in Readers \ {r} : rd[q].c = conn => net[conn].bufs >= 1
        BY DEF BufsInv, BufsOf
      <3>5. \A q \in Readers : rd'[q].pc = "reauth" => conn # dialled
        BY <1>1, <2>1 DEF ConnInv, ReauthOf
      <3> QED BY <2>1, <2>2, <3>1, <3>2, <3>3, <3>4, <3>5 DEF BufsOf, Reading
    <2>5. ASSUME NEW q \in Readers \ {r} PROVE BufsOf(q)'
      <3>1. BufsOf(q) /\ (rd[q].c # 0 => rd[q].c \in Conns) /\ rd'[q] = rd[q]
        BY <1>1, <2>1, ReaderConn DEF BufsInv
      <3>2. rd[q].c # 0 => /\ net[rd[q].c].bufs >= 1 => net'[rd[q].c].bufs >= 1
                           /\ net[rd[q].c].bufs >= 2 => net'[rd[q].c].bufs >= 2
        BY <1>more, <3>1
      <3>3. rd[q].c = conn /\ conn # 0 => net'[conn].bufs >= 2
        BY <1>2, <1>3, <2>3, <3>1 DEF BufsOf
      <3>4. \A p \in Readers \ {q} : rd'[p].c = rd[q].c => (p = r /\ rd[q].c = conn) \/ rd[p].c = rd[q].c
        BY <2>1
      <3>5. \A p \in Readers : rd'[p].pc = "reauth" => rd[p].pc = "reauth"
        BY <2>1
      <3> QED BY <2>2, <3>1, <3>2, <3>3, <3>4, <3>5 DEF BufsOf, Reading
    <2>6. ASSUME NEW u \in Users, Reading(u)', op'[u].c # 0 PROVE net'[op'[u].c].bufs >= 1
      <3>1. Reading(u) /\ op[u].c # 0 /\ op'[u].c = op[u].c /\ op[u].c \in 0..MaxDials
        BY <1>1, <2>2, <2>6 DEF Reading, Types, Op_t
      <3>2. op[u].c \in Conns /\ net[op[u].c].bufs >= 1
        BY <3>1, Apart DEF BufsInv, Conns
      <3> QED BY <1>more, <3>1, <3>2
    <2>7. ASSUME NEW u \in Users, op'[u].pc = "stopReply" PROVE net'[conn'].bufs >= 1
      <3>1. op[u].pc = "stopReply"
        BY <2>2, <2>7
      <3>2. net[conn].bufs >= 1 /\ conn \in Conns
        BY <1>1, <1>3, <3>1 DEF BufsInv, ConnInv
      <3> QED BY <1>more, <2>2, <3>2
    <2> QED BY <2>4, <2>5, <2>6, <2>7 DEF BufsInv
  <1>8. CASE ReaderPoll(r)
    BY <1>6, <1>8 DEF ReaderPoll, connVars, wireVars
  <1>9. CASE ReaderRead(r)
    <2>1. conn' = conn /\ dialled' = dialled
      BY <1>9 DEF ReaderRead, connVars
    <2>2. ASSUME NEW x, op' = op,
                 rd' = [rd EXCEPT ![r] = [@ EXCEPT !.buf = x.rest,
                         !.pc = IF parseLogEntry(x.line) = <<>> THEN "loop" ELSE "send",
                         !.hand = parseLogEntry(x.line)]]
          PROVE  BufsInv'
      <3>1. rd'[r].c = rd[r].c /\ rd'[r].pc # "reauth" /\ \A q \in Readers \ {r} : rd'[q] = rd[q]
        BY <1>1, <2>2 DEF Types, Rd_t
      <3> QED BY <1>5, <2>1, <2>2, <3>1
    <2> QED BY <1>4, <1>6, <1>9, <2>1, <2>2 DEF ReaderRead
  <1>10. CASE ReaderSend(r) \/ CloseChan(r)
    <2>1. /\ rd'[r].c = rd[r].c /\ rd'[r].pc # "reauth" /\ \A q \in Readers \ {r} : rd'[q] = rd[q]
          /\ UNCHANGED <<op, conn, dialled>>
      BY <1>1, <1>10 DEF ReaderSend, CloseChan, connVars, wireVars, Types, Rd_t
    <2> QED BY <1>5, <2>1
  <1>11. CASE ReconnectAuth(r)
    <2>1. \A u \in Users : op[u].pc # "stopReply"
      BY <1>1, <1>11, Apart DEF ReconnectAuth, LockInv
    <2> QED BY <1>6, <1>11, <2>1 DEF ReconnectAuth
  <1>12. CASE Receive(r)
    <2>1. UNCHANGED <<op, rd, conn, dialled>>
      BY <1>12 DEF Receive, connVars, wireVars
    <2> QED BY <1>1, <1>2, <2>1, BufsCalm DEF Reading
  <1>13. CASE ReaderClose(r)
    BY <1>6, <1>13 DEF ReaderClose
  <1>14. CASE Reconnect(r)
    <2>1. mutex = NoOne /\ UNCHANGED <<op, conn>>
      BY <1>14 DEF Reconnect
    <2>2. (\A u \in Users : op[u].pc # "stopReply") /\ \A q \in Readers : rd[q].pc # "reauth"
      BY <1>1, <2>1, FreeMutex
    <2>3. CASE dialled' = dialled + 1 /\ At(r, "reauth")
      <3>1. rd'[r].pc = "reauth" /\ rd'[r].c = rd[r].c /\ \A q \in Readers \ {r} : rd'[q] = rd[q]
        BY <1>1, <2>3, AtMoves
      <3>2. \A q \in Readers : rd'[q].c = rd[q].c
        BY <3>1
      <3>3. ASSUME NEW q \in Readers PROVE BufsOf(q)'
        <4>1. BufsOf(q) /\ rd[q].c # dialled' /\ (rd[q].c # 0 => rd[q].c \in Conns)
          BY <1>1, <2>3, ReaderConn DEF BufsInv
        <4>2. rd[q].c # 0 => /\ net[rd[q].c].bufs >= 1 => net'[rd[q].c].bufs >= 1
                             /\ net[rd[q].c].bufs >= 2 => net'[rd[q].c].bufs >= 2
          BY <1>more, <4>1
        <4> QED BY <2>1, <3>2, <4>1, <4>2 DEF BufsOf, Reading
      <3>4. ASSUME NEW u \in Users, Reading(u)', op'[u].c # 0 PROVE net'[op'[u].c].bufs >= 1
        <4>1. Reading(u) /\ op[u].c # 0 /\ op'[u].c = op[u].c /\ op[u].c \in 0..MaxDials
          BY <1>1, <2>1, <3>4 DEF Reading, Types, Op_t
        <4>2. op[u].c \in Conns /\ net[op[u].c].bufs >= 1
          BY <4>1, Apart DEF BufsInv, Conns
        <4> QED BY <1>more, <4>1, <4>2
      <3> QED BY <2>1, <2>2, <3>3, <3>4 DEF BufsInv
    <2>4. CASE dialled' = dialled /\ At(r, "loop")
      BY <1>6, <2>1, <2>4
    <2> QED BY <1>14, <2>3, <2>4 DEF Reconnect
  <1> QED BY <1>7, <1>8, <1>9, <1>10, <1>11, <1>12, <1>13, <1>14 DEF ReaderStep, ReaderLock

LEMMA BufsStep ==
  ASSUME Base, BufsInv, Types', Step
  PROVE  BufsInv'
  <1>1. Types /\ Bounded /\ ConnInv
    BY DEF Base
  <1>2. ASSUME NEW c \in Conns, Environment(c) \/ Expire(c) PROVE BufsInv'
    <2>1. \A d \in Conns : net'[d].bufs >= net[d].bufs
      BY <1>1, <1>2, NetKeeps, KeptBufs
    <2>2. UNCHANGED <<op, rd, conn, dialled>>
      BY <1>1, <1>2, NetShape DEF NetStep
    <2> QED BY <1>1, <2>1, <2>2, BufsCalm DEF Reading
  <1>3. ASSUME Aside PROVE BufsInv'
    <2>1. UNCHANGED <<op, rd, conn, dialled, net>>
      BY <1>3 DEF Aside, connVars, wireVars
    <2>2. \A d \in Conns : net'[d].bufs >= net[d].bufs
      BY <1>1, <2>1 DEF Types, Net_t
    <2> QED BY <1>1, <2>1, <2>2, BufsCalm DEF Reading
  <1> QED BY <1>2, <1>3, StepCases, UserCalmBufs, UserBufs, ReaderBufs

-----------------------------------------------------------------------------
(* One reader in one step                                                  *)

LEMMA Holds ==
  ASSUME Types, NEW r \in Readers
  PROVE  Entries(r) \in Lines_t /\ rd[r].hand \in Lines_t /\ rd[r].buf \in Lines_t
  BY NumsConcat DEF Types, Entries, Rd_t

StreamsOf(r) == BlankOf(r) /\ OrderOf(r) /\ GapOf(r)

\* The reader keeps what it has; its goroutine may go on, and does not begin.
StaysAt(r) ==
  /\ rd'[r].c = rd[r].c /\ rd'[r].buf = rd[r].buf /\ rd'[r].hand = rd[r].hand
  /\ Entries(r)' = Entries(r)
  /\ rd'[r].pc \in {"unused", "start"} => rd[r].pc \in {"unused", "start"}
  /\ rd'[r].pc \in {"loop", "read", "reconnect", "reauth"} => rd[r].hand = <<>>
  /\ Live(r)' => Live(r)

\* A connection that only this reader reads from was its alone before.
LEMMA WasAlone ==
  ASSUME Types, Bounded, Types', NEW r \in Readers, BufsOf(r), \A c \in Conns : TendOf(c),
         rd[r].c # 0, net'[rd[r].c].bufs = 1
  PROVE  rd[r].c \in Conns /\ net[rd[r].c].bufs = 1
  <1>1. rd[r].c \in Conns
    BY ReaderConn
  <1>2. net[rd[r].c].bufs \in Nat /\ net[rd[r].c].bufs >= 1 /\ net'[rd[r].c].bufs >= net[rd[r].c].bufs
    BY <1>1 DEF BufsOf, TendOf, Types, Net_t
  <1> QED BY <1>1, <1>2

LEMMA Stays ==
  ASSUME Types, Bounded, Types', NEW r \in Readers, StreamsOf(r), BufsOf(r),
         \A c \in Conns : TendOf(c), Alone(r), StaysAt(r)
  PROVE  StreamsOf(r)'
  <1>1. Entries(r) \in Lines_t /\ rd[r].hand \in Lines_t /\ rd[r].buf \in Lines_t
    BY Holds
  <1>2. BlankOf(r)'
    BY DEF StreamsOf, BlankOf, StaysAt
  <1>3. rd[r].c # 0 => rd[r].c \in Conns /\ net[rd[r].c] \in Net_t /\ net'[rd[r].c] \in Net_t
    BY ReaderConn DEF Types
  <1>4. OrderOf(r)'
    <2> SUFFICES ASSUME rd[r].c # 0
                 PROVE  Ordered(Entries(r), rd[r].hand, rd[r].buf, net'[rd[r].c])
      BY DEF OrderOf, StaysAt
    <2> QED BY <1>1, <1>3, TendOrdered DEF StreamsOf, OrderOf, TendOf
  <1>5. GapOf(r)'
    <2> SUFFICES ASSUME rd[r].c # 0, net'[rd[r].c].bufs = 1
                 PROVE  /\ Live(r)' => Covered(Held(r)', net'[rd[r].c])
                        /\ Gapless(Nums(Entries(r)))
      BY DEF GapOf, StaysAt
    <2>1. net[rd[r].c].bufs = 1
      BY WasAlone
    <2>2. /\ Live(r) => Covered(Held(r), net[rd[r].c])
          /\ Gapless(Nums(Entries(r)))
      BY <2>1 DEF StreamsOf, GapOf
    <2>3. ASSUME Live(r)' PROVE Covered(Held(r)', net'[rd[r].c])
      <3>1. Covered(Nums(Entries(r)) \cup Nums(rd[r].hand) \cup Nums(rd[r].buf) \cup Nums(net[rd[r].c].stream),
                    net[rd[r].c])
        BY <2>2, <2>3 DEF StaysAt, Held
      <3>2. Ordered(Entries(r), rd[r].hand, rd[r].buf, net[rd[r].c])
        BY DEF StreamsOf, OrderOf
      <3>3. Covered(Nums(Entries(r)) \cup Nums(rd[r].hand) \cup Nums(rd[r].buf) \cup Nums(net'[rd[r].c].stream),
                    net'[rd[r].c])
        BY <1>1, <1>3, <3>1, <3>2, TendCovered DEF Alone
      <3> QED BY <3>3 DEF StaysAt, Held
    <2> QED BY <2>2, <2>3
  <1> QED BY <1>2, <1>4, <1>5 DEF StreamsOf

\* The same, for any number of them
LEMMA AllStay ==
  ASSUME Base, Types', BufsInv, OrderInv, GapInv, NEW R \in SUBSET Readers, KeptBy(R), \A r \in R : StaysAt(r)
  PROVE  (\A c \in Conns : StreamOf(net[c])') /\ \A r \in R : StreamsOf(r)'
  <1>1. \A c \in Conns : TendOf(c)
    BY DEF KeptBy
  <1>2. \A c \in Conns : net[c] \in Net_t /\ net'[c] \in Net_t /\ StreamOf(net[c])
    BY DEF Base, Types, OrderInv
  <1>3. \A c \in Conns : StreamOf(net'[c])
    BY <1>1, <1>2, TendStream DEF TendOf
  <1>4. ASSUME NEW r \in R PROVE StreamsOf(r)'
    <2>1. BufsOf(r) /\ StreamsOf(r) /\ Alone(r) /\ StaysAt(r)
      BY DEF BufsInv, StreamsOf, OrderInv, GapInv, KeptBy
    <2> QED BY <1>1, <2>1, Stays DEF Base
  <1> QED BY <1>3, <1>4 DEF StreamOf

\* What OrderInv and GapInv are made of
LEMMA StreamsMake ==
  ASSUME \A c \in Conns : StreamOf(net[c])', \A r \in Readers : StreamsOf(r)'
  PROVE  OrderInv' /\ GapInv'
  BY DEF OrderInv, GapInv, StreamsOf

\* A goroutine that a step does not concern, and one that goes on by itself
LEMMA Idles ==
  ASSUME NEW r \in Readers, rd'[r] = rd[r], chan'[r] = chan[r], delivered'[r] = delivered[r], BlankOf(r)
  PROVE  StaysAt(r)
  BY DEF StaysAt, Entries, Live, BlankOf

LEMMA GoesOn ==
  ASSUME Types, NEW r \in Readers, NEW p, At(r, p), chan' = chan, delivered' = delivered, BlankOf(r),
         \/ Live(r) /\ p \in {"loop", "read", "reconnect", "reauth"} /\ rd[r].pc # "send"
         \/ p \in {"close", "closeChan"}
         \/ p = "start" /\ rd[r].pc = "unused"
  PROVE  StaysAt(r)
  <1>1. rd'[r].pc = p /\ rd'[r].c = rd[r].c /\ rd'[r].buf = rd[r].buf /\ rd'[r].hand = rd[r].hand
    BY AtMoves
  <1> QED BY <1>1 DEF StaysAt, Entries, Live, BlankOf

\* What the consumer takes from the channel it has received.
LEMMA Received ==
  ASSUME Types, NEW r \in Readers, Receive(r)
  PROVE  Entries(r)' = Entries(r) /\ \A q \in Readers \ {r} : chan'[q] = chan[q] /\ delivered'[q] = delivered[q]
  <1>1. chan[r] \in Lines_t /\ delivered[r] \in Lines_t /\ chan[r] # <<>>
    BY DEF Types, Receive
  <1>2. Head(chan[r]) \in Line_t /\ <<Head(chan[r])>> \in Lines_t /\ Tail(chan[r]) \in Lines_t
        /\ chan[r] = <<Head(chan[r])>> \o Tail(chan[r])
    BY <1>1, FirstAndRest
  <1>3. delivered'[r] = Append(delivered[r], Head(chan[r])) /\ chan'[r] = Tail(chan[r])
    BY DEF Receive, Types
  <1>4. delivered'[r] = delivered[r] \o <<Head(chan[r])>>
    BY <1>1, <1>2, <1>3, AppendIsConcat DEF Lines_t
  <1>5. (delivered[r] \o <<Head(chan[r])>>) \o Tail(chan[r]) = delivered[r] \o (<<Head(chan[r])>> \o Tail(chan[r]))
    <2>1. delivered[r] \in Seq(Line_t) /\ <<Head(chan[r])>> \in Seq(Line_t) /\ Tail(chan[r]) \in Seq(Line_t)
      BY <1>1, <1>2 DEF Lines_t
    <2>2. \A s, u, v \in Seq(Line_t) : (s \o u) \o v = s \o (u \o v)
      BY ConcatAssociative
    <2> QED BY <2>1, <2>2, Zenon
  <1>6. Entries(r)' = Entries(r)
    BY <1>2, <1>3, <1>4, <1>5 DEF Entries
  <1> QED BY <1>6 DEF Receive, Types

\* The goroutine takes the connection that is lr.conn by then.
LEMMA Starts ==
  ASSUME Types, Bounded, Types', NEW r \in Readers, ReaderStart(r), StreamsOf(r),
         \A c \in Conns : TendOf(c), \A c \in Conns : StreamOf(net'[c])
  PROVE  StreamsOf(r)'
  <1>1. rd[r].c = 0 /\ rd[r].buf = <<>> /\ rd[r].hand = <<>> /\ Entries(r) = <<>>
    BY DEF ReaderStart, StreamsOf, BlankOf
  <1>2. rd'[r].c = conn /\ rd'[r].pc = "loop" /\ rd'[r].buf = <<>> /\ rd'[r].hand = <<>>
    BY <1>1 DEF ReaderStart, Types, Rd_t
  <1>3. Entries(r)' = <<>>
    BY <1>1 DEF ReaderStart, chanVars, Entries
  <1>4. BlankOf(r)'
    BY <1>2, <1>3 DEF BlankOf
  <1>5. conn # 0 => conn \in Conns
    BY Apart DEF Types, Conns
  <1>6. OrderOf(r)'
    BY <1>2, <1>3, NumsEmpty DEF OrderOf, Ordered, Below
  <1>7. GapOf(r)'
    <2> SUFFICES ASSUME conn # 0
                 PROVE  Covered(Nums(net'[conn].stream), net'[conn]) /\ Gapless({})
      BY <1>2, <1>3, NumsEmpty DEF GapOf, Held
    <2>1. StreamOf(net'[conn])
      BY <1>5
    <2> QED BY <2>1 DEF StreamOf, Covered, Gapless
  <1> QED BY <1>4, <1>6, <1>7 DEF StreamsOf

\* A line is read: from the buffer, or from the connection.
LEMMA TakesLine ==
  ASSUME Types, Bounded, Types', NEW r \in Readers, StreamsOf(r), BufsOf(r), rd[r].pc = "read", rd[r].c # 0,
         \A c \in Conns : StreamOf(net[c]),
         NEW x \in Reads(rd[r].c, rd[r].buf), net' = Drain(net, rd[r].c, x.taken),
         UNCHANGED <<chan, delivered>>,
         rd' = [rd EXCEPT ![r] = [@ EXCEPT !.buf = x.rest,
                  !.pc = IF parseLogEntry(x.line) = <<>> THEN "loop" ELSE "send",
                  !.hand = parseLogEntry(x.line)]]
  PROVE  StreamsOf(r)'
  <1> DEFINE c == rd[r].c
             e == Entries(r)
             h == parseLogEntry(x.line)
  <1>1. c \in Conns /\ net[c] \in Net_t /\ net'[c] \in Net_t /\ StreamOf(net[c])
    BY ReaderConn DEF Types
  <1>2. e \in Lines_t /\ rd[r].hand = <<>> /\ rd[r].buf \in Lines_t
    BY Holds DEF StreamsOf, BlankOf
  <1>3. /\ rd'[r].c = c /\ rd'[r].buf = x.rest /\ rd'[r].hand = h
        /\ rd'[r].pc = IF h = <<>> THEN "loop" ELSE "send"
    BY DEF Types, Rd_t
  <1>4. Entries(r)' = e
    BY DEF Entries
  <1>5. x.taken \in 0..Len(net[c].stream) /\ x.line \in Line_t /\ x.rest \in Lines_t
    BY <1>1, <1>2, ReadTypes
  <1>6. /\ TendOf(c) /\ net'[c].bufs = net[c].bufs
        /\ net'[c].stream = SubSeq(net[c].stream, x.taken + 1, Len(net[c].stream)) /\ net'[c].sent = net[c].sent
        /\ UpNet(net'[c]) = UpNet(net[c])
    BY <1>1, <1>5, DrainLess
  <1>7. Ordered(e, <<>>, rd[r].buf, net[c])
    BY <1>2 DEF StreamsOf, OrderOf
  <1>8. /\ Ordered(e, h, x.rest, net'[c])
        /\ Nums(h) \cup Nums(x.rest) \cup Nums(net'[c].stream) = Nums(rd[r].buf) \cup Nums(net[c].stream)
    <2>1. CASE ReadFromBuffer(c, rd[r].buf, x)
      <3>1. /\ rd[r].buf # <<>> /\ x.line = Head(rd[r].buf) /\ x.rest = Tail(rd[r].buf) /\ x.taken = 0
        BY <2>1 DEF ReadFromBuffer
      <3>2. net'[c].stream = net[c].stream
        <4>1. net[c].stream \in Seq(Line_t)
          BY <1>1, LenNat DEF Net_t
        <4> QED BY <1>6, <3>1, <4>1, SubSeqFull
      <3>3. /\ Ordered(e, h, x.rest, net[c])
            /\ Nums(h) \cup Nums(x.rest) = Nums(rd[r].buf)
        BY <1>1, <1>2, <1>7, <3>1, TakenBuffered
      <3> QED BY <1>6, <3>2, <3>3 DEF Ordered
    <2>2. CASE ReadFromStream(c, rd[r].buf, x)
      <3>1. /\ rd[r].buf = <<>> /\ x.taken \in 1..Len(net[c].stream) /\ x.line = Head(net[c].stream)
            /\ x.rest = SubSeq(net[c].stream, 2, x.taken)
        BY <2>2 DEF ReadFromStream
      <3>2. /\ Ordered(e, h, x.rest, net'[c])
            /\ Nums(h) \cup Nums(x.rest) \cup Nums(net'[c].stream) = Nums(net[c].stream)
        <4>1. Ordered(e, <<>>, <<>>, net[c])
          BY <1>7, <3>1
        <4> DEFINE k == x.taken
                   n == net[c]
                   m == net'[c]
        <4>2. /\ n \in Net_t /\ m \in Net_t /\ k \in 1..Len(n.stream) /\ StreamOf(n)
              /\ m.stream = SubSeq(n.stream, k + 1, Len(n.stream)) /\ m.sent = n.sent
              /\ e \in Lines_t /\ Ordered(e, <<>>, <<>>, n)
          BY <1>1, <1>2, <1>6, <3>1, <4>1
        <4> HIDE DEF k, n, m, e
        <4>3. /\ Ordered(e, parseLogEntry(Head(n.stream)), SubSeq(n.stream, 2, k), m)
              /\ Nums(parseLogEntry(Head(n.stream))) \cup Nums(SubSeq(n.stream, 2, k)) \cup Nums(m.stream) = Nums(n.stream)
          BY <4>2, TakenStream
        <4>4. h = parseLogEntry(Head(n.stream)) /\ x.rest = SubSeq(n.stream, 2, k) /\ m = net'[c] /\ n = net[c]
          BY <3>1 DEF k, n, m
        <4> QED BY <4>3, <4>4
      <3> QED BY <3>1, <3>2, NumsEmpty
    <2> QED BY <2>1, <2>2, ReadShape
  <1> HIDE DEF h, e, c
  <1>9. BlankOf(r)'
    <2>1. c # 0
      BY DEF c
    <2> QED BY <1>3, <2>1 DEF BlankOf
  <1>10. OrderOf(r)'
    BY <1>3, <1>4, <1>8 DEF OrderOf
  <1>11. GapOf(r)'
    <2> SUFFICES ASSUME net'[c].bufs = 1
                 PROVE  Covered(Held(r)', net'[c]) /\ Gapless(Nums(e))
      BY <1>3, <1>4 DEF GapOf
    <2>1. Covered(Held(r), net[c]) /\ Gapless(Nums(e))
      BY <1>6 DEF StreamsOf, GapOf, Live, c, e
    <2>2. Held(r)' = Held(r)
      <3>1. Held(r)' = Nums(e) \cup Nums(h) \cup Nums(x.rest) \cup Nums(net'[c].stream)
        BY <1>3, <1>4 DEF Held
      <3>2. Held(r) = Nums(e) \cup Nums(<<>>) \cup Nums(rd[r].buf) \cup Nums(net[c].stream)
        BY <1>2 DEF Held, e, c
      <3> QED BY <1>8, <3>1, <3>2, NumsEmpty
    <2> QED BY <1>6, <2>1, <2>2 DEF Covered, UpNet
  <1> QED BY <1>9, <1>10, <1>11 DEF StreamsOf

\* The entry in the hand is put into the channel, or dropped at the end.
LEMMA Sends ==
  ASSUME Types, Bounded, NEW r \in Readers, StreamsOf(r), ReaderSend(r)
  PROVE  StreamsOf(r)'
  <1> DEFINE e == Entries(r)
             h == rd[r].hand
             b == rd[r].buf
             c == rd[r].c
  <1>1. e \in Lines_t /\ h \in Lines_t /\ b \in Lines_t
    BY Holds
  <1>2. net' = net /\ delivered' = delivered /\ rd[r].pc = "send"
    BY DEF ReaderSend, wireVars
  <1>3. rd'[r].c = c /\ rd'[r].buf = b /\ rd'[r].hand = <<>>
    BY DEF ReaderSend, Types, Rd_t
  <1>4. BlankOf(r) /\ OrderOf(r) /\ GapOf(r)
    BY DEF StreamsOf
  <1>5. CASE chan'[r] = chan[r] \o h /\ rd'[r].pc = "loop"
    <2>1. Entries(r)' = e \o h
      <3>1. delivered[r] \in Seq(Line_t) /\ chan[r] \in Seq(Line_t) /\ h \in Seq(Line_t)
        BY <1>1 DEF Types, Lines_t
      <3>2. \A s, u, v \in Seq(Line_t) : (s \o u) \o v = s \o (u \o v)
        BY ConcatAssociative
      <3>3. (delivered[r] \o chan[r]) \o h = delivered[r] \o (chan[r] \o h)
        BY <3>1, <3>2, Zenon
      <3> QED BY <1>2, <1>5, <3>3 DEF Entries
    <2>2. BlankOf(r)'
      <3>1. c = 0 => b = <<>> /\ e \o h = <<>>
        <4>1. c = 0 => b = <<>> /\ h = <<>> /\ e = <<>>
          BY <1>4 DEF BlankOf
        <4> QED BY <1>1, <4>1, ConcatEmptySeq DEF Lines_t
      <3> QED BY <1>3, <1>5, <2>1, <3>1 DEF BlankOf
    <2>3. OrderOf(r)'
      <3> SUFFICES ASSUME c # 0 PROVE Ordered(e \o h, <<>>, b, net[c])
        BY <1>2, <1>3, <2>1 DEF OrderOf
      <3>1. c \in Conns /\ net[c] \in Net_t /\ Ordered(e, h, b, net[c])
        BY <1>4, ReaderConn DEF OrderOf, Types
      <3> QED BY <1>1, <3>1, SentOrdered
    <2>4. GapOf(r)'
      <3> SUFFICES ASSUME c # 0, net[c].bufs = 1
                   PROVE  Covered(Held(r)', net[c]) /\ Gapless(Nums(e \o h))
        BY <1>2, <1>3, <1>5, <2>1 DEF GapOf
      <3>1. c \in Conns /\ net[c] \in Net_t /\ Ordered(e, h, b, net[c])
        BY <1>4, ReaderConn DEF OrderOf, Types
      <3>2. Covered(Held(r), net[c])
        BY <1>2, <1>4 DEF GapOf, Live
      <3>3. Nums(e \o h) = Nums(e) \cup Nums(h)
        BY <1>1, NumsConcat
      <3>4. Held(r)' = Held(r)
        <4>1. Held(r)' = Nums(e \o h) \cup Nums(<<>>) \cup Nums(b) \cup Nums(net[c].stream)
          BY <1>2, <1>3, <2>1 DEF Held
        <4> QED BY <3>3, <4>1, NumsEmpty DEF Held
      <3>5. Gapless(Nums(e) \cup Nums(h))
        <4>1. Covered(Nums(e) \cup Nums(h) \cup Nums(b) \cup Nums(net[c].stream), net[c])
          BY <3>2 DEF Held
        <4> QED BY <1>1, <3>1, <4>1, CoveredGapless
      <3> QED BY <3>2, <3>3, <3>4, <3>5
    <2> QED BY <2>2, <2>3, <2>4 DEF StreamsOf
  <1>6. CASE chan' = chan /\ rd'[r].pc = "close"
    <2>1. Entries(r)' = e
      BY <1>2, <1>6 DEF Entries
    <2>2. BlankOf(r)'
      BY <1>3, <1>4, <1>6, <2>1 DEF BlankOf
    <2>3. OrderOf(r)'
      <3> SUFFICES ASSUME c # 0 PROVE Ordered(e, <<>>, b, net[c])
        BY <1>2, <1>3, <2>1 DEF OrderOf
      <3>1. c \in Conns /\ net[c] \in Net_t /\ Ordered(e, h, b, net[c])
        BY <1>4, ReaderConn DEF OrderOf, Types
      <3> QED BY <1>1, <3>1, SentOrdered
    <2>4. GapOf(r)'
      BY <1>2, <1>3, <1>4, <1>6, <2>1 DEF GapOf, Live
    <2> QED BY <2>2, <2>3, <2>4 DEF StreamsOf
  <1>7. \/ chan'[r] = chan[r] \o h /\ rd'[r].pc = "loop"
        \/ chan' = chan /\ rd'[r].pc = "close"
    BY DEF ReaderSend, Types, Rd_t
  <1> QED BY <1>5, <1>6, <1>7

\* What is left in the buffer is lost when the goroutine ends.
LEMMA Ends ==
  ASSUME Types, Bounded, NEW r \in Readers, StreamsOf(r), CloseChan(r)
  PROVE  StreamsOf(r)'
  <1>1. Entries(r) \in Lines_t /\ rd[r].hand \in Lines_t /\ rd[r].buf \in Lines_t
    BY Holds
  <1>2. /\ net' = net /\ rd'[r].c = rd[r].c /\ rd'[r].buf = <<>> /\ rd'[r].hand = rd[r].hand
        /\ rd'[r].pc = "done" /\ Entries(r)' = Entries(r)
    BY DEF CloseChan, wireVars, chanVars, Types, Rd_t, Entries
  <1>3. BlankOf(r) /\ OrderOf(r) /\ GapOf(r)
    BY DEF StreamsOf
  <1>4. OrderOf(r)'
    <2> SUFFICES ASSUME rd[r].c # 0 PROVE Ordered(Entries(r), rd[r].hand, <<>>, net[rd[r].c])
      BY <1>2 DEF OrderOf
    <2>1. net[rd[r].c] \in Net_t /\ Ordered(Entries(r), rd[r].hand, rd[r].buf, net[rd[r].c])
      BY <1>3, ReaderConn DEF OrderOf, Types
    <2> QED BY <1>1, <2>1, SentOrdered
  <1>5. BlankOf(r)' /\ GapOf(r)'
    BY <1>2, <1>3 DEF BlankOf, GapOf, Live
  <1> QED BY <1>4, <1>5 DEF StreamsOf

-----------------------------------------------------------------------------
(* Every step                                                              *)

LEMMA UserStreams ==
  ASSUME Base, Types', BufsInv, OrderInv, GapInv, NEW t \in Users, Invoke(t) \/ UserStep(t) \/ UserLock(t)
  PROVE  OrderInv' /\ GapInv'
  <1>1. Types /\ KeptBy(Readers)
    BY UserKeeps DEF Base
  <1>2. \A r \in Readers : BlankOf(r)
    BY DEF OrderInv
  <1>3. UNCHANGED <<chan, delivered>>
    BY DEF Invoke, UserStep, UserLock, ConnectAuth, Spawn, Command, CommandReader, CommandRead, ReadLine, StopReply,
           ConnectAlready, ConnectDial, Close, Stop, chanVars
  <1>4. \A r \in Readers : StaysAt(r)
    <2>1. CASE rd' = rd
      BY <1>2, <1>3, <2>1, Idles
    <2>2. CASE Panic
      BY <1>1, <1>3, <2>2, PanicFields DEF StaysAt, Entries, Live
    <2>3. CASE Spawn(t)
      <3>1. op[t].id \in Readers /\ At(op[t].id, "start") /\ rd[op[t].id].pc = "unused"
        BY <2>3, Apart DEF Base, IdsInv, Types, Readers, Spawn, At
      <3>2. PICK q \in Readers : At(q, "start") /\ rd[q].pc = "unused"
        BY <3>1
      <3>3. StaysAt(q)
        BY <1>1, <1>2, <1>3, <3>2, GoesOn
      <3>4. \A r \in Readers \ {q} : rd'[r] = rd[r]
        BY <1>1, <3>2, AtMoves
      <3> QED BY <1>2, <1>3, <3>3, <3>4, Idles
    <2> QED BY <2>1, <2>2, <2>3 DEF Invoke, UserStep, UserLock, ConnectAuth, Command, CommandReader, CommandRead, ReadLine,
                                    StopReply, ConnectAlready, ConnectDial, Close, Stop
  <1> QED BY <1>1, <1>4, AllStay, StreamsMake DEF StreamOf

LEMMA ReaderStreams ==
  ASSUME Base, Types', BufsInv, OrderInv, GapInv, NEW r \in Readers,
         ReaderStep(r) \/ ReaderLock(r) \/ Receive(r)
  PROVE  OrderInv' /\ GapInv'
  <1>1. Types /\ Bounded /\ KeptBy(Readers \ {r}) /\ (~ReaderRead(r) => KeptBy(Readers))
    BY ReadKeeps, ReaderKeeps DEF Base, KeptBy
  <1>2. \A q \in Readers : BlankOf(q) /\ StreamsOf(q)
    BY DEF OrderInv, GapInv, StreamsOf
  <1>3. \A c \in Conns : StreamOf(net[c])
    BY DEF OrderInv
  <1>4. ASSUME Panic, UNCHANGED <<chan, delivered>> PROVE OrderInv' /\ GapInv'
    <2>1. \A q \in Readers : StaysAt(q)
      BY <1>1, <1>4, PanicFields DEF StaysAt, Entries, Live
    <2>2. KeptBy(Readers)
      BY <1>1, <1>4, KeptNone DEF Panic
    <2> QED BY <2>1, <2>2, AllStay, StreamsMake DEF StreamOf
  <1>5. ASSUME \A q \in Readers \ {r} : rd'[q] = rd[q] /\ chan'[q] = chan[q] /\ delivered'[q] = delivered[q]
        PROVE  /\ \A c \in Conns : StreamOf(net'[c])
               /\ StreamsOf(r)' => OrderInv' /\ GapInv'
               /\ StaysAt(r) /\ KeptBy(Readers) => OrderInv' /\ GapInv'
    <2>1. \A q \in Readers \ {r} : StaysAt(q)
      BY <1>2, <1>5, Idles
    <2>2. (\A c \in Conns : StreamOf(net[c])') /\ \A q \in Readers \ {r} : StreamsOf(q)'
      BY <1>1, <2>1, AllStay
    <2>3. StreamsOf(r)' => OrderInv' /\ GapInv'
      BY <2>2, StreamsMake
    <2>4. StaysAt(r) /\ KeptBy(Readers) => OrderInv' /\ GapInv'
      BY <2>1, AllStay, StreamsMake
    <2> QED BY <2>2, <2>3, <2>4 DEF StreamOf
  <1>6. ASSUME NEW p, At(r, p), UNCHANGED <<chan, delivered>>, KeptBy(Readers),
               \/ Live(r) /\ p \in {"loop", "read", "reconnect", "reauth"} /\ rd[r].pc # "send"
               \/ p \in {"close", "closeChan"}
        PROVE  OrderInv' /\ GapInv'
    <2>1. StaysAt(r)
      BY <1>1, <1>2, <1>6, GoesOn
    <2>2. \A q \in Readers \ {r} : rd'[q] = rd[q]
      BY <1>1, <1>6, AtMoves
    <2> QED BY <1>5, <1>6, <2>1, <2>2
  <1>7. CASE ReaderStart(r)
    <2>1. \A q \in Readers \ {r} : rd'[q] = rd[q] /\ chan'[q] = chan[q] /\ delivered'[q] = delivered[q]
      BY <1>1, <1>7 DEF ReaderStart, chanVars, Types
    <2>2. \A c \in Conns : TendOf(c)
      BY <1>1 DEF KeptBy
    <2> QED BY <1>1, <1>2, <1>5, <1>7, <2>1, <2>2, Starts
  <1>8. CASE ReaderPoll(r)
    BY <1>1, <1>6, <1>8 DEF ReaderPoll, chanVars, Live, ReaderRead
  <1>9. CASE ReaderRead(r)
    <2>1. UNCHANGED <<chan, delivered>> /\ rd[r].pc = "read" /\ (net' = net => KeptBy(Readers))
      BY <1>1, <1>9, KeptNone DEF ReaderRead, chanVars
    <2>2. ASSUME rd[r].c # 0, NEW x \in Reads(rd[r].c, rd[r].buf), net' = Drain(net, rd[r].c, x.taken),
                 rd' = [rd EXCEPT ![r] = [@ EXCEPT !.buf = x.rest,
                         !.pc = IF parseLogEntry(x.line) = <<>> THEN "loop" ELSE "send",
                         !.hand = parseLogEntry(x.line)]]
          PROVE  OrderInv' /\ GapInv'
      <3>1. StreamsOf(r)'
        BY <1>1, <1>2, <1>3, <2>1, <2>2, TakesLine DEF BufsInv
      <3>2. \A q \in Readers \ {r} : rd'[q] = rd[q]
        BY <1>1, <2>2 DEF Types
      <3> QED BY <1>5, <2>1, <3>1, <3>2
    <2>3. ASSUME At(r, IF Ended(rd[r].c) THEN "close" ELSE "reconnect"), net' = net PROVE OrderInv' /\ GapInv'
      BY <1>6, <2>1, <2>3 DEF Live
    <2> QED BY <1>4, <1>9, <2>1, <2>2, <2>3 DEF ReaderRead
  <1>10. CASE ReaderSend(r)
    <2>1. \A q \in Readers \ {r} : rd'[q] = rd[q] /\ chan'[q] = chan[q] /\ delivered'[q] = delivered[q]
      BY <1>1, <1>10 DEF ReaderSend, Types
    <2> QED BY <1>1, <1>2, <1>5, <1>10, <2>1, Sends
  <1>11. CASE CloseChan(r)
    <2>1. \A q \in Readers \ {r} : rd'[q] = rd[q] /\ chan'[q] = chan[q] /\ delivered'[q] = delivered[q]
      BY <1>1, <1>11 DEF CloseChan, chanVars, Types
    <2> QED BY <1>1, <1>2, <1>5, <1>11, <2>1, Ends
  <1>12. CASE ReconnectAuth(r)
    BY <1>1, <1>6, <1>12 DEF ReconnectAuth, chanVars, Live, ReaderRead
  <1>13. CASE Reconnect(r)
    BY <1>1, <1>6, <1>13 DEF Reconnect, chanVars, Live, ReaderRead
  <1>14. CASE ReaderClose(r)
    BY <1>1, <1>6, <1>14 DEF ReaderClose, chanVars, ReaderRead
  <1>15. CASE Receive(r)
    <2>1. /\ Entries(r)' = Entries(r) /\ rd' = rd
          /\ \A q \in Readers \ {r} : chan'[q] = chan[q] /\ delivered'[q] = delivered[q]
      BY <1>1, <1>15, Received DEF Receive
    <2>2. StaysAt(r) /\ KeptBy(Readers)
      <3>1. net' = net
        BY <1>15 DEF Receive, wireVars
      <3> QED BY <1>1, <1>2, <2>1, <3>1, KeptNone DEF StaysAt, BlankOf, Live
    <2> QED BY <1>5, <2>1, <2>2
  <1> QED BY <1>7, <1>8, <1>9, <1>10, <1>11, <1>12, <1>13, <1>14, <1>15 DEF ReaderStep, ReaderLock

LEMMA StreamsStep ==
  ASSUME Base, Types', BufsInv, OrderInv, GapInv, Step
  PROVE  OrderInv' /\ GapInv'
  <1>1. Types /\ Bounded /\ \A r \in Readers : BlankOf(r)
    BY DEF Base, OrderInv
  <1>2. ASSUME UNCHANGED <<rd, chan, delivered>>, KeptBy(Readers) PROVE OrderInv' /\ GapInv'
    BY <1>1, <1>2, Idles, AllStay, StreamsMake
  <1>3. ASSUME NEW c \in Conns, Environment(c) \/ Expire(c) PROVE OrderInv' /\ GapInv'
    <2>1. UNCHANGED <<rd, chan, delivered>>
      BY <1>1, <1>3, NetShape DEF NetStep
    <2> QED BY <1>1, <1>2, <1>3, <2>1, NetKeeps
  <1>4. ASSUME Aside PROVE OrderInv' /\ GapInv'
    BY <1>1, <1>2, <1>4, KeptNone DEF Aside, wireVars
  <1> QED BY <1>3, <1>4, StepCases, UserStreams, ReaderStreams

-----------------------------------------------------------------------------
(* The theorems                                                            *)

LEMMA StreamsInit == Init => IInv
  <1> SUFFICES ASSUME Init PROVE IInv
    OBVIOUS
  <1>1. Base
    BY BaseInit
  <1>2. /\ \A r \in Readers : rd[r].c = 0 /\ rd[r].pc = "unused" /\ rd[r].buf = <<>> /\ rd[r].hand = <<>>
        /\ \A r \in Readers : delivered[r] = <<>> /\ chan[r] = <<>>
    BY DEF Init, NoReader
  <1>3. \A t \in Users : op[t].pc = "idle"
    BY DEF Init, NoOp
  <1>4. \A c \in Conns : net[c].stream = <<>>
    BY DEF Init, Fresh
  <1>5. BufsInv
    BY <1>2, <1>3 DEF BufsInv, BufsOf, Reading
  <1>6. \A r \in Readers : Entries(r) = <<>>
    BY <1>2 DEF Entries
  <1>7. OrderInv /\ GapInv
    BY <1>2, <1>4, <1>6, NumsEmpty DEF OrderInv, GapInv, StreamOf, BlankOf, OrderOf, GapOf
  <1> QED BY <1>1, <1>5, <1>7 DEF IInv

LEMMA StreamsKept == IInv /\ (Step \/ UNCHANGED vars) => IInv'
  <1> SUFFICES ASSUME IInv, Step \/ UNCHANGED vars PROVE IInv'
    OBVIOUS
  <1>1. Step
    BY DEF Step, Aside, vars, chanVars
  <1>2. Base'
    BY BaseStep DEF IInv
  <1>3. Types'
    BY <1>2 DEF Base
  <1> QED BY <1>1, <1>2, <1>3, BufsStep, StreamsStep DEF IInv

LEMMA OrderMeans == IInv => InOrder
  <1> SUFFICES ASSUME IInv, NEW r \in Readers PROVE Asc(Entries(r))
    BY DEF InOrder, Asc
  <1>1. BlankOf(r) /\ OrderOf(r)
    BY DEF IInv, OrderInv
  <1> QED BY <1>1, NumsEmpty DEF BlankOf, OrderOf, Ordered

LEMMA GapMeans == IInv => NoGap
  <1> SUFFICES ASSUME IInv, NEW r \in Readers, rd[r].c # 0, net[rd[r].c].bufs = 1,
                      NEW i \in DOMAIN Entries(r), NEW j \in DOMAIN Entries(r),
                      HasNumber(Entries(r)[i]), HasNumber(Entries(r)[j]),
                      NEW n \in (Entries(r)[i].n + 1)..(Entries(r)[j].n - 1)
               PROVE  n \in Empty \cup Nums(Entries(r))
    BY DEF NoGap, Nums
  <1>1. Gapless(Nums(Entries(r)))
    BY DEF IInv, GapInv, GapOf
  <1>2. Entries(r)[i].n \in Nums(Entries(r)) /\ Entries(r)[j].n \in Nums(Entries(r))
    BY DEF Nums
  <1> QED BY <1>1, <1>2 DEF Gapless

\* The inductive invariant of the streams holds, whoever calls, receives and cancels.
THEOREM StreamsAlways == Spec => []IInv
  <1>1. IInv /\ [Next]_vars => IInv'
    BY StreamsKept DEF Step
  <1> QED BY <1>1, StreamsInit, PTL DEF Spec

\* A log channel yields the lines in the order in which the controller sent them and none
\* twice, across what others read from its connection, reconnects and closes
\* (logs.go:139-193).
THEOREM OrderAlways == Spec => []InOrder
  BY StreamsAlways, OrderMeans, PTL

\* A log channel misses no line between two that it yields, as long as its bufio.Reader is
\* all that reads from the connection (logs.go:152-188).
THEOREM NeverGaps == Spec => []NoGap
  BY StreamsAlways, GapMeans, PTL
=============================================================================

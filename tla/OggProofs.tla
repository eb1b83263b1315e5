----------------------------- MODULE OggProofs ------------------------------
(***************************************************************************)
(* What iter_ogg_opus_packets yields of any file: YieldsAll and            *)
(* YieldsBeforeCut of OggPackets.                                          *)
(*                                                                         *)
(* The parser reads segment by segment, in the order in which they were    *)
(* written, so that an induction over the steps does what a recursion over *)
(* the bytes would: the parser before a segment knows exactly what the     *)
(* writer knew there (Aligned), up to the place where the file ends.       *)
(***************************************************************************)
EXTENDS OggPackets, SequenceTheorems, TLAPS

Places == [packet : Nat \ {0}, done : Nat, total : Nat]
First == [packet |-> 1, done |-> 0, total |-> 0]

\* The place behind a segment of n bytes at m.
Behind(m, n) ==
  [packet |-> IF n < Full THEN m.packet + 1 ELSE m.packet,
   done   |-> IF n < Full THEN 0 ELSE m.done + n,
   total  |-> m.total + n]

Items == [page : BOOLEAN, table : Seq(Nat), body : Seq(Nat), marks : Seq(Places)]
Packets == [length : Nat, end : Nat]

OggTypes ==
  /\ packets \in Seq(Packets)
  /\ place \in Places
  /\ file \in Seq(Items)
  /\ missing \in Nat
  /\ written \in BOOLEAN
  /\ pos \in Nat \ {0} /\ seg \in Nat \ {0} /\ idx \in Nat \ {0}
  /\ cur \in Seq(Nat)
  /\ out \in Seq(Seq(Nat))

Last(item) == item.marks[Len(item.table) + 1]

\* The marks of one item go from segment to segment.
Marked(item) ==
  /\ Len(item.marks) = Len(item.table) + 1
  /\ ~item.page => item.table = <<>>
  /\ \A k \in 1..Len(item.table) : item.marks[k + 1] = Behind(item.marks[k], item.table[k])
  /\ \A k \in 1..Len(item.table) + 1 : item.marks[k].total <= Last(item).total

\* The body holds, between the marks of a segment, the packet of the segment;
\* cut bytes are missing.
Filled(item, cut) ==
  /\ Len(item.body) = Last(item).total - item.marks[1].total - cut
  /\ \A k \in 1..Len(item.table) : \A b \in 1..Len(item.body) :
       item.marks[k].total < b + item.marks[1].total
         /\ b + item.marks[1].total <= item.marks[k + 1].total
       => item.body[b] = item.marks[k].packet

\* A segment that ends a packet ends it where the packet ends.
Ended(item, done) ==
  \A k \in 1..Len(item.table) : item.table[k] < Full =>
    /\ item.marks[k].packet \in 1..Len(done)
    /\ done[item.marks[k].packet] = [length |-> item.marks[k].done + item.table[k],
                                     end |-> item.marks[k].total + item.table[k]]

\* Each item begins where the one before ends.
Chained ==
  /\ \A i \in 1..Len(file) - 1 : file[i + 1].marks[1] = Last(file[i])
  /\ IF file = <<>> THEN place = First
     ELSE file[1].marks[1] = First /\ Last(file[Len(file)]) = place

Cut(i) == IF i = Len(file) THEN missing ELSE 0

WriterInv ==
  /\ Len(packets) = place.packet - 1
  /\ \A p \in 1..Len(packets) : p <= 2 => packets[p].length > 0
  /\ \A i \in 1..Len(file) : Marked(file[i]) /\ Filled(file[i], Cut(i)) /\ Ended(file[i], packets)
  /\ Chained
  /\ written => file # <<>>
  /\ ~written => missing = 0 /\ pos = 1 /\ seg = 1 /\ idx = 1 /\ cur = <<>> /\ out = <<>>

\* The writer's place where the parser is.
Here == IF pos <= Len(file) THEN file[pos].marks[seg] ELSE place

Bytes(p, n) == [b \in 1..n |-> p]
AudioBefore(p) == [a \in 1..p - 3 |-> Bytes(a + 2, packets[a + 2].length)]

\* Before the cut the parser has the bytes of the packet under way, and has yielded
\* all packets before it.
Aligned ==
  Here.total <= place.total - missing =>
    cur = Bytes(Here.packet, Here.done) /\ out = AudioBefore(Here.packet)

\* Packets that end before the cut have been yielded when the parser is past them.
WholeYielded ==
  \A p \in 1..Here.packet - 3 :
    packets[p + 2].end <= place.total - missing =>
      p <= Len(out) /\ out[p] = Bytes(p + 2, packets[p + 2].length)

ParserInv ==
  /\ pos \in 1..Len(file) + 1
  /\ pos <= Len(file) => /\ seg \in 1..Len(file[pos].table) + 1
                         /\ idx = 1 + Here.total - file[pos].marks[1].total
  /\ Aligned
  /\ WholeYielded

OggInv == OggTypes /\ WriterInv /\ (written => ParserInv)

-----------------------------------------------------------------------------
(* Sequences *)

LEMMA SeqItems ==
  ASSUME NEW S, NEW s \in Seq(S)
  PROVE  /\ Len(s) \in Nat /\ DOMAIN s = 1..Len(s)
         /\ \A i \in 1..Len(s) : s[i] \in S
         /\ s # <<>> <=> Len(s) >= 1
BY LenProperties, ElementOfSeq, EmptySeq

LEMMA SeqAppend ==
  ASSUME NEW S, NEW s \in Seq(S), NEW x \in S, NEW r, r = Append(s, x)
  PROVE  /\ r \in Seq(S) /\ Len(r) = Len(s) + 1 /\ r # <<>>
         /\ \A i \in 1..Len(s) : r[i] = s[i]
         /\ r[Len(s) + 1] = x
BY AppendProperties

LEMMA SeqJoin ==
  ASSUME NEW S, NEW s \in Seq(S), NEW t \in Seq(S), NEW n, n = Len(t), NEW r, r = s \o t
  PROVE  /\ r \in Seq(S) /\ Len(r) = Len(s) + n
         /\ \A i \in 1..Len(s) + n : r[i] = IF i <= Len(s) THEN s[i] ELSE t[i - Len(s)]
BY ConcatProperties

LEMMA SeqFront ==
  ASSUME NEW S, NEW s \in Seq(S), NEW n \in 0..Len(s), NEW r, r = SubSeq(s, 1, n)
  PROVE  /\ r \in Seq(S) /\ Len(r) = n
         /\ \A i \in 1..n : r[i] = s[i]
<1>1. Len(s) \in Nat /\ \A i \in 1..Len(s) : s[i] \in S
  BY SeqItems
<1>2. 1 \in Int /\ n \in Int /\ \A i \in 1..n : s[i] \in S
  BY <1>1
<1>3. /\ r \in Seq(S)
      /\ Len(r) = IF 1 <= n THEN n - 1 + 1 ELSE 0
      /\ \A i \in 1..n - 1 + 1 : r[i] = s[1 + i - 1]
  BY <1>2, SubSeqProperties
<1>4. Len(r) = n
  BY <1>1, <1>3
<1>5. ASSUME NEW i \in 1..n
      PROVE  r[i] = s[i]
  <2>1. i \in 1..n - 1 + 1 /\ 1 + i - 1 = i
    BY <1>2
  <2> QED
    BY <1>3, <2>1
<1> QED
  BY <1>3, <1>4, <1>5

LEMMA SeqMake ==
  ASSUME NEW S, NEW n \in Nat, NEW f \in [1..n -> S]
  PROVE  f \in Seq(S) /\ Len(f) = n
OBVIOUS

LEMMA SeqOne ==
  ASSUME NEW S, NEW x \in S
  PROVE  <<x>> \in Seq(S) /\ Len(<<x>>) = 1 /\ <<x>>[1] = x
OBVIOUS

\* n bytes of a packet, and what is made by putting such runs together.
LEMMA BytesType ==
  ASSUME NEW p \in Nat, NEW n \in Nat
  PROVE  /\ Bytes(p, n) \in Seq(Nat) /\ Len(Bytes(p, n)) = n
         /\ \A i \in 1..n : Bytes(p, n)[i] = p
BY DEF Bytes

LEMMA BytesJoin ==
  ASSUME NEW p \in Nat, NEW m \in Nat, NEW n \in Nat
  PROVE  Bytes(p, m) \o Bytes(p, n) = Bytes(p, m + n)
<1> DEFINE a == Bytes(p, m)
           b == Bytes(p, n)
           c == Bytes(p, m + n)
<1>1. /\ a \in Seq(Nat) /\ Len(a) = m /\ \A i \in 1..m : a[i] = p
      /\ b \in Seq(Nat) /\ Len(b) = n /\ \A i \in 1..n : b[i] = p
      /\ c \in Seq(Nat) /\ Len(c) = m + n /\ \A i \in 1..m + n : c[i] = p
  <2>1. a \in Seq(Nat) /\ Len(a) = m /\ \A i \in 1..m : a[i] = p
    BY BytesType
  <2>2. b \in Seq(Nat) /\ Len(b) = n /\ \A i \in 1..n : b[i] = p
    BY BytesType
  <2>3. m + n \in Nat
    OBVIOUS
  <2>4. c \in Seq(Nat) /\ Len(c) = m + n /\ \A i \in 1..m + n : c[i] = p
    BY <2>3, BytesType
  <2> QED
    BY <2>1, <2>2, <2>4
<1> HIDE DEF a, b, c
<1>2. /\ a \o b \in Seq(Nat) /\ Len(a \o b) = m + n
      /\ \A i \in 1..m + n : (a \o b)[i] = IF i <= m THEN a[i] ELSE b[i - m]
  <2>1. a \in Seq(Nat) /\ b \in Seq(Nat) /\ n = Len(b)
    BY <1>1
  <2>2. Len(a) = m
    BY <1>1
  <2> DEFINE r == a \o b
  <2>3. r = a \o b
    OBVIOUS
  <2> HIDE DEF r
  <2>4. /\ r \in Seq(Nat) /\ Len(r) = Len(a) + n
        /\ \A i \in 1..Len(a) + n : r[i] = IF i <= Len(a) THEN a[i] ELSE b[i - Len(a)]
    BY ONLY <2>1, <2>3, SeqJoin
  <2> QED
    BY ONLY <2>2, <2>3, <2>4
<1>3. ASSUME NEW i \in 1..m + n
      PROVE  (a \o b)[i] = c[i]
  BY <1>1, <1>2
<1>4. a \o b = c
  BY <1>1, <1>2, <1>3, SeqEqual
<1> QED
  BY <1>4 DEF a, b, c

-----------------------------------------------------------------------------
(* Items *)

LEMMA ItemParts ==
  ASSUME NEW item \in Items
  PROVE  /\ item.page \in BOOLEAN /\ item.table \in Seq(Nat) /\ Len(item.table) \in Nat
         /\ item.body \in Seq(Nat) /\ Len(item.body) \in Nat
         /\ item.marks \in Seq(Places) /\ Len(item.marks) \in Nat
         /\ \A k \in 1..Len(item.table) : item.table[k] \in Nat
         /\ \A k \in 1..Len(item.marks) : item.marks[k] \in Places
<1>1. /\ item.page \in BOOLEAN /\ item.table \in Seq(Nat)
      /\ item.body \in Seq(Nat) /\ item.marks \in Seq(Places)
  BY DEF Items
<1> QED
  BY <1>1, SeqItems

LEMMA MarkedPlaces ==
  ASSUME NEW item \in Items, Marked(item)
  PROVE  /\ \A k \in 1..Len(item.table) + 1 : item.marks[k] \in Places
         /\ item.marks[1] \in Places /\ Last(item) \in Places
<1>1. Len(item.table) \in Nat /\ Len(item.marks) = Len(item.table) + 1
  BY ItemParts DEF Marked
<1>2. \A k \in 1..Len(item.table) + 1 : item.marks[k] \in Places
  BY <1>1, ItemParts
<1> QED
  BY <1>1, <1>2 DEF Last

LEMMA BehindType ==
  ASSUME NEW m \in Places, NEW n \in Nat
  PROVE  Behind(m, n) \in Places /\ Behind(m, n).total = m.total + n
BY DEF Behind, Places

LEMMA ItemBegun ==
  ASSUME NEW p \in Places, NEW page \in BOOLEAN, NEW item,
         item = [page |-> page, table |-> <<>>, body |-> <<>>, marks |-> <<p>>]
  PROVE  /\ item \in Items /\ Marked(item) /\ Filled(item, 0)
         /\ Last(item) = p /\ item.marks[1] = p /\ item.table = <<>>
<1>1. /\ item.table = <<>> /\ item.body = <<>> /\ item.marks = <<p>> /\ item.page = page
      /\ Len(item.table) = 0 /\ Len(item.body) = 0 /\ Len(item.marks) = 1
      /\ item.marks[1] = p
  OBVIOUS
<1>2. <<>> \in Seq(Nat) /\ <<p>> \in Seq(Places)
  BY SeqOne
<1>3. item \in Items
  BY <1>2 DEF Items
<1>4. Last(item) = p
  BY <1>1 DEF Last
<1>5. p.total \in Nat
  BY DEF Places
<1>6. Marked(item)
  BY <1>1, <1>4, <1>5 DEF Marked
<1>7. Filled(item, 0)
  BY <1>1, <1>4, <1>5 DEF Filled
<1> QED
  BY <1>1, <1>3, <1>4, <1>6, <1>7

\* A segment of n bytes is written behind item.
Grown(item, n) ==
  [page  |-> TRUE,
   table |-> Append(item.table, n),
   body  |-> item.body \o Bytes(Last(item).packet, n),
   marks |-> Append(item.marks, Behind(Last(item), n))]

LEMMA GrownParts ==
  ASSUME NEW item \in Items, Marked(item), item.page, NEW n \in Nat
  PROVE  LET new == Grown(item, n)
             t == Len(item.table)
         IN /\ new \in Items /\ new.page
            /\ t \in Nat /\ Len(new.table) = t + 1 /\ Len(new.marks) = t + 2
            /\ new.table[t + 1] = n /\ new.marks[t + 2] = Behind(Last(item), n)
            /\ \A k \in 1..t : new.table[k] = item.table[k]
            /\ \A k \in 1..t + 1 : new.marks[k] = item.marks[k]
            /\ Len(new.body) = Len(item.body) + n
            /\ \A b \in 1..Len(item.body) : new.body[b] = item.body[b]
            /\ \A b \in Len(item.body) + 1..Len(item.body) + n : new.body[b] = Last(item).packet
<1> DEFINE new == Grown(item, n)
           t == Len(item.table)
           m == Behind(Last(item), n)
           run == Bytes(Last(item).packet, n)
<1>1. /\ item.table \in Seq(Nat) /\ item.body \in Seq(Nat) /\ item.marks \in Seq(Places)
      /\ t \in Nat /\ Len(item.table) = t
      /\ Len(item.marks) = t + 1 /\ Len(item.body) \in Nat
  BY ItemParts DEF Marked
<1>2. Last(item) \in Places /\ m \in Places /\ Last(item).packet \in Nat
  BY MarkedPlaces, BehindType DEF Places
<1>3. run \in Seq(Nat) /\ Len(run) = n /\ \A b \in 1..n : run[b] = Last(item).packet
  BY <1>2, BytesType
<1>4. /\ new.page = TRUE /\ new.table = Append(item.table, n)
      /\ new.body = item.body \o run /\ new.marks = Append(item.marks, m)
      /\ new = [page |-> TRUE, table |-> new.table, body |-> new.body, marks |-> new.marks]
  BY DEF Grown
<1> HIDE DEF new, t, m, run
<1>5. /\ new.table \in Seq(Nat) /\ Len(new.table) = t + 1
      /\ \A k \in 1..t : new.table[k] = item.table[k]
      /\ new.table[t + 1] = n
  BY <1>1, <1>4, SeqAppend
<1>6. /\ new.marks \in Seq(Places) /\ Len(new.marks) = t + 1 + 1
      /\ \A k \in 1..t + 1 : new.marks[k] = item.marks[k]
      /\ new.marks[t + 1 + 1] = m
  BY <1>1, <1>2, <1>4, SeqAppend
<1>7. /\ new.body \in Seq(Nat) /\ Len(new.body) = Len(item.body) + n
      /\ \A b \in 1..Len(item.body) + n :
           new.body[b] = IF b <= Len(item.body) THEN item.body[b] ELSE run[b - Len(item.body)]
  <2>1. item.body \in Seq(Nat) /\ run \in Seq(Nat) /\ n = Len(run) /\ new.body = item.body \o run
    BY <1>1, <1>3, <1>4
  <2> QED
    BY ONLY <2>1, SeqJoin
<1>8. \A b \in 1..Len(item.body) : new.body[b] = item.body[b]
  <2>1. ASSUME NEW b \in 1..Len(item.body)
        PROVE  b \in 1..Len(item.body) + n /\ b <= Len(item.body)
    BY <1>1
  <2> QED
    BY <1>7, <2>1
<1>9. \A b \in Len(item.body) + 1..Len(item.body) + n : new.body[b] = Last(item).packet
  <2>1. ASSUME NEW b \in Len(item.body) + 1..Len(item.body) + n
        PROVE  /\ b \in 1..Len(item.body) + n /\ ~(b <= Len(item.body))
               /\ b - Len(item.body) \in 1..n
    BY <1>1, <2>1
  <2> QED
    BY <1>3, <1>7, <2>1
<1>10. new \in Items
  BY <1>4, <1>5, <1>6, <1>7 DEF Items
<1>11. t + 1 + 1 = t + 2
  BY <1>1
<1> QED
  BY <1>1, <1>4, <1>5, <1>6, <1>7, <1>8, <1>9, <1>10, <1>11 DEF new, t, m

LEMMA GrownMarked ==
  ASSUME NEW item \in Items, Marked(item), Filled(item, 0), item.page, NEW n \in Nat
  PROVE  LET new == Grown(item, n)
         IN /\ Marked(new) /\ Filled(new, 0)
            /\ Last(new) = Behind(Last(item), n) /\ new.marks[1] = item.marks[1]
<1> DEFINE new == Grown(item, n)
           t == Len(item.table)
           l == Len(item.body)
<1>1. /\ new \in Items /\ new.page
      /\ t \in Nat /\ Len(new.table) = t + 1 /\ Len(new.marks) = t + 2
      /\ new.table[t + 1] = n /\ new.marks[t + 2] = Behind(Last(item), n)
      /\ \A k \in 1..t : new.table[k] = item.table[k]
      /\ \A k \in 1..t + 1 : new.marks[k] = item.marks[k]
      /\ Len(new.body) = l + n
      /\ \A b \in 1..l : new.body[b] = item.body[b]
      /\ \A b \in l + 1..l + n : new.body[b] = Last(item).packet
  BY GrownParts
<1>2. /\ \A k \in 1..t + 1 : item.marks[k] \in Places
      /\ item.marks[1] \in Places /\ Last(item) \in Places
  BY MarkedPlaces
<1>3. l \in Nat
  BY ItemParts
<1>4. Last(item) = item.marks[t + 1]
  BY DEF Last
<1> HIDE DEF new
<1>5. Last(new) = Behind(Last(item), n)
  <2>1. t + 1 + 1 = t + 2
    BY <1>1
  <2> QED
    BY <1>1, <2>1 DEF Last
<1>6. new.marks[1] = item.marks[1]
  BY <1>1
<1>7. Last(new).total = Last(item).total + n /\ Last(item).total \in Nat
  BY <1>2, <1>5, BehindType DEF Places
<1>8. Marked(new)
  <2>1. ASSUME NEW k \in 1..Len(new.table)
        PROVE  new.marks[k + 1] = Behind(new.marks[k], new.table[k])
    <3>1. ASSUME k \in 1..t
          PROVE  new.marks[k + 1] = Behind(new.marks[k], new.table[k])
      <4>1. k + 1 \in 1..t + 1 /\ k \in 1..t + 1
        BY <1>1, <3>1
      <4>2. item.marks[k + 1] = Behind(item.marks[k], item.table[k])
        BY <3>1 DEF Marked
      <4> QED
        BY <1>1, <3>1, <4>1, <4>2
    <3>2. ASSUME k = t + 1
          PROVE  new.marks[k + 1] = Behind(new.marks[k], new.table[k])
      <4>1. k + 1 = t + 2 /\ k \in 1..t + 1
        BY <1>1, <3>2
      <4> QED
        BY <1>1, <1>4, <3>2, <4>1
    <3> QED
      BY <1>1, <3>1, <3>2
  <2>2. ASSUME NEW k \in 1..Len(new.table) + 1
        PROVE  new.marks[k].total <= Last(new).total
    <3>1. ASSUME k \in 1..t + 1
          PROVE  new.marks[k].total <= Last(new).total
      <4>1. item.marks[k].total <= Last(item).total /\ item.marks[k].total \in Nat
        BY <1>2, <3>1 DEF Marked, Places
      <4>2. new.marks[k].total = item.marks[k].total
        BY <1>1, <3>1
      <4> QED
        BY <1>7, <4>1, <4>2
    <3>2. ASSUME k = t + 2
          PROVE  new.marks[k].total <= Last(new).total
      <4>1. new.marks[k] = Last(new)
        BY <1>1, <1>5, <3>2
      <4>2. Last(new).total \in Nat
        BY <1>7
      <4> QED
        BY <4>1, <4>2
    <3> QED
      BY <1>1, <3>1, <3>2
  <2>3. Len(new.marks) = Len(new.table) + 1
    BY <1>1
  <2> QED
    BY <1>1, <2>1, <2>2, <2>3 DEF Marked
<1>9. Filled(new, 0)
  <2> DEFINE f == item.marks[1].total
  <2>1. f \in Nat /\ l = Last(item).total - f - 0
    BY <1>2 DEF Filled, Places
  <2>2. Len(new.body) = Last(new).total - new.marks[1].total - 0
    <3>1. new.marks[1].total = f /\ Len(new.body) = l + n
      BY <1>1, <1>6
    <3> HIDE DEF f, l
    <3> QED
      BY <1>3, <1>7, <2>1, <3>1
  <2>3. ASSUME NEW k \in 1..Len(new.table), NEW b \in 1..Len(new.body),
               new.marks[k].total < b + new.marks[1].total,
               b + new.marks[1].total <= new.marks[k + 1].total
        PROVE  new.body[b] = new.marks[k].packet
    <3>1. ASSUME k \in 1..t
          PROVE  new.body[b] = new.marks[k].packet
      <4>1. k + 1 \in 1..t + 1 /\ k \in 1..t + 1
        BY <1>1, <3>1
      <4>2. /\ item.marks[k].total < b + f /\ b + f <= item.marks[k + 1].total
            /\ item.marks[k + 1].total <= Last(item).total
            /\ item.marks[k + 1].total \in Nat
        <5>1. new.marks[k] = item.marks[k] /\ new.marks[k + 1] = item.marks[k + 1]
          BY <1>1, <4>1
        <5>2. item.marks[k + 1].total <= Last(item).total
          BY <4>1 DEF Marked
        <5>3. item.marks[k + 1].total \in Nat
          BY <1>2, <4>1 DEF Places
        <5> QED
          BY <1>6, <2>3, <5>1, <5>2, <5>3
      <4>3. b \in 1..l
        <5>1. b \in Nat /\ b >= 1 /\ Last(item).total \in Nat
          BY <1>1, <1>3, <1>7
        <5> HIDE DEF f, l
        <5>2. b + f <= Last(item).total
          <6>1. /\ b + f <= item.marks[k + 1].total
                /\ item.marks[k + 1].total <= Last(item).total
                /\ item.marks[k + 1].total \in Nat
            BY <4>2
          <6> QED
            BY <2>1, <5>1, <6>1
        <5> QED
          BY <1>3, <2>1, <5>1, <5>2
      <4>4. item.body[b] = item.marks[k].packet
        BY <3>1, <4>2, <4>3 DEF Filled
      <4> QED
        BY <1>1, <4>1, <4>3, <4>4
    <3>2. ASSUME k = t + 1
          PROVE  new.body[b] = new.marks[k].packet
      <4>1. k \in 1..t + 1
        BY <1>1, <3>2
      <4>2. Last(item).total < b + f /\ new.marks[k] = Last(item)
        <5>1. new.marks[k] = item.marks[k] /\ item.marks[k] = Last(item)
          BY <1>1, <1>4, <3>2, <4>1
        <5> QED
          BY <1>6, <2>3, <5>1
      <4>3. b \in l + 1..l + n
        <5>1. b \in 1..l + n /\ Last(item).total \in Nat
          BY <1>1, <1>7
        <5>2. Last(item).total < b + f
          BY <4>2
        <5> HIDE DEF f, l
        <5> QED
          BY <1>3, <2>1, <5>1, <5>2
      <4> QED
        BY <1>1, <4>2, <4>3
    <3> QED
      BY <1>1, <3>1, <3>2
  <2> QED
    BY <2>2, <2>3 DEF Filled
<1> QED
  BY <1>5, <1>6, <1>8, <1>9 DEF new

\* The last n bytes of item are missing.
Shortened(item, n) == [item EXCEPT !.body = SubSeq(item.body, 1, Len(item.body) - n)]

LEMMA RecordCut ==
  ASSUME NEW A, NEW B, NEW C, NEW D, NEW x,
         NEW item \in [page : A, table : B, body : C, marks : D]
  PROVE  [item EXCEPT !.body = x] =
           [page |-> item.page, table |-> item.table, body |-> x, marks |-> item.marks]
OBVIOUS

LEMMA ShortenedMarked ==
  ASSUME NEW item \in Items, Marked(item), Filled(item, 0), NEW n \in 0..Len(item.body)
  PROVE  LET new == Shortened(item, n)
         IN /\ new \in Items /\ Marked(new) /\ Filled(new, n)
            /\ new.table = item.table /\ new.marks = item.marks /\ Last(new) = Last(item)
<1> DEFINE new == Shortened(item, n)
           l == Len(item.body)
<1>1. /\ item.page \in BOOLEAN /\ item.table \in Seq(Nat)
      /\ item.body \in Seq(Nat) /\ item.marks \in Seq(Places) /\ l \in Nat
      /\ \A b \in 1..l : item.body[b] \in Nat
  BY ItemParts, SeqItems
<1>2. /\ new.table = item.table /\ new.marks = item.marks /\ new.page = item.page
      /\ new.body = SubSeq(item.body, 1, l - n)
      /\ new = [page |-> new.page, table |-> new.table, body |-> new.body, marks |-> new.marks]
  <2> DEFINE body == SubSeq(item.body, 1, l - n)
  <2>1. item \in [page : BOOLEAN, table : Seq(Nat), body : Seq(Nat), marks : Seq(Places)]
    BY DEF Items
  <2>2. new = [item EXCEPT !.body = body]
    BY DEF Shortened
  <2> HIDE DEF body, new
  <2>3. new = [page |-> item.page, table |-> item.table, body |-> body, marks |-> item.marks]
    BY <2>1, <2>2, RecordCut
  <2> QED
    BY <2>3 DEF body
<1> HIDE DEF new
<1>3. l - n \in 0..l
  BY <1>1
<1>4. /\ new.body \in Seq(Nat) /\ Len(new.body) = l - n
      /\ \A b \in 1..l - n : new.body[b] = item.body[b]
  <2> DEFINE m == l - n
  <2>1. m \in 0..Len(item.body) /\ new.body = SubSeq(item.body, 1, m)
    BY <1>2, <1>3
  <2> HIDE DEF m
  <2>2. /\ new.body \in Seq(Nat) /\ Len(new.body) = m
        /\ \A b \in 1..m : new.body[b] = item.body[b]
    BY <1>1, <2>1, SeqFront
  <2> QED
    BY <2>2 DEF m
<1>5. \A b \in 1..l - n : b \in 1..l
  BY <1>1
<1>7. new \in Items
  BY <1>1, <1>2, <1>4 DEF Items
<1>8. Last(new) = Last(item)
  BY <1>2 DEF Last
<1>9. Marked(new)
  BY <1>2, <1>8 DEF Marked
<1>10. Filled(new, n)
  <2>1. Len(new.body) = Last(new).total - new.marks[1].total - n
    <3>1. l = Last(item).total - item.marks[1].total - 0
      BY DEF Filled
    <3>2. Last(item).total \in Nat /\ item.marks[1].total \in Nat
      BY MarkedPlaces DEF Places
    <3>3. Last(new).total = Last(item).total /\ new.marks[1].total = item.marks[1].total
      BY <1>2, <1>8
    <3> QED
      BY <1>1, <1>4, <3>1, <3>2, <3>3
  <2>2. ASSUME NEW k \in 1..Len(new.table), NEW b \in 1..Len(new.body),
               new.marks[k].total < b + new.marks[1].total,
               b + new.marks[1].total <= new.marks[k + 1].total
        PROVE  new.body[b] = new.marks[k].packet
    <3>1. b \in 1..l /\ new.body[b] = item.body[b]
      BY <1>4, <1>5
    <3> QED
      BY <1>2, <2>2, <3>1 DEF Filled
  <2> QED
    BY <2>1, <2>2 DEF Filled
<1> QED
  BY <1>2, <1>7, <1>8, <1>9, <1>10 DEF new

LEMMA TopReplaced ==
  ASSUME NEW S, NEW f \in Seq(S), f # <<>>, NEW new \in S, NEW n, n = Len(f), NEW g,
         g = [f EXCEPT ![n] = new]
  PROVE  /\ g \in Seq(S) /\ Len(g) = n /\ n \in Nat \ {0} /\ g # <<>>
         /\ \A i \in 1..n : i # n => g[i] = f[i]
         /\ g[n] = new
<1>1. n \in Nat /\ n >= 1 /\ n \in 1..n
  BY SeqItems
<1>2. g \in Seq(S) /\ Len(g) = n /\ \A i \in 1..n : g[i] = IF i = n THEN new ELSE f[i]
  BY <1>1, ExceptSeq
<1> QED
  BY <1>1, <1>2, SeqItems

-----------------------------------------------------------------------------
(* The writer *)

LEMMA OggInit == Init => OggInv
<1> SUFFICES ASSUME Init PROVE OggInv
  OBVIOUS
<1>1. OggTypes
  <2>1. place \in Places
    BY DEF Init, Places
  <2>2. <<>> \in Seq(Packets) /\ <<>> \in Seq(Items) /\ <<>> \in Seq(Nat) /\ <<>> \in Seq(Seq(Nat))
    BY EmptySeq
  <2>3. 1 \in Nat \ {0} /\ 0 \in Nat /\ FALSE \in BOOLEAN
    OBVIOUS
  <2> QED
    BY <2>1, <2>2, <2>3 DEF Init, OggTypes
<1>2. Len(packets) = 0 /\ Len(file) = 0
  BY DEF Init
<1>3. WriterInv
  BY <1>2 DEF Init, WriterInv, Chained, First
<1> QED
  BY <1>1, <1>3 DEF Init, OggInv

\* An item is begun where the one before ends.
LEMMA ItemStep ==
  ASSUME OggInv, NewPage \/ Gap
  PROVE  OggInv'
<1> DEFINE n == Len(file)
<1>1. PICK page \in BOOLEAN : file' = Append(file, Item(page))
  BY DEF NewPage, Gap
<1>2. ~written /\ UNCHANGED <<packets, place, missing, written, pos, seg, idx, cur, out>>
  BY DEF NewPage, Gap, parser
<1>3. OggTypes /\ WriterInv
  BY DEF OggInv
<1>4. /\ Item(page) \in Items /\ Marked(Item(page)) /\ Filled(Item(page), 0)
      /\ Last(Item(page)) = place /\ Item(page).marks[1] = place /\ Item(page).table = <<>>
  BY <1>3, ItemBegun DEF OggTypes, Item
<1>5. file \in Seq(Items) /\ n \in Nat /\ (file # <<>> <=> n >= 1)
  BY <1>3, SeqItems DEF OggTypes
<1>6. /\ file' \in Seq(Items) /\ Len(file') = n + 1 /\ file' # <<>>
      /\ \A i \in 1..n : file'[i] = file[i]
      /\ file'[n + 1] = Item(page)
  BY <1>1, <1>4, <1>5, SeqAppend
<1> HIDE DEF n
<1>7. OggTypes'
  BY <1>2, <1>3, <1>6 DEF OggTypes
<1>8. missing = 0 /\ \A i \in 1..n + 1 : Cut(i) = 0 /\ Cut(i)' = 0
  BY <1>2, <1>3 DEF WriterInv, Cut
<1>9. ASSUME NEW i \in 1..Len(file')
      PROVE  Marked(file'[i]) /\ Filled(file'[i], Cut(i)') /\ Ended(file'[i], packets')
  <2>1. ASSUME i \in 1..n
        PROVE  Marked(file'[i]) /\ Filled(file'[i], Cut(i)') /\ Ended(file'[i], packets')
    <3>1. Marked(file[i]) /\ Filled(file[i], Cut(i)) /\ Ended(file[i], packets)
      BY <1>3, <2>1 DEF WriterInv, n
    <3> QED
      BY <1>2, <1>5, <1>6, <1>8, <2>1, <3>1
  <2>2. ASSUME i = n + 1
        PROVE  Marked(file'[i]) /\ Filled(file'[i], Cut(i)') /\ Ended(file'[i], packets')
    <3>1. file'[i] = Item(page) /\ Cut(i)' = 0 /\ Len(Item(page).table) = 0
      BY <1>4, <1>5, <1>6, <1>8, <2>2
    <3> QED
      BY <1>4, <3>1 DEF Ended
  <2> QED
    BY <1>5, <1>6, <2>1, <2>2
<1>10. Chained'
  <2>1. ASSUME NEW i \in 1..Len(file') - 1
        PROVE  file'[i + 1].marks[1] = Last(file'[i])
    <3>1. ASSUME i \in 1..n - 1
          PROVE  file'[i + 1].marks[1] = Last(file'[i])
      <4>1. i \in 1..n /\ i + 1 \in 1..n
        BY <1>5, <3>1
      <4>2. file[i + 1].marks[1] = Last(file[i])
        BY <1>3, <3>1 DEF WriterInv, Chained, n
      <4> QED
        BY <1>6, <4>1, <4>2
    <3>2. ASSUME i = n
          PROVE  file'[i + 1].marks[1] = Last(file'[i])
      <4>1. n \in 1..n /\ file # <<>>
        BY <1>5, <1>6, <3>2
      <4>2. Last(file[n]) = place
        BY <1>3, <4>1 DEF WriterInv, Chained, n
      <4> QED
        BY <1>4, <1>6, <3>2, <4>1, <4>2
    <3> QED
      BY <1>5, <1>6, <3>1, <3>2
  <2>2. Last(file'[Len(file')]) = place'
    BY <1>2, <1>4, <1>6
  <2>3. file'[1].marks[1] = First
    <3>1. ASSUME n = 0
          PROVE  file'[1].marks[1] = First
      <4>1. place = First
        BY <1>3, <1>5, <3>1 DEF WriterInv, Chained
      <4> QED
        BY <1>4, <1>6, <3>1, <4>1
    <3>2. ASSUME n # 0
          PROVE  file'[1].marks[1] = First
      <4>1. file # <<>> /\ 1 \in 1..n
        BY <1>5, <3>2
      <4> QED
        BY <1>3, <1>6, <4>1 DEF WriterInv, Chained
    <3> QED
      BY <3>1, <3>2
  <2> QED
    BY <1>6, <2>1, <2>2, <2>3 DEF Chained
<1>11. WriterInv'
  BY <1>2, <1>3, <1>6, <1>9, <1>10 DEF WriterInv
<1> QED
  BY <1>2, <1>7, <1>11 DEF OggInv

\* What holds of the packets written goes on to hold when more follow.
LEMMA EndedKept ==
  ASSUME NEW item \in Items, NEW done \in Seq(Packets), NEW more \in Seq(Packets),
         Len(done) <= Len(more), \A p \in 1..Len(done) : more[p] = done[p],
         Ended(item, done)
  PROVE  Ended(item, more)
<1>1. Len(done) \in Nat /\ Len(more) \in Nat
  BY SeqItems
<1>2. \A p \in 1..Len(done) : p \in 1..Len(more)
  BY <1>1
<1> QED
  BY <1>2 DEF Ended

\* The last item, and what follows from a change of it alone.
LEMMA TopChain ==
  ASSUME NEW f \in Seq(Items), NEW g \in Seq(Items), f # <<>>, Len(g) = Len(f),
         \A i \in 1..Len(f) : i # Len(f) => g[i] = f[i],
         g[Len(f)].marks[1] = f[Len(f)].marks[1],
         f[1].marks[1] = First,
         \A i \in 1..Len(f) - 1 : f[i + 1].marks[1] = Last(f[i])
  PROVE  /\ g[1].marks[1] = First
         /\ \A i \in 1..Len(f) - 1 : g[i + 1].marks[1] = Last(g[i])
<1> DEFINE n == Len(f)
<1>1. n \in Nat /\ n >= 1
  BY SeqItems
<1>2. 1 \in 1..n
  BY <1>1
<1>3. ASSUME NEW i \in 1..n
      PROVE  g[i].marks[1] = f[i].marks[1]
  BY <1>3
<1>4. ASSUME NEW i \in 1..n - 1
      PROVE  g[i + 1].marks[1] = Last(g[i])
  <2>1. i \in 1..n /\ i # n /\ i + 1 \in 1..n
    BY <1>1
  <2>2. g[i] = f[i] /\ g[i + 1].marks[1] = f[i + 1].marks[1]
    BY <1>3, <2>1
  <2> QED
    BY <2>2
<1> QED
  BY <1>2, <1>3, <1>4

LEMMA WriteStep ==
  ASSUME OggInv, WriteSegment
  PROVE  OggInv'
<1> DEFINE l == Len(file)
<1>1. PICK n \in 0..Full :
        /\ place.packet <= 2 /\ n < Full => place.done + n > 0
        /\ place' = After(n)
        /\ packets' = IF n < Full
                      THEN Append(packets, [length |-> place.done + n,
                                            end |-> place.total + n])
                      ELSE packets
        /\ file' = [file EXCEPT ![l] =
                      [page  |-> TRUE,
                       table |-> Append(Top.table, n),
                       body  |-> Top.body \o [b \in 1..n |-> place.packet],
                       marks |-> Append(Top.marks, After(n))]]
  BY DEF WriteSegment
<1>2. /\ ~written /\ file # <<>> /\ Top.page
      /\ UNCHANGED <<missing, written, pos, seg, idx, cur, out>>
  BY DEF WriteSegment, parser
<1>3. OggTypes /\ WriterInv
  BY DEF OggInv
<1>4. n \in Nat /\ (n < Full \/ n = Full)
  BY OggAssumption
<1>5. /\ file \in Seq(Items) /\ l \in Nat /\ l >= 1 /\ l \in 1..l /\ Top \in Items
      /\ packets \in Seq(Packets) /\ Len(packets) \in Nat
      /\ place \in Places
  <2>1. file \in Seq(Items) /\ packets \in Seq(Packets) /\ place \in Places
    BY <1>3 DEF OggTypes
  <2> QED
    BY <1>2, <2>1, SeqItems DEF Top
<1>6. /\ Marked(Top) /\ Filled(Top, 0) /\ Ended(Top, packets) /\ Last(Top) = place
      /\ missing = 0
  <2>1. missing = 0 /\ Cut(l) = 0
    BY <1>2, <1>3 DEF WriterInv, Cut
  <2>2. Marked(file[l]) /\ Filled(file[l], Cut(l)) /\ Ended(file[l], packets)
    BY <1>3, <1>5 DEF WriterInv
  <2>3. Last(file[l]) = place
    BY <1>2, <1>3 DEF WriterInv, Chained
  <2> QED
    BY <2>1, <2>2, <2>3 DEF Top
<1> DEFINE new == Grown(Top, n)
           t == Len(Top.table)
<1>7. place' = Behind(place, n) /\ file' = [file EXCEPT ![l] = new]
  BY <1>1, <1>6 DEF After, Behind, Grown, Bytes
<1>8. /\ new \in Items
      /\ t \in Nat /\ Len(new.table) = t + 1
      /\ new.table[t + 1] = n
      /\ \A k \in 1..t : new.table[k] = Top.table[k]
      /\ \A k \in 1..t + 1 : new.marks[k] = Top.marks[k]
  BY <1>2, <1>4, <1>5, <1>6, GrownParts
<1>9. Marked(new) /\ Filled(new, 0) /\ Last(new) = place' /\ new.marks[1] = Top.marks[1]
  BY <1>2, <1>4, <1>5, <1>6, <1>7, GrownMarked
<1> HIDE DEF new, l
<1>10. /\ file' \in Seq(Items) /\ Len(file') = l /\ file' # <<>>
       /\ \A i \in 1..l : i # l => file'[i] = file[i]
       /\ file'[l] = new
  BY <1>2, <1>5, <1>7, <1>8, TopReplaced DEF l
<1>11. place' \in Places /\ place.done \in Nat /\ place.total \in Nat /\ place.packet \in Nat
  BY <1>4, <1>5, <1>7, BehindType DEF Places
<1>12. /\ packets' \in Seq(Packets) /\ Len(packets) <= Len(packets')
       /\ \A p \in 1..Len(packets) : packets'[p] = packets[p]
       /\ Len(packets') = place'.packet - 1
       /\ n < Full => /\ place.packet \in 1..Len(packets')
                      /\ Len(packets') = Len(packets) + 1
                      /\ packets'[place.packet] = [length |-> place.done + n,
                                                   end |-> place.total + n]
       /\ n = Full => packets' = packets
  <2>1. Len(packets) = place.packet - 1
    BY <1>3 DEF WriterInv
  <2>2. ASSUME n < Full
        PROVE  /\ packets' \in Seq(Packets) /\ Len(packets') = Len(packets) + 1
               /\ \A p \in 1..Len(packets) : packets'[p] = packets[p]
               /\ packets'[Len(packets) + 1] = [length |-> place.done + n,
                                                end |-> place.total + n]
               /\ place'.packet = place.packet + 1
    <3> DEFINE x == [length |-> place.done + n, end |-> place.total + n]
    <3>1. x \in Packets
      BY <1>4, <1>11 DEF Packets
    <3>2. packets' = Append(packets, x)
      BY <1>1, <2>2
    <3> HIDE DEF x
    <3>3. /\ packets' \in Seq(Packets) /\ Len(packets') = Len(packets) + 1
          /\ \A p \in 1..Len(packets) : packets'[p] = packets[p]
          /\ packets'[Len(packets) + 1] = x
      BY <1>5, <3>1, <3>2, SeqAppend
    <3> QED
      BY <1>7, <2>2, <3>3 DEF x, Behind
  <2>3. ASSUME n = Full
        PROVE  packets' = packets /\ place'.packet = place.packet
    BY <1>1, <1>4, <1>7, <2>3, OggAssumption DEF Behind
  <2>4. Len(packets) + 1 = place.packet
    BY <1>5, <1>11, <2>1
  <2>5. ASSUME n < Full
        PROVE  /\ Len(packets) <= Len(packets') /\ place.packet \in 1..Len(packets')
               /\ Len(packets') = place'.packet - 1
    BY <1>5, <1>11, <2>2, <2>4, <2>5
  <2>6. n = Full => ~(n < Full)
    BY <1>4, OggAssumption
  <2> QED
    BY <1>4, <1>5, <2>1, <2>2, <2>3, <2>4, <2>5, <2>6
<1>13. \A p \in 1..Len(packets') : p <= 2 => packets'[p].length > 0
  <2>1. \A p \in 1..Len(packets) : p <= 2 => packets[p].length > 0
    BY <1>3 DEF WriterInv
  <2>2. ASSUME NEW p \in 1..Len(packets'), p <= 2, n < Full
        PROVE  packets'[p].length > 0
    <3>1. Len(packets) = place.packet - 1 /\ Len(packets') = Len(packets) + 1
      BY <1>3, <1>12, <2>2 DEF WriterInv
    <3>2. p \in 1..Len(packets) \/ p = place.packet
      BY <1>5, <1>11, <3>1
    <3>3. ASSUME p = place.packet
          PROVE  packets'[p].length > 0
      BY <1>1, <1>12, <2>2, <3>3
    <3> QED
      BY <1>12, <2>1, <2>2, <3>2, <3>3
  <2> QED
    BY <1>4, <1>12, <2>1, <2>2
<1>14. OggTypes'
  BY <1>2, <1>3, <1>10, <1>11, <1>12 DEF OggTypes
<1>15. Ended(new, packets')
  <2>1. ASSUME NEW k \in 1..Len(new.table), new.table[k] < Full
        PROVE  /\ new.marks[k].packet \in 1..Len(packets')
               /\ packets'[new.marks[k].packet] = [length |-> new.marks[k].done + new.table[k],
                                                   end |-> new.marks[k].total + new.table[k]]
    <3>1. ASSUME k \in 1..t
          PROVE  /\ new.marks[k].packet \in 1..Len(packets')
                 /\ packets'[new.marks[k].packet] =
                      [length |-> new.marks[k].done + new.table[k],
                       end |-> new.marks[k].total + new.table[k]]
      <4>1. k \in 1..t + 1 /\ Ended(Top, packets')
        BY <1>5, <1>6, <1>8, <1>12, <3>1, EndedKept
      <4> QED
        BY <1>8, <2>1, <3>1, <4>1 DEF Ended
    <3>2. ASSUME k = t + 1
          PROVE  /\ new.marks[k].packet \in 1..Len(packets')
                 /\ packets'[new.marks[k].packet] =
                      [length |-> new.marks[k].done + new.table[k],
                       end |-> new.marks[k].total + new.table[k]]
      <4>1. k \in 1..t + 1
        BY <1>8, <3>2
      <4>2. new.marks[k] = place /\ new.table[k] = n
        BY <1>6, <1>8, <3>2, <4>1 DEF Last
      <4> QED
        BY <1>12, <2>1, <4>2
    <3> QED
      BY <1>8, <3>1, <3>2
  <2> QED
    BY <2>1 DEF Ended
<1>16. ASSUME NEW i \in 1..Len(file')
       PROVE  Marked(file'[i]) /\ Filled(file'[i], Cut(i)') /\ Ended(file'[i], packets')
  <2>1. Cut(i) = 0 /\ Cut(i)' = 0
    BY <1>2, <1>6 DEF Cut
  <2>2. ASSUME i # l
        PROVE  Marked(file'[i]) /\ Filled(file'[i], Cut(i)') /\ Ended(file'[i], packets')
    <3>1. Marked(file[i]) /\ Filled(file[i], Cut(i)) /\ Ended(file[i], packets)
      BY <1>3, <1>10 DEF WriterInv, l
    <3>2. file[i] \in Items
      BY <1>5, <1>10, SeqItems DEF l
    <3> QED
      BY <1>5, <1>10, <1>12, <2>1, <2>2, <3>1, <3>2, EndedKept
  <2> QED
    BY <1>9, <1>10, <1>15, <2>1, <2>2
<1>17. Chained'
  <2>1. /\ file[1].marks[1] = First
        /\ \A i \in 1..Len(file) - 1 : file[i + 1].marks[1] = Last(file[i])
    BY <1>2, <1>3 DEF WriterInv, Chained
  <2>2. file'[l].marks[1] = file[l].marks[1]
    BY <1>9, <1>10 DEF Top, l
  <2>3. /\ file'[1].marks[1] = First
        /\ \A i \in 1..Len(file) - 1 : file'[i + 1].marks[1] = Last(file'[i])
    BY <1>2, <1>5, <1>10, <2>1, <2>2, TopChain DEF l
  <2> QED
    BY <1>9, <1>10, <2>3 DEF Chained, l
<1>18. WriterInv'
  BY <1>2, <1>3, <1>10, <1>12, <1>13, <1>16, <1>17 DEF WriterInv
<1> QED
  BY <1>2, <1>14, <1>18 DEF OggInv

LEMMA FinishStep ==
  ASSUME OggInv, Finish
  PROVE  OggInv'
<1> DEFINE l == Len(file)
<1>1. PICK n \in 0..Len(Top.body) :
        /\ missing' = n
        /\ file' = [file EXCEPT ![l].body = SubSeq(Top.body, 1, Len(Top.body) - n)]
  BY DEF Finish
<1>2. /\ ~written /\ file # <<>> /\ written'
      /\ UNCHANGED <<packets, place, pos, seg, idx, cur, out>>
  BY DEF Finish, parser
<1>3. OggTypes /\ WriterInv
  BY DEF OggInv
<1>4. file \in Seq(Items) /\ l \in Nat /\ l >= 1 /\ l \in 1..l /\ 1 \in 1..l /\ Top \in Items
  <2>1. file \in Seq(Items)
    BY <1>3 DEF OggTypes
  <2> QED
    BY <1>2, <2>1, SeqItems DEF Top
<1>5. Marked(Top) /\ Filled(Top, 0) /\ Ended(Top, packets) /\ Last(Top) = place
  <2>1. Cut(l) = 0
    BY <1>2, <1>3 DEF WriterInv, Cut
  <2>2. Marked(file[l]) /\ Filled(file[l], Cut(l)) /\ Ended(file[l], packets)
    BY <1>3, <1>4 DEF WriterInv
  <2>3. Last(file[l]) = place
    BY <1>2, <1>3 DEF WriterInv, Chained
  <2> QED
    BY <2>1, <2>2, <2>3 DEF Top
<1> DEFINE new == Shortened(Top, n)
<1>6. file' = [file EXCEPT ![l] = new]
  BY <1>1, <1>4 DEF Shortened, Top
<1>7. /\ new \in Items /\ Marked(new) /\ Filled(new, n)
      /\ new.table = Top.table /\ new.marks = Top.marks /\ Last(new) = Last(Top)
  BY <1>4, <1>5, ShortenedMarked
<1>8. n \in Nat
  BY <1>4, ItemParts
<1> HIDE DEF new, l
<1>9. /\ file' \in Seq(Items) /\ Len(file') = l /\ file' # <<>>
      /\ \A i \in 1..l : i # l => file'[i] = file[i]
      /\ file'[l] = new
  BY <1>2, <1>4, <1>6, <1>7, TopReplaced DEF l
<1>10. OggTypes'
  BY <1>1, <1>2, <1>3, <1>8, <1>9 DEF OggTypes
<1>11. ASSUME NEW i \in 1..Len(file')
       PROVE  Marked(file'[i]) /\ Filled(file'[i], Cut(i)') /\ Ended(file'[i], packets')
  <2>1. ASSUME i # l
        PROVE  Marked(file'[i]) /\ Filled(file'[i], Cut(i)') /\ Ended(file'[i], packets')
    <3>1. Cut(i) = 0 /\ Cut(i)' = 0
      BY <1>9, <2>1 DEF Cut, l
    <3>2. Marked(file[i]) /\ Filled(file[i], Cut(i)) /\ Ended(file[i], packets)
      BY <1>3, <1>9 DEF WriterInv, l
    <3> QED
      BY <1>2, <1>9, <2>1, <3>1, <3>2
  <2>2. ASSUME i = l
        PROVE  Marked(file'[i]) /\ Filled(file'[i], Cut(i)') /\ Ended(file'[i], packets')
    <3>1. Cut(i)' = n
      BY <1>1, <1>9, <2>2 DEF Cut
    <3>2. Ended(new, packets)
      BY <1>5, <1>7 DEF Ended
    <3> QED
      BY <1>2, <1>7, <1>9, <2>2, <3>1, <3>2
  <2> QED
    BY <2>1, <2>2
<1>12. Chained'
  <2>1. /\ file[1].marks[1] = First
        /\ \A i \in 1..Len(file) - 1 : file[i + 1].marks[1] = Last(file[i])
    BY <1>2, <1>3 DEF WriterInv, Chained
  <2>2. file'[l].marks[1] = file[l].marks[1]
    BY <1>7, <1>9 DEF Top, l
  <2>3. /\ file'[1].marks[1] = First
        /\ \A i \in 1..Len(file) - 1 : file'[i + 1].marks[1] = Last(file'[i])
    BY <1>2, <1>4, <1>9, <2>1, <2>2, TopChain DEF l
  <2> QED
    BY <1>2, <1>5, <1>7, <1>9, <2>3 DEF Chained, l
<1>13. WriterInv'
  BY <1>2, <1>3, <1>9, <1>11, <1>12 DEF WriterInv
<1>14. ParserInv'
  <2>1. pos = 1 /\ seg = 1 /\ idx = 1 /\ cur = <<>> /\ out = <<>>
    BY <1>2, <1>3 DEF WriterInv
  <2>2. file'[1].marks[1] = First /\ file'[1] \in Items
    BY <1>4, <1>9, <1>12, SeqItems DEF Chained
  <2>3. pos' \in 1..Len(file') + 1 /\ pos' <= Len(file')
    BY <1>2, <1>4, <1>9, <2>1
  <2>4. Here' = First
    BY <1>2, <2>1, <2>2, <2>3 DEF Here
  <2>5. seg' \in 1..Len(file'[pos'].table) + 1
    <3>1. Len(file'[1].table) \in Nat
      BY <2>2, ItemParts
    <3> QED
      BY <1>2, <2>1, <3>1
  <2>6. idx' = 1 + Here'.total - file'[pos'].marks[1].total
    BY <1>2, <2>1, <2>2, <2>4 DEF First
  <2>7. Aligned'
    BY <1>2, <2>1, <2>4 DEF Aligned, First, Bytes, AudioBefore
  <2>8. WholeYielded'
    BY <2>4 DEF WholeYielded, First
  <2> QED
    BY <2>3, <2>5, <2>6, <2>7, <2>8 DEF ParserInv
<1> QED
  BY <1>10, <1>13, <1>14 DEF OggInv

-----------------------------------------------------------------------------
(* The parser *)

LEMMA SliceType ==
  ASSUME NEW body \in Seq(Nat), NEW i \in Nat \ {0}, NEW n \in Nat
  PROVE  Slice(body, i, n) \in Seq(Nat)
<1> DEFINE hi == IF i + n - 1 < Len(body) THEN i + n - 1 ELSE Len(body)
<1>1. Len(body) \in Nat /\ \A b \in 1..Len(body) : body[b] \in Nat
  BY SeqItems
<1>2. i \in Int /\ hi \in Int /\ \A b \in i..hi : body[b] \in Nat
  BY <1>1
<1>3. Slice(body, i, n) = SubSeq(body, i, hi)
  BY DEF Slice
<1> HIDE DEF hi
<1> QED
  BY <1>2, <1>3, SubSeqProperties

\* A segment that lies before the cut is read whole.
LEMMA SliceWhole ==
  ASSUME NEW body \in Seq(Nat), NEW i \in Nat \ {0}, NEW n \in Nat, NEW p \in Nat,
         i + n - 1 <= Len(body), \A b \in i..i + n - 1 : body[b] = p
  PROVE  Slice(body, i, n) = Bytes(p, n)
<1> DEFINE hi == i + n - 1
           r == SubSeq(body, i, hi)
<1>1. Len(body) \in Nat
  BY SeqItems
<1>2. Slice(body, i, n) = r
  BY <1>1 DEF Slice
<1>3. i \in Int /\ hi \in Int /\ \A b \in i..hi : body[b] \in Nat
  BY <1>1
<1>4. /\ r \in Seq(Nat) /\ Len(r) = IF i <= hi THEN hi - i + 1 ELSE 0
      /\ \A b \in 1..hi - i + 1 : r[b] = body[i + b - 1]
  <2> HIDE DEF hi
  <2> QED
    BY <1>3, SubSeqProperties
<1>5. hi - i + 1 = n /\ Len(r) = n
  BY <1>1, <1>4
<1>6. ASSUME NEW b \in 1..n
      PROVE  r[b] = p
  <2>1. i + b - 1 \in i..i + n - 1
    BY <1>1
  <2>2. r[b] = body[i + b - 1]
    BY <1>4, <1>5
  <2> QED
    BY <2>1, <2>2
<1>7. /\ Bytes(p, n) \in Seq(Nat) /\ Len(Bytes(p, n)) = n
      /\ \A b \in 1..n : Bytes(p, n)[b] = p
  BY BytesType
<1> HIDE DEF r
<1>8. r = Bytes(p, n)
  BY <1>4, <1>5, <1>6, <1>7, SeqEqual
<1> QED
  BY <1>2, <1>8

LEMMA AudioType ==
  ASSUME packets \in Seq(Packets), NEW p \in Nat, p - 1 <= Len(packets)
  PROVE  /\ AudioBefore(p) \in Seq(Seq(Nat))
         /\ Len(AudioBefore(p)) = IF p <= 3 THEN 0 ELSE p - 3
         /\ \A a \in 1..p - 3 : AudioBefore(p)[a] = Bytes(a + 2, packets[a + 2].length)
<1>1. Len(packets) \in Nat /\ \A i \in 1..Len(packets) : packets[i] \in Packets
  BY SeqItems
<1>2. ASSUME NEW a \in 1..p - 3
      PROVE  Bytes(a + 2, packets[a + 2].length) \in Seq(Nat)
  <2>1. a + 2 \in 1..Len(packets) /\ a + 2 \in Nat
    BY <1>1
  <2>2. packets[a + 2].length \in Nat
    BY <1>1, <2>1 DEF Packets
  <2> QED
    BY <2>1, <2>2, BytesType
<1> DEFINE n == IF p <= 3 THEN 0 ELSE p - 3
           f == [a \in 1..n |-> Bytes(a + 2, packets[a + 2].length)]
<1>3. n \in Nat /\ 1..p - 3 = 1..n
  OBVIOUS
<1>4. AudioBefore(p) = f
  BY <1>3 DEF AudioBefore
<1>5. f \in [1..n -> Seq(Nat)]
  BY <1>2, <1>3
<1>6. \A a \in 1..p - 3 : f[a] = Bytes(a + 2, packets[a + 2].length)
  BY <1>3
<1> HIDE DEF n, f
<1>7. f \in Seq(Seq(Nat)) /\ Len(f) = n
  BY <1>3, <1>5, SeqMake
<1> QED
  BY <1>4, <1>6, <1>7 DEF n

\* Behind a packet that is complete there is one packet more, or one header.
LEMMA AudioGrows ==
  ASSUME packets \in Seq(Packets), NEW p \in 1..Len(packets)
  PROVE  /\ p <= 2 => AudioBefore(p + 1) = AudioBefore(p)
         /\ p > 2 => AudioBefore(p + 1) = Append(AudioBefore(p), Bytes(p, packets[p].length))
<1>1. Len(packets) \in Nat /\ packets[p] \in Packets
  BY SeqItems
<1>2. p \in Nat /\ p + 1 \in Nat /\ p - 1 <= Len(packets) /\ p + 1 - 1 <= Len(packets)
  BY <1>1
<1>3. ASSUME p <= 2
      PROVE  AudioBefore(p + 1) = AudioBefore(p)
  <2>1. 1..p - 3 = {} /\ 1..p + 1 - 3 = {}
    BY <1>2, <1>3
  <2> QED
    BY <2>1 DEF AudioBefore
<1>4. ASSUME p > 2
      PROVE  AudioBefore(p + 1) = Append(AudioBefore(p), Bytes(p, packets[p].length))
  <2> DEFINE a == AudioBefore(p)
             b == AudioBefore(p + 1)
             x == Bytes(p, packets[p].length)
             c == Append(a, x)
  <2>1. /\ a \in Seq(Seq(Nat)) /\ Len(a) = p - 3
        /\ \A i \in 1..p - 3 : a[i] = Bytes(i + 2, packets[i + 2].length)
    BY <1>2, <1>4, AudioType
  <2>2. /\ b \in Seq(Seq(Nat)) /\ Len(b) = p - 2
        /\ \A i \in 1..p + 1 - 3 : b[i] = Bytes(i + 2, packets[i + 2].length)
    BY <1>2, <1>4, AudioType
  <2>3. x \in Seq(Nat)
    BY <1>1, <1>2, BytesType DEF Packets
  <2> HIDE DEF a, b, x, c
  <2>4. /\ c \in Seq(Seq(Nat)) /\ Len(c) = Len(a) + 1
        /\ \A i \in 1..Len(a) : c[i] = a[i]
        /\ c[Len(a) + 1] = x
    BY <2>1, <2>3, SeqAppend DEF c
  <2>5. ASSUME NEW i \in 1..Len(b)
        PROVE  b[i] = c[i]
    <3>1. i \in 1..p + 1 - 3 /\ (i \in 1..p - 3 \/ i = p - 2)
      BY <1>2, <1>4, <2>2
    <3>2. ASSUME i \in 1..p - 3
          PROVE  b[i] = c[i]
      BY <2>1, <2>2, <2>4, <3>1, <3>2
    <3>3. ASSUME i = p - 2
          PROVE  b[i] = c[i]
      <4>1. i + 2 = p /\ Len(a) + 1 = i
        BY <1>2, <2>1, <3>3
      <4> QED
        BY <2>2, <2>4, <3>1, <4>1 DEF x
    <3> QED
      BY <3>1, <3>2, <3>3
  <2>6. Len(b) = Len(c)
    BY <1>2, <2>1, <2>2, <2>4
  <2>7. b = c
    BY <2>2, <2>4, <2>5, <2>6, SeqEqual
  <2> QED
    BY <2>7 DEF a, b, c, x
<1> QED
  BY <1>3, <1>4

LEMMA HeaderBytes ==
  ASSUME NEW p \in Nat \ {0}, NEW n \in Nat
  PROVE  IsHeader(Bytes(p, n)) <=> p <= 2 /\ n > 0
<1>1. /\ Bytes(p, n) \in Seq(Nat) /\ Len(Bytes(p, n)) = n
      /\ \A i \in 1..n : Bytes(p, n)[i] = p
  BY BytesType
<1>2. Bytes(p, n) # <<>> <=> n > 0
  BY <1>1, SeqItems
<1>3. ASSUME n > 0
      PROVE  Head(Bytes(p, n)) = p
  <2>1. 1 \in 1..n
    BY <1>3
  <2>2. Bytes(p, n)[1] = p
    BY <1>1, <2>1
  <2> QED
    BY <2>2
<1> QED
  BY <1>2, <1>3 DEF IsHeader

Limit == place.total - missing

\* What the parser meets at a segment: its mark, the mark behind it, and the body.
LEMMA AtSegment ==
  ASSUME OggTypes, WriterInv, ParserInv, pos <= Len(file), seg <= Len(file[pos].table)
  PROVE  LET m == file[pos].marks[seg]
             n == file[pos].table[seg]
         IN /\ pos \in 1..Len(file) /\ seg \in 1..Len(file[pos].table)
            /\ file[pos] \in Items /\ file[pos].body \in Seq(Nat)
            /\ m \in Places /\ n \in Nat /\ Here = m
            /\ file[pos].marks[seg + 1] = Behind(m, n)
            /\ n < Full => /\ m.packet \in 1..Len(packets)
                           /\ packets[m.packet] = [length |-> m.done + n, end |-> m.total + n]
            /\ m.total + n <= Limit => Slice(file[pos].body, idx, n) = Bytes(m.packet, n)
<1> DEFINE item == file[pos]
           m == item.marks[seg]
           n == item.table[seg]
           f == item.marks[1].total
           l == Len(item.body)
<1>1. file \in Seq(Items) /\ Len(file) \in Nat
  BY SeqItems DEF OggTypes
<1>2. pos \in 1..Len(file) /\ item \in Items
  BY <1>1, SeqItems DEF OggTypes
<1>3. Marked(item) /\ Filled(item, Cut(pos)) /\ Ended(item, packets)
  BY <1>2 DEF WriterInv
<1>4. /\ Len(item.table) \in Nat /\ item.body \in Seq(Nat) /\ l \in Nat
      /\ \A k \in 1..Len(item.table) : item.table[k] \in Nat
      /\ \A k \in 1..Len(item.table) + 1 : item.marks[k] \in Places
      /\ Last(item) \in Places
  BY <1>2, <1>3, ItemParts, MarkedPlaces
<1>5. /\ seg \in 1..Len(item.table) /\ seg \in 1..Len(item.table) + 1
      /\ seg + 1 \in 1..Len(item.table) + 1 /\ 1 \in 1..Len(item.table) + 1
  BY <1>4 DEF OggTypes
<1>6. n \in Nat /\ m \in Places /\ item.marks[1] \in Places /\ Here = m
  BY <1>4, <1>5 DEF Here
<1>7. item.marks[seg + 1] = Behind(m, n) /\ item.marks[seg + 1].total = m.total + n
  BY <1>3, <1>5, <1>6, BehindType DEF Marked
<1>8. n < Full => /\ m.packet \in 1..Len(packets)
                  /\ packets[m.packet] = [length |-> m.done + n, end |-> m.total + n]
  BY <1>3, <1>5 DEF Ended
<1>9. ASSUME m.total + n <= Limit
      PROVE  Slice(item.body, idx, n) = Bytes(m.packet, n)
  <2>1. idx = 1 + m.total - f /\ idx \in Nat \ {0}
    BY <1>6 DEF ParserInv, OggTypes
  <2>2. /\ m.total \in Nat /\ f \in Nat /\ Last(item).total \in Nat /\ m.packet \in Nat
        /\ place.total \in Nat /\ missing \in Nat
    BY <1>4, <1>6 DEF Places, OggTypes
  <2>3. l = Last(item).total - f - Cut(pos)
    BY <1>3 DEF Filled
  <2>4. m.total + n <= Last(item).total - Cut(pos)
    <3>1. ASSUME pos = Len(file)
          PROVE  m.total + n <= Last(item).total - Cut(pos)
      <4>1. Last(item) = place
        BY <1>1, <1>2, <3>1, SeqItems DEF WriterInv, Chained
      <4> QED
        BY <1>9, <3>1, <4>1 DEF Limit, Cut
    <3>2. ASSUME pos # Len(file)
          PROVE  m.total + n <= Last(item).total - Cut(pos)
      <4>1. item.marks[seg + 1].total <= Last(item).total
        BY <1>3, <1>5 DEF Marked
      <4> QED
        BY <1>7, <2>2, <3>2, <4>1 DEF Cut
    <3> QED
      BY <3>1, <3>2
  <2>5. Cut(pos) \in Nat
    BY <2>2 DEF Cut
  <2> DEFINE a == m.total
             z == Last(item).total
             c == Cut(pos)
  <2>6. /\ n \in Nat /\ a \in Nat /\ f \in Nat /\ z \in Nat /\ c \in Nat /\ l \in Nat
        /\ idx = 1 + a - f /\ idx \in Nat \ {0} /\ l = z - f - c /\ a + n <= z - c
    BY <1>4, <1>6, <2>1, <2>2, <2>3, <2>4, <2>5
  <2>7. ASSUME NEW b \in 1..l, a < b + f, b + f <= a + n
        PROVE  item.body[b] = m.packet
    BY <1>3, <1>5, <1>7, <2>7 DEF Filled
  <2>8. item.body \in Seq(Nat) /\ m.packet \in Nat /\ l = Len(item.body)
    BY <1>4, <2>2
  <2> HIDE DEF item, m, n, l, f, a, z, c
  <2>9. idx + n - 1 <= l
    BY <2>6
  <2>10. ASSUME NEW b \in idx..idx + n - 1
         PROVE  item.body[b] = m.packet
    <3>1. b \in 1..l /\ a < b + f /\ b + f <= a + n
      BY <2>6, <2>9
    <3> QED
      BY <2>7, <3>1
  <2> DEFINE body == item.body
             p == m.packet
  <2>11. /\ body \in Seq(Nat) /\ p \in Nat /\ n \in Nat /\ idx \in Nat \ {0}
         /\ idx + n - 1 <= Len(body) /\ \A b \in idx..idx + n - 1 : body[b] = p
    BY <2>6, <2>8, <2>9, <2>10
  <2> HIDE DEF body, p
  <2>12. Slice(body, idx, n) = Bytes(p, n)
    BY <2>11, SliceWhole
  <2> QED
    BY <2>12 DEF body, p
<1> QED
  BY <1>2, <1>4, <1>5, <1>6, <1>7, <1>8, <1>9

LEMMA ReadStep ==
  ASSUME OggInv, ReadSegment
  PROVE  OggInv'
<1> DEFINE m == file[pos].marks[seg]
           n == file[pos].table[seg]
           slice == Slice(file[pos].body, idx, n)
           read == cur \o slice
<1>1. /\ written /\ pos <= Len(file) /\ seg <= Len(file[pos].table)
      /\ idx' = idx + n
      /\ cur' = IF n < Full THEN <<>> ELSE read
      /\ out' = IF n < Full /\ ~IsHeader(read) THEN Append(out, read) ELSE out
      /\ seg' = seg + 1
      /\ UNCHANGED <<packets, place, file, missing, written, pos>>
  BY DEF ReadSegment, Completes, writer
<1>2. OggTypes /\ WriterInv /\ ParserInv
  BY <1>1 DEF OggInv
<1>3. /\ pos \in 1..Len(file) /\ seg \in 1..Len(file[pos].table)
      /\ file[pos] \in Items /\ file[pos].body \in Seq(Nat)
      /\ m \in Places /\ n \in Nat /\ Here = m
      /\ file[pos].marks[seg + 1] = Behind(m, n)
      /\ n < Full => /\ m.packet \in 1..Len(packets)
                     /\ packets[m.packet] = [length |-> m.done + n, end |-> m.total + n]
      /\ m.total + n <= Limit => slice = Bytes(m.packet, n)
  BY <1>1, <1>2, AtSegment
<1>4. slice \in Seq(Nat)
  BY <1>2, <1>3, SliceType DEF OggTypes
<1>5. Aligned /\ WholeYielded
  BY <1>2 DEF ParserInv
<1> DEFINE m2 == Behind(m, n)
           f == file[pos].marks[1].total
           t == Len(file[pos].table)
<1>6. m2.total = m.total + n /\ f \in Nat /\ m.total \in Nat /\ t \in Nat
  <2>1. file[pos].marks[1] \in Places /\ t \in Nat
    BY <1>2, <1>3, ItemParts, MarkedPlaces DEF WriterInv
  <2>2. m2.total = m.total + n
    BY <1>3, BehindType
  <2> HIDE DEF m, m2
  <2> QED
    BY <1>3, <2>1, <2>2 DEF Places
<1>7. idx = 1 + m.total - f /\ seg \in Nat /\ idx \in Nat \ {0}
  BY <1>1, <1>2, <1>3 DEF ParserInv, OggTypes
<1>8. Here' = m2
  BY <1>1, <1>3 DEF Here
<1> HIDE DEF m, n, slice, read
<1>9. /\ cur' \in Seq(Nat) /\ out' \in Seq(Seq(Nat))
      /\ m2.total <= Limit => cur' = Bytes(m2.packet, m2.done) /\ out' = AudioBefore(m2.packet)
      /\ \A p \in 1..m2.packet - 3 : packets[p + 2].end <= Limit =>
           p <= Len(out') /\ out'[p] = Bytes(p + 2, packets[p + 2].length)
  <2> DEFINE cur2 == IF n < Full THEN <<>> ELSE read
             out2 == IF n < Full /\ ~IsHeader(read) THEN Append(out, read) ELSE out
  <2> USE <1>2, <1>3, <1>4, <1>5
  <2>1. /\ packets \in Seq(Packets) /\ Len(packets) \in Nat /\ cur \in Seq(Nat)
        /\ out \in Seq(Seq(Nat)) /\ Len(out) \in Nat
    BY SeqItems DEF OggTypes
  <2>2. /\ m.packet \in Nat \ {0} /\ m.done \in Nat /\ m.total \in Nat
        /\ m2.total = m.total + n /\ m2.packet \in Nat /\ Limit \in Int
    <3>1. m2 \in Places /\ m2.total = m.total + n
      BY BehindType
    <3>2. place.total \in Nat /\ missing \in Nat
      BY DEF OggTypes, Places
    <3>3. Limit \in Int
      BY <3>2 DEF Limit
    <3> HIDE DEF m2
    <3> QED
      BY <3>1, <3>3 DEF Places
  <2>3. read \in Seq(Nat) /\ <<>> \in Seq(Nat)
    BY <2>1, SeqJoin DEF read
  <2>4. cur2 \in Seq(Nat)
    BY <2>3
  <2>5. out2 \in Seq(Seq(Nat)) /\ Len(out) <= Len(out2) /\ \A p \in 1..Len(out) : out2[p] = out[p]
    <3>1. ASSUME out2 = Append(out, read)
          PROVE  /\ out2 \in Seq(Seq(Nat)) /\ Len(out2) = Len(out) + 1
                 /\ \A p \in 1..Len(out) : out2[p] = out[p]
      BY <2>1, <2>3, <3>1, SeqAppend
    <3>2. out2 = Append(out, read) \/ out2 = out
      OBVIOUS
    <3> QED
      BY <2>1, <3>1, <3>2
  <2>6. ASSUME m2.total <= Limit
        PROVE  cur2 = Bytes(m2.packet, m2.done) /\ out2 = AudioBefore(m2.packet)
    <3>1. m.total <= Limit /\ m.total + n <= Limit
      BY <2>2, <2>6
    <3>2. cur = Bytes(m.packet, m.done) /\ out = AudioBefore(m.packet)
      BY <3>1 DEF Aligned, Limit
    <3>3. read = Bytes(m.packet, m.done + n)
      <4>1. read = Bytes(m.packet, m.done) \o Bytes(m.packet, n) /\ m.packet \in Nat
        BY <2>2, <3>1, <3>2 DEF read
      <4> QED
        BY <2>2, <4>1, BytesJoin
    <3>4. ASSUME ~(n < Full)
          PROVE  cur2 = Bytes(m2.packet, m2.done) /\ out2 = AudioBefore(m2.packet)
      BY <3>2, <3>3, <3>4 DEF Behind
    <3>5. ASSUME n < Full
          PROVE  cur2 = Bytes(m2.packet, m2.done) /\ out2 = AudioBefore(m2.packet)
      <4>1. m2.packet = m.packet + 1 /\ m2.done = 0
        BY <3>5 DEF Behind
      <4>2. cur2 = Bytes(m2.packet, m2.done)
        BY <3>5, <4>1 DEF Bytes
      <4>3. packets[m.packet].length = m.done + n /\ m.packet \in 1..Len(packets)
        BY <3>5
      <4>4. IsHeader(read) <=> m.packet <= 2 /\ m.done + n > 0
        <5>1. m.packet \in Nat \ {0} /\ m.done + n \in Nat
          <6>1. m.packet \in Nat \ {0} /\ m.done \in Nat /\ n \in Nat
            BY <1>3, <2>2
          <6> QED
            BY ONLY <6>1
        <5>2. IsHeader(Bytes(m.packet, m.done + n)) <=> m.packet <= 2 /\ m.done + n > 0
          BY ONLY <5>1, HeaderBytes
        <5> QED
          BY ONLY <3>3, <5>2
      <4>5. m.packet <= 2 => m.done + n > 0
        BY <4>3 DEF WriterInv
      <4>6. IF m.packet <= 2 THEN out2 = out ELSE out2 = Append(out, read)
        BY <3>5, <4>4, <4>5
      <4>7. /\ m.packet <= 2 => AudioBefore(m.packet + 1) = AudioBefore(m.packet)
            /\ m.packet > 2 => AudioBefore(m.packet + 1)
                                 = Append(AudioBefore(m.packet), Bytes(m.packet, m.done + n))
        BY <2>1, <4>3, AudioGrows
      <4>8. m.packet <= 2 \/ m.packet > 2
        BY <2>2
      <4> QED
        BY <3>2, <3>3, <4>1, <4>2, <4>6, <4>7, <4>8
    <3> QED
      BY <3>4, <3>5
  <2>7. ASSUME NEW p \in 1..m2.packet - 3, packets[p + 2].end <= Limit
        PROVE  p <= Len(out2) /\ out2[p] = Bytes(p + 2, packets[p + 2].length)
    <3>1. ASSUME p \in 1..m.packet - 3
          PROVE  p <= Len(out2) /\ out2[p] = Bytes(p + 2, packets[p + 2].length)
      <4>1. p <= Len(out) /\ out[p] = Bytes(p + 2, packets[p + 2].length)
        BY <2>7, <3>1 DEF WholeYielded, Limit
      <4>2. p \in 1..Len(out) /\ Len(out2) \in Nat
        BY <2>1, <2>5, <4>1, SeqItems
      <4> QED
        BY <2>1, <2>5, <4>1, <4>2
    <3>2. ASSUME p \notin 1..m.packet - 3
          PROVE  p <= Len(out2) /\ out2[p] = Bytes(p + 2, packets[p + 2].length)
      <4>1. n < Full /\ m2.packet = m.packet + 1 /\ p + 2 = m.packet
        <5>1. (n < Full /\ m2.packet = m.packet + 1) \/ m2.packet = m.packet
          BY DEF Behind
        <5> HIDE DEF m2
        <5>2. m2.packet = m.packet => FALSE
          BY <3>2
        <5>3. m2.packet = m.packet + 1
          BY <5>1, <5>2
        <5> QED
          BY <2>2, <3>2, <5>1, <5>3
      <4>2. m2.total <= Limit
        <5>1. packets[m.packet].end <= Limit
          BY <2>7, <4>1
        <5>2. packets[m.packet].end = m.total + n
          BY <1>3, <4>1
        <5>3. m2.total = m.total + n
          BY <2>2
        <5> QED
          BY ONLY <5>1, <5>2, <5>3
      <4>3. out2 = AudioBefore(m2.packet)
        BY <2>6, <4>2
      <4>4. m2.packet - 1 <= Len(packets)
        BY <2>1, <2>2, <4>1
      <4>5. /\ Len(AudioBefore(m2.packet)) = IF m2.packet <= 3 THEN 0 ELSE m2.packet - 3
            /\ \A a \in 1..m2.packet - 3 :
                 AudioBefore(m2.packet)[a] = Bytes(a + 2, packets[a + 2].length)
        BY <2>1, <2>2, <4>4, AudioType
      <4>6. p <= m2.packet - 3 /\ ~(m2.packet <= 3)
        BY <2>2, <2>7
      <4> QED
        BY <2>7, <4>3, <4>5, <4>6
    <3> QED
      BY <3>1, <3>2
  <2> QED
    BY <1>1, <2>4, <2>5, <2>6, <2>7
<1> HIDE DEF m2, f, t
<1>10. OggTypes'
  <2>1. idx' \in Nat \ {0} /\ seg' \in Nat \ {0}
    <3>1. idx' = idx + n /\ seg' = seg + 1
      BY <1>1
    <3>2. n \in Nat
      BY <1>3
    <3> QED
      BY <1>7, <3>1, <3>2
  <2> QED
    BY <1>1, <1>2, <1>9, <2>1 DEF OggTypes
<1>11. WriterInv'
  <2>1. \A i \in 1..Len(file) : Cut(i)' = Cut(i)
    BY <1>1 DEF Cut
  <2>2. Chained'
    BY <1>1, <1>2 DEF WriterInv, Chained
  <2> QED
    BY <1>1, <1>2, <2>1, <2>2 DEF WriterInv
<1>12. ParserInv'
  <2>1. Aligned'
    BY <1>1, <1>8, <1>9 DEF Aligned, Limit, AudioBefore
  <2>2. WholeYielded'
    BY <1>1, <1>8, <1>9 DEF WholeYielded, Limit
  <2>3. pos' \in 1..Len(file') + 1 /\ pos' <= Len(file')
    BY <1>1, <1>2 DEF ParserInv
  <2>4. seg' \in 1..t + 1
    <3>1. seg \in 1..t
      BY <1>3 DEF t
    <3>2. seg' = seg + 1
      BY <1>1
    <3> QED
      BY <1>6, <3>1, <3>2
  <2>5. idx' = 1 + m2.total - f
    <3>1. idx' = idx + n
      BY <1>1
    <3>2. n \in Nat
      BY <1>3
    <3> QED
      BY <1>6, <1>7, <3>1, <3>2
  <2> QED
    BY <1>1, <1>8, <2>1, <2>2, <2>3, <2>4, <2>5 DEF ParserInv, t, f
<1> QED
  BY <1>10, <1>11, <1>12 DEF OggInv

\* Behind an item the writer was where the next one begins.
LEMMA ItemBehind ==
  ASSUME OggInv, NextPage \/ Resync
  PROVE  OggInv'
<1> DEFINE item == file[pos]
<1>1. /\ written /\ pos <= Len(file) /\ (item.page => seg > Len(item.table))
      /\ pos' = pos + 1 /\ cur' = cur /\ out' = out
      /\ item.page => seg' = 1 /\ idx' = 1
      /\ ~item.page => seg' = seg /\ idx' = idx
      /\ UNCHANGED <<packets, place, file, missing, written>>
  BY DEF NextPage, Resync, Carry, writer
<1>2. OggTypes /\ WriterInv /\ ParserInv
  BY <1>1 DEF OggInv
<1>3. file \in Seq(Items) /\ Len(file) \in Nat /\ pos \in 1..Len(file) /\ item \in Items
  <2>1. file \in Seq(Items) /\ Len(file) \in Nat
    BY <1>2, SeqItems DEF OggTypes
  <2>2. pos \in 1..Len(file)
    BY <1>1, <1>2, <2>1 DEF OggTypes
  <2> QED
    BY <2>1, <2>2, SeqItems
<1>4. /\ Marked(item) /\ Len(item.table) \in Nat /\ seg \in 1..Len(item.table) + 1
      /\ item.page \in BOOLEAN /\ item.marks[1].total \in Nat
  <2>1. Marked(item) /\ seg \in 1..Len(item.table) + 1
    BY <1>1, <1>2, <1>3 DEF WriterInv, ParserInv
  <2> QED
    BY <1>3, <2>1, ItemParts, MarkedPlaces DEF Places
<1>5. Here = Last(item) /\ seg' = 1 /\ idx' = 1
  <2>1. ASSUME item.page
        PROVE  Here = Last(item) /\ seg' = 1 /\ idx' = 1
    <3>1. seg = Len(item.table) + 1
      BY <1>1, <1>4, <2>1
    <3> QED
      BY <1>1, <2>1, <3>1 DEF Here, Last
  <2>2. ASSUME ~item.page
        PROVE  Here = Last(item) /\ seg' = 1 /\ idx' = 1
    <3>1. Len(item.table) = 0
      BY <1>4, <2>2 DEF Marked
    <3>2. seg = 1
      BY <1>4, <3>1
    <3>3. Here = item.marks[1] /\ Last(item) = item.marks[1]
      BY <1>1, <3>1, <3>2 DEF Here, Last
    <3>4. idx = 1 + Here.total - item.marks[1].total
      BY <1>1, <1>2 DEF ParserInv
    <3>5. idx = 1
      BY <1>4, <3>3, <3>4
    <3> QED
      BY <1>1, <2>2, <3>2, <3>3, <3>5
  <2> QED
    BY <1>4, <2>1, <2>2
<1> HIDE DEF item
<1>6. pos' \in 1..Len(file') + 1 /\ pos' \in Nat \ {0}
  BY <1>1, <1>3
<1>7. Here' = Here /\ (pos' <= Len(file') => Here' = file'[pos'].marks[1])
  <2>1. ASSUME pos' <= Len(file')
        PROVE  Here' = file'[pos'].marks[1] /\ Here' = Here
    <3>1. pos \in 1..Len(file) - 1
      BY <1>1, <1>3, <2>1
    <3>2. file[pos + 1].marks[1] = Last(item)
      BY <1>2, <3>1 DEF WriterInv, Chained, item
    <3>3. Here' = file'[pos'].marks[1]
      BY <1>5, <2>1 DEF Here
    <3> QED
      BY <1>1, <1>5, <3>2, <3>3
  <2>2. ASSUME ~(pos' <= Len(file'))
        PROVE  Here' = Here
    <3>1. pos = Len(file) /\ file # <<>>
      BY <1>1, <1>2, <1>3, <2>2 DEF WriterInv
    <3>2. Last(item) = place
      BY <1>2, <3>1 DEF WriterInv, Chained, item
    <3> QED
      BY <1>1, <1>5, <2>2, <3>2 DEF Here
  <2> QED
    BY <2>1, <2>2
<1>8. OggTypes'
  BY <1>1, <1>2, <1>5, <1>6 DEF OggTypes
<1>9. WriterInv'
  <2>1. \A i \in 1..Len(file) : Cut(i)' = Cut(i)
    BY <1>1 DEF Cut
  <2>2. Chained'
    BY <1>1, <1>2 DEF WriterInv, Chained
  <2> QED
    BY <1>1, <1>2, <2>1, <2>2 DEF WriterInv
<1>10. Aligned' /\ WholeYielded'
  BY <1>1, <1>2, <1>7 DEF ParserInv, Aligned, WholeYielded, AudioBefore
<1>11. ASSUME pos' <= Len(file')
       PROVE  /\ seg' \in 1..Len(file'[pos'].table) + 1
              /\ idx' = 1 + Here'.total - file'[pos'].marks[1].total
  <2>1. file'[pos'] \in Items /\ Marked(file'[pos'])
    <3>1. pos' \in 1..Len(file')
      BY <1>6, <1>11
    <3> QED
      BY <1>8, <1>9, <3>1, SeqItems DEF OggTypes, WriterInv
  <2>2. Len(file'[pos'].table) \in Nat /\ file'[pos'].marks[1].total \in Nat
    BY <2>1, ItemParts, MarkedPlaces DEF Places
  <2> QED
    BY <1>5, <1>7, <1>11, <2>2
<1>12. ParserInv'
  BY <1>6, <1>10, <1>11 DEF ParserInv
<1> QED
  BY <1>8, <1>9, <1>12 DEF OggInv

LEMMA OggStep == OggInv /\ [Next]_vars => OggInv'
<1> SUFFICES ASSUME OggInv, [Next]_vars PROVE OggInv'
  OBVIOUS
<1>1. CASE NewPage \/ Gap
  BY <1>1, ItemStep
<1>2. CASE WriteSegment
  BY <1>2, WriteStep
<1>3. CASE Finish
  BY <1>3, FinishStep
<1>4. CASE ReadSegment
  BY <1>4, ReadStep
<1>5. CASE NextPage \/ Resync
  BY <1>5, ItemBehind
<1>6. CASE UNCHANGED vars
  BY <1>6 DEF vars, writer, parser, OggInv, OggTypes, WriterInv, Chained, Cut, ParserInv,
       Here, Aligned, WholeYielded, AudioBefore
<1> QED
  BY <1>1, <1>2, <1>3, <1>4, <1>5, <1>6 DEF Next

\* The invariant: what the file is, and what the parser has where it is.
THEOREM OggInvariant == Spec => []OggInv
<1> QED
  BY OggInit, OggStep, PTL DEF Spec

\* iter_ogg_opus_packets yields exactly the audio packets that are complete in a file
\* whose pages are not damaged, in order: for every lacing value, any packets and any
\* division into pages, with foreign bytes between them.
THEOREM AllYielded == Spec => []YieldsAll
<1>1. OggInv => YieldsAll
  <2> SUFFICES ASSUME OggInv, Read, missing = 0 PROVE out = Audio
    BY DEF YieldsAll
  <2>1. OggTypes /\ WriterInv /\ ParserInv
    BY DEF OggInv, Read
  <2>2. file \in Seq(Items) /\ Len(file) \in Nat
    BY <2>1, SeqItems DEF OggTypes
  <2>3. Here = place
    BY <2>1, <2>2 DEF Read, Here, OggTypes
  <2>4. place.total \in Nat /\ place.packet \in Nat /\ Len(packets) = place.packet - 1
    BY <2>1 DEF OggTypes, Places, WriterInv
  <2>5. out = AudioBefore(place.packet)
    BY <2>1, <2>3, <2>4 DEF ParserInv, Aligned
  <2>6. place.packet - 3 = Len(packets) - 2
    BY <2>4
  <2> QED
    BY <2>5, <2>6 DEF AudioBefore, Audio, Bytes
<1> QED
  BY <1>1, OggInvariant, PTL

\* Of a file whose end is missing, iter_ogg_opus_packets yields every packet that
\* precedes the end, unchanged and at its place.
THEOREM WholeBeforeCut == Spec => []YieldsBeforeCut
<1>1. OggInv => YieldsBeforeCut
  <2> SUFFICES ASSUME OggInv, Read, NEW p \in DOMAIN Audio,
                      packets[p + 2].end <= place.total - missing
               PROVE  p <= Len(out) /\ out[p] = Audio[p]
    BY DEF YieldsBeforeCut
  <2>1. OggTypes /\ WriterInv /\ ParserInv
    BY DEF OggInv, Read
  <2>2. file \in Seq(Items) /\ Len(file) \in Nat
    BY <2>1, SeqItems DEF OggTypes
  <2>3. Here = place
    BY <2>1, <2>2 DEF Read, Here, OggTypes
  <2>4. place.packet \in Nat /\ Len(packets) = place.packet - 1
    BY <2>1 DEF OggTypes, Places, WriterInv
  <2>5. p \in 1..Len(packets) - 2 /\ p \in 1..place.packet - 3
    BY <2>4 DEF Audio
  <2>6. p <= Len(out) /\ out[p] = Bytes(p + 2, packets[p + 2].length)
    BY <2>1, <2>3, <2>5 DEF ParserInv, WholeYielded
  <2> QED
    BY <2>5, <2>6 DEF Audio, Bytes
<1> QED
  BY <1>1, OggInvariant, PTL
=============================================================================

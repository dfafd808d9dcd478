------------------------ MODULE SyntheticHid_proofs ------------------------
(***************************************************************************)
(* Proofs about SyntheticHid, for any capacity, events, requests, packet   *)
(* lengths and bounds, and however the system calls split the packets.     *)
(*                                                                         *)
(* TypeInv says what a writer has left: nothing, or the rest of one packet *)
(* from some byte on.  TurnTaking, that a handler has answered the import  *)
(* before its TX thread has anything to send, makes packets whole.         *)
(* Alone, RingInv and InHand follow an event from push to pop for as long  *)
(* as no two threads poll at a time, so that reports come in the order of  *)
(* the events.  MatchedIn and DistinctIn follow every packet from the queue*)
(* or the parked URB to the wire: it answers a command of its session, and *)
(* no two of them the same control transfer or unlink.                     *)
(***************************************************************************)
EXTENDS SyntheticHid, SequenceTheorems, FiniteSetTheorems, TLAPS

(* Slices and bytes *)

\* FlattenSeq of one and of two sequences.
LEMMA FlattenOne ==
  ASSUME NEW a
  PROVE  Socket!FlattenSeq(<<a>>) = a
<1> DEFINE F(g) == [i \in 1..1 |-> IF i = 1 THEN <<a>>[i] ELSE g[i - 1] \o <<a>>[i]]
           f == CHOOSE g : g = F(g)
<1>1. [i \in 1..1 |-> a] = F([i \in 1..1 |-> a])
  OBVIOUS
<1>2. f = F(f)
  <2> HIDE DEF F
  <2> QED  BY <1>1
<1>3. Len(<<a>>) = 1
  OBVIOUS
<1>4. Socket!FlattenSeq(<<a>>) = f[1]
  BY <1>3 DEF Socket!FlattenSeq
<1> HIDE DEF f
<1> QED  BY <1>2, <1>4

LEMMA FlattenTwo ==
  ASSUME NEW a, NEW b
  PROVE  Socket!FlattenSeq(<<a, b>>) = a \o b
<1> DEFINE F(g) == [i \in 1..2 |-> IF i = 1 THEN <<a, b>>[i] ELSE g[i - 1] \o <<a, b>>[i]]
           f == CHOOSE g : g = F(g)
           h == [i \in 1..2 |-> IF i = 1 THEN a ELSE a \o b]
<1>1. h = F(h)
  <2>1. \A i \in 1..2 : i = 1 \/ i = 2
    OBVIOUS
  <2>2. h[1] = a
    OBVIOUS
  <2>3. F(h) = [i \in 1..2 |-> IF i = 1 THEN a ELSE h[i - 1] \o b]
    BY <2>1
  <2>4. \A i \in 1..2 : i # 1 => h[i - 1] = a
    BY <2>1, <2>2
  <2> HIDE DEF F
  <2>5. [i \in 1..2 |-> IF i = 1 THEN a ELSE h[i - 1] \o b] = h
    BY <2>4
  <2> HIDE DEF h
  <2> QED  BY <2>3, <2>5
<1>2. f = F(f)
  <2> HIDE DEF F, h
  <2> QED  BY <1>1
<1>3. Len(<<a, b>>) = 2
  OBVIOUS
<1>4. Socket!FlattenSeq(<<a, b>>) = f[2]
  BY <1>3 DEF Socket!FlattenSeq
<1> HIDE DEF f
<1>5. f[1] = a
  BY <1>2
<1>6. f[2] = f[1] \o b
  <2>1. F(f)[2] = IF 2 = 1 THEN <<a, b>>[2] ELSE f[2 - 1] \o <<a, b>>[2]
    OBVIOUS
  <2>2. <<a, b>>[2] = b /\ 2 - 1 = 1
    OBVIOUS
  <2> HIDE DEF F
  <2> QED  BY <1>2, <2>1, <2>2
<1> QED  BY <1>4, <1>5, <1>6

-----------------------------------------------------------------------------
\* The k bytes of packet p that follow the n-th.
Run(p, n, k) == [i \in 1..k |-> [pkt |-> p, n |-> n + i]]

LEMMA RunType ==
  ASSUME NEW p, NEW n \in Nat, NEW k \in Nat
  PROVE  /\ Run(p, n, k) \in Seq([pkt : {p}, n : Nat])
         /\ Len(Run(p, n, k)) = k
         /\ \A i \in 1..k : Run(p, n, k)[i] = [pkt |-> p, n |-> n + i]
<1> DEFINE S == [pkt : {p}, n : Nat]
<1>1. \A i \in 1..k : [pkt |-> p, n |-> n + i] \in S
  <2>1. \A i \in 1..k : n + i \in Nat
    OBVIOUS
  <2> QED  BY <2>1
<1>2. Run(p, n, k) \in [1..k -> S]
  BY <1>1 DEF Run
<1> HIDE DEF S
<1> QED  BY <1>2 DEF Run

LEMMA RunConcat ==
  ASSUME NEW p, NEW n \in Nat, NEW k \in Nat, NEW m \in Nat
  PROVE  Run(p, n, k) \o Run(p, n + k, m) = Run(p, n, k + m)
<1> DEFINE S == [pkt : {p}, n : Nat]
           x == Run(p, n, k)
           y == Run(p, n + k, m)
           z == Run(p, n, k + m)
<1>1. /\ x \in Seq(S) /\ Len(x) = k /\ y \in Seq(S) /\ Len(y) = m
      /\ z \in Seq(S) /\ Len(z) = k + m
  BY RunType, n + k \in Nat, k + m \in Nat
<1>2. \A i \in 1..(k + m) : (x \o y)[i] = z[i]
  <2> SUFFICES ASSUME NEW i \in 1..(k + m) PROVE (x \o y)[i] = z[i]
    OBVIOUS
  <2>1. (x \o y)[i] = IF i <= k THEN x[i] ELSE y[i - k]
    <3> HIDE DEF x, y, S
    <3> QED  BY <1>1, ConcatProperties
  <2>2. z[i] = [pkt |-> p, n |-> n + i]
    BY RunType, k + m \in Nat
  <2>3. CASE i <= k
    <3>1. i \in 1..k
      BY <2>3
    <3>2. x[i] = [pkt |-> p, n |-> n + i]
      <4> HIDE DEF S
      <4> QED  BY <3>1, RunType
    <3> HIDE DEF x, y, z
    <3> QED  BY <2>1, <2>2, <2>3, <3>2
  <2>4. CASE ~(i <= k)
    <3>1. i - k \in 1..m /\ n + k + (i - k) = n + i /\ n + k \in Nat
      BY <2>4
    <3>2. y[i - k] = [pkt |-> p, n |-> n + i]
      <4>1. y[i - k] = [pkt |-> p, n |-> n + k + (i - k)]
        BY <3>1, RunType
      <4> QED  BY <3>1, <4>1
    <3> HIDE DEF x, y, z
    <3> QED  BY <2>1, <2>2, <2>4, <3>2
  <2> QED  BY <2>3, <2>4
<1> HIDE DEF x, y, z, S
<1>3. x \o y \in Seq(S) /\ Len(x \o y) = k + m
  BY <1>1, ConcatProperties
<1>4. x \o y = z
  BY <1>1, <1>2, <1>3, SeqEqual
<1> QED  BY <1>4 DEF x, y, z

LEMMA RunTake ==
  ASSUME NEW p, NEW n \in Nat, NEW m \in Nat, NEW k \in 1..m
  PROVE  SubSeq(Run(p, n, m), 1, k) = Run(p, n, k)
<1> DEFINE S == [pkt : {p}, n : Nat]
           x == Run(p, n, m)
           y == Run(p, n, k)
<1>1. /\ x \in Seq(S) /\ Len(x) = m /\ y \in Seq(S) /\ Len(y) = k
      /\ \A i \in 1..k : i \in 1..m /\ x[i] = y[i] /\ 1 + i - 1 = i
  <2>1. m \in Nat /\ k \in Nat /\ \A i \in 1..k : i \in 1..m /\ 1 + i - 1 = i
    OBVIOUS
  <2>2. \A i \in 1..k : x[i] = y[i]
    BY <2>1 DEF Run
  <2> QED  BY <2>1, <2>2, RunType
<1> HIDE DEF x, y, S
<1>2. /\ SubSeq(x, 1, k) \in Seq(S) /\ Len(SubSeq(x, 1, k)) = k
      /\ \A i \in 1..k : SubSeq(x, 1, k)[i] = x[i]
  <2>1. \A i \in 1..k : x[i] \in S
    BY <1>1, ElementOfSeq
  <2>2. /\ SubSeq(x, 1, k) \in Seq(S)
        /\ Len(SubSeq(x, 1, k)) = IF 1 <= k THEN k - 1 + 1 ELSE 0
        /\ \A i \in 1..(k - 1 + 1) : SubSeq(x, 1, k)[i] = x[1 + i - 1]
    BY <2>1, SubSeqProperties
  <2>3. k - 1 + 1 = k /\ 1 <= k
    OBVIOUS
  <2> QED  BY <1>1, <2>2, <2>3
<1>3. SubSeq(x, 1, k) = y
  BY <1>1, <1>2, SeqEqual
<1> QED  BY <1>3 DEF x, y

LEMMA PairConcat ==
  ASSUME NEW a, NEW b
  PROVE  <<a>> \o <<b>> = <<a, b>> /\ <<a>> \o << >> = <<a>>
<1> DEFINE S == {a, b}
<1>1. <<a>> \in Seq(S) /\ <<b>> \in Seq(S) /\ <<a, b>> \in Seq(S)
  OBVIOUS
<1>2. <<a>> \o << >> = <<a>>
  <2> HIDE DEF S
  <2> QED  BY <1>1, ConcatEmptySeq
<1>3. Len(<<a>>) = 1 /\ Len(<<b>>) = 1 /\ Len(<<a, b>>) = 2
  OBVIOUS
<1>4. /\ <<a>> \o <<b>> \in Seq(S) /\ Len(<<a>> \o <<b>>) = 2
      /\ \A i \in 1..2 : (<<a>> \o <<b>>)[i] = IF i <= 1 THEN <<a>>[i] ELSE <<b>>[i - 1]
  <2> HIDE DEF S
  <2>1. /\ <<a>> \o <<b>> \in Seq(S) /\ Len(<<a>> \o <<b>>) = 1 + 1
        /\ \A i \in 1..(1 + 1) : (<<a>> \o <<b>>)[i] = IF i <= 1 THEN <<a>>[i] ELSE <<b>>[i - 1]
    BY <1>1, <1>3, ConcatProperties
  <2>2. 1 + 1 = 2
    OBVIOUS
  <2> QED  BY <2>1, <2>2
<1>5. \A i \in 1..2 : (<<a>> \o <<b>>)[i] = <<a, b>>[i]
  BY <1>4
<1>6. <<a>> \o <<b>> = <<a, b>>
  <2> HIDE DEF S
  <2> QED  BY <1>1, <1>3, <1>4, <1>5, SeqEqual
<1> QED  BY <1>2, <1>6

-----------------------------------------------------------------------------
\* What is left of packet p when n of its bytes have been taken.
Rest(p, n) ==
  IF n >= Socket!Length(p) THEN << >>
  ELSE IF n < HeaderLen /\ p.length > 0
       THEN <<Socket!Slice(p, n + 1, HeaderLen),
              Socket!Slice(p, HeaderLen + 1, Socket!Length(p))>>
       ELSE <<Socket!Slice(p, n + 1, Socket!Length(p))>>

LEMMA PacketLength ==
  ASSUME NEW p \in Packets
  PROVE  /\ Socket!Length(p) = HeaderLen + p.length
         /\ Socket!Length(p) \in Nat \ {0} /\ HeaderLen \in Nat \ {0} /\ p.length \in Nat
BY LengthAssumption DEF Packets, Socket!Length

LEMMA SlicesAreRest ==
  ASSUME NEW p \in Packets
  PROVE  Socket!Slices(p) = Rest(p, 0)
<1> DEFINE a == Socket!Slice(p, 1, HeaderLen)
           b == Socket!Slice(p, HeaderLen + 1, Socket!Length(p))
<1>1. Rest(p, 0) = IF p.length > 0 THEN <<a, b>> ELSE <<a>>
  BY PacketLength DEF Rest
<1>2. Socket!Slices(p) = <<a>> \o (IF p.length > 0 THEN <<b>> ELSE << >>)
  BY DEF Socket!Slices
<1> HIDE DEF a, b
<1>3. CASE p.length > 0
  BY <1>1, <1>2, <1>3, PairConcat
<1>4. CASE ~(p.length > 0)
  BY <1>1, <1>2, <1>4, PairConcat
<1> QED  BY <1>3, <1>4

\* The bytes of a slice, and of a rest: those from n + 1 on.
LEMMA BytesOfSlice ==
  ASSUME NEW p, NEW n \in Nat, NEW to \in Nat
  PROVE  /\ Socket!Bytes(Socket!Slice(p, n + 1, to)) = Run(p, n, to - n)
         /\ Socket!Size(Socket!Slice(p, n + 1, to)) = to - n
<1>1. to - (n + 1) + 1 = to - n /\ \A i \in 1..(to - n) : n + 1 + i - 1 = n + i
  OBVIOUS
<1> QED  BY <1>1 DEF Socket!Bytes, Socket!Size, Socket!Slice, Run

LEMMA DataOfRest ==
  ASSUME NEW p \in Packets, NEW n \in Nat, n < Socket!Length(p)
  PROVE  Socket!Data(Rest(p, n)) = Run(p, n, Socket!Length(p) - n)
<1> DEFINE L == Socket!Length(p)
<1>0. L = HeaderLen + p.length /\ L \in Nat /\ HeaderLen \in Nat /\ p.length \in Nat
  BY PacketLength
<1>1. CASE n < HeaderLen /\ p.length > 0
  <2> DEFINE a == Socket!Slice(p, n + 1, HeaderLen)
             b == Socket!Slice(p, HeaderLen + 1, L)
  <2>1. Rest(p, n) = <<a, b>>
    BY <1>0, <1>1 DEF Rest
  <2>2. Socket!Bytes(a) = Run(p, n, HeaderLen - n) /\ Socket!Bytes(b) = Run(p, HeaderLen, L - HeaderLen)
    <3> HIDE DEF L
    <3> QED  BY <1>0, BytesOfSlice
  <2> HIDE DEF a, b
  <2>4. [i \in DOMAIN <<a, b>> |-> Socket!Bytes(<<a, b>>[i])] = <<Socket!Bytes(a), Socket!Bytes(b)>>
    OBVIOUS
  <2>5. Socket!Data(Rest(p, n)) = Socket!Bytes(a) \o Socket!Bytes(b)
    BY <2>1, <2>4, FlattenTwo DEF Socket!Data
  <2>6. /\ HeaderLen - n \in Nat /\ L - HeaderLen \in Nat /\ n + (HeaderLen - n) = HeaderLen
        /\ (HeaderLen - n) + (L - HeaderLen) = L - n
    BY <1>0, <1>1
  <2> HIDE DEF L
  <2>7. Run(p, n, HeaderLen - n) \o Run(p, HeaderLen, L - HeaderLen) = Run(p, n, L - n)
    <3>1. Run(p, n, HeaderLen - n) \o Run(p, n + (HeaderLen - n), L - HeaderLen)
            = Run(p, n, (HeaderLen - n) + (L - HeaderLen))
      BY <2>6, RunConcat
    <3> QED  BY <2>6, <3>1
  <2>8. Socket!Data(Rest(p, n)) = Run(p, n, L - n)
    BY <2>2, <2>5, <2>7
  <2> QED  BY <2>8 DEF L
<1>2. CASE ~(n < HeaderLen /\ p.length > 0)
  <2> DEFINE a == Socket!Slice(p, n + 1, L)
  <2>1. Rest(p, n) = <<a>>
    BY <1>0, <1>2 DEF Rest
  <2>2. Socket!Bytes(a) = Run(p, n, L - n)
    <3> HIDE DEF L
    <3> QED  BY <1>0, BytesOfSlice
  <2>3. [i \in DOMAIN <<a>> |-> Socket!Bytes(<<a>>[i])] = <<Socket!Bytes(a)>>
    <3> HIDE DEF a
    <3> QED  OBVIOUS
  <2>4. Socket!Data(Rest(p, n)) = Socket!Bytes(a)
    <3> HIDE DEF a
    <3> QED  BY <2>1, <2>3, FlattenOne DEF Socket!Data
  <2> QED  BY <2>2, <2>4
<1> QED  BY <1>1, <1>2

LEMMA MaxOfTwo ==
  ASSUME NEW a \in Int, NEW b \in Int
  PROVE  Socket!Max({a, b}) = IF a >= b THEN a ELSE b
<1>1. \A x \in {a, b} : x = a \/ x = b
  OBVIOUS
<1>2. Socket!Max({a, b}) \in {a, b} /\ \A y \in {a, b} : Socket!Max({a, b}) >= y
  BY DEF Socket!Max
<1> QED  BY <1>1, <1>2

LEMMA MinOfTwo ==
  ASSUME NEW a \in Int, NEW b \in Int
  PROVE  Socket!Min({a, b}) = IF a <= b THEN a ELSE b
<1>1. \A x \in {a, b} : x = a \/ x = b
  OBVIOUS
<1>2. Socket!Min({a, b}) \in {a, b} /\ \A y \in {a, b} : Socket!Min({a, b}) <= y
  BY DEF Socket!Min
<1> QED  BY <1>1, <1>2

LEMMA LeastOfTwo ==
  ASSUME NEW a \in Int, NEW b \in Int
  PROVE  Min({a, b}) = IF a <= b THEN a ELSE b
<1>1. \A x \in {a, b} : x = a \/ x = b
  OBVIOUS
<1>2. Min({a, b}) \in {a, b} /\ \A y \in {a, b} : Min({a, b}) <= y
  BY DEF Min
<1> QED  BY <1>1, <1>2

\* Compact of one slice and of two.
LEMMA CompactOne ==
  ASSUME NEW a, Socket!Size(a) \in Int
  PROVE  Socket!Compact(<<a>>) = IF Socket!Size(a) > 0 THEN <<a>> ELSE << >>
<1> DEFINE left == {i \in DOMAIN <<a>> : Socket!Size(<<a>>[i]) > 0}
<1>1. left = IF Socket!Size(a) > 0 THEN {1} ELSE {}
  OBVIOUS
<1>2. Socket!Min({1}) = 1
  BY MinOfTwo, {1, 1} = {1}
<1>3. SubSeq(<<a>>, 1, Len(<<a>>)) = <<a>>
  BY <<a>> \in Seq({a}), SubSeqFull
<1>4. Socket!Compact(<<a>>)
        = IF left = {} THEN << >> ELSE SubSeq(<<a>>, Socket!Min(left), Len(<<a>>))
  BY DEF Socket!Compact
<1> HIDE DEF left
<1> QED  BY <1>1, <1>2, <1>3, <1>4

LEMMA CompactTwo ==
  ASSUME NEW a, NEW b, Socket!Size(a) \in Int, Socket!Size(b) \in Int,
         Socket!Size(a) > 0 => Socket!Size(b) > 0
  PROVE  Socket!Compact(<<a, b>>) = IF Socket!Size(a) > 0 THEN <<a, b>>
                                    ELSE IF Socket!Size(b) > 0 THEN <<b>> ELSE << >>
<1> DEFINE left == {i \in DOMAIN <<a, b>> : Socket!Size(<<a, b>>[i]) > 0}
<1>0. DOMAIN <<a, b>> = {1, 2} /\ <<a, b>>[1] = a /\ <<a, b>>[2] = b /\ Len(<<a, b>>) = 2
  OBVIOUS
<1>1. left = IF Socket!Size(a) > 0 THEN {1, 2} ELSE IF Socket!Size(b) > 0 THEN {2} ELSE {}
  BY <1>0
<1>2. Socket!Min({1, 2}) = 1 /\ Socket!Min({2}) = 2
  <2>1. 1 \in Int /\ 2 \in Int /\ {2, 2} = {2}
    OBVIOUS
  <2>2. Socket!Min({1, 2}) = (IF 1 <= 2 THEN 1 ELSE 2) /\ Socket!Min({2, 2}) = 2
    BY <2>1, MinOfTwo
  <2> QED  BY <2>1, <2>2
<1>3. SubSeq(<<a, b>>, 1, 2) = <<a, b>>
  BY <<a, b>> \in Seq({a, b}), <1>0, SubSeqFull
<1>4. SubSeq(<<a, b>>, 2, 2) = <<b>>
  <2>1. SubSeq(<<a, b>>, 2, 2) = <<b>> \o SubSeq(<<a, b>>, 3, 2)
    <3>1. <<a, b>> \in Seq({a, b}) /\ 2 \in 1..Len(<<a, b>>) /\ 2 \in 2..Len(<<a, b>>) /\ 2 + 1 = 3
      BY <1>0
    <3> QED  BY <1>0, <3>1, SubSeqRecursiveFirst
  <2>2. SubSeq(<<a, b>>, 3, 2) = << >>
    BY SubSeqEmpty
  <2> QED  BY <2>1, <2>2, PairConcat
<1>5. Socket!Compact(<<a, b>>)
        = IF left = {} THEN << >> ELSE SubSeq(<<a, b>>, Socket!Min(left), Len(<<a, b>>))
  BY DEF Socket!Compact
<1> HIDE DEF left
<1> QED  BY <1>0, <1>1, <1>2, <1>3, <1>4, <1>5

\* When k more bytes are taken, n + k are.
LEMMA AdvanceRest ==
  ASSUME NEW p \in Packets, NEW n \in Nat, NEW k \in 1..(Socket!Length(p) - n)
  PROVE  Socket!Compact(Socket!Advance(Rest(p, n), k)) = Rest(p, n + k)
<1> DEFINE L == Socket!Length(p)
<1>0. L = HeaderLen + p.length /\ L \in Nat /\ HeaderLen \in Nat \ {0} /\ p.length \in Nat
      /\ k \in Nat /\ k >= 1 /\ n + k <= L /\ n < L /\ n + k \in Nat
  BY PacketLength
<1>1. CASE n < HeaderLen /\ p.length > 0
  <2> DEFINE a == Socket!Slice(p, n + 1, HeaderLen)
             b == Socket!Slice(p, HeaderLen + 1, L)
             first == IF k <= HeaderLen - n THEN k ELSE HeaderLen - n
             second == IF k <= HeaderLen - n THEN 0 ELSE k - (HeaderLen - n)
             a2 == Socket!Slice(p, (n + first) + 1, HeaderLen)
             b2 == Socket!Slice(p, (HeaderLen + second) + 1, L)
  <2>1. Rest(p, n) = <<a, b>>
    BY <1>0, <1>1 DEF Rest
  <2>2. Socket!Size(a) = HeaderLen - n /\ Socket!Size(b) = L - HeaderLen
    <3> HIDE DEF L
    <3> QED  BY <1>0, BytesOfSlice
  <2>3. /\ Socket!Max({0, Socket!Min({Socket!Size(a), k - 0})}) = first
        /\ Socket!Max({0, Socket!Min({Socket!Size(b), k - Socket!Size(a)})}) = second
    <3>1. /\ HeaderLen - n \in Int /\ L - HeaderLen \in Int /\ k - 0 = k /\ k - (HeaderLen - n) \in Int
          /\ k \in Int /\ 0 \in Int /\ k - (HeaderLen - n) <= L - HeaderLen
          /\ (k <= HeaderLen - n <=> k - (HeaderLen - n) <= 0)
      BY <1>0, <1>1
    <3> HIDE DEF a, b, L
    <3>2. Socket!Min({HeaderLen - n, k}) = first
      <4>1. Socket!Min({HeaderLen - n, k}) = IF HeaderLen - n <= k THEN HeaderLen - n ELSE k
        BY <3>1, MinOfTwo
      <4> QED  BY <3>1, <4>1
    <3>3. Socket!Min({L - HeaderLen, k - (HeaderLen - n)}) = k - (HeaderLen - n)
      <4> DEFINE x == L - HeaderLen
                 y == k - (HeaderLen - n)
      <4>1. x \in Int /\ y \in Int /\ y <= x
        BY <3>1
      <4> HIDE DEF x, y
      <4>2. Socket!Min({x, y}) = IF x <= y THEN x ELSE y
        BY <4>1, MinOfTwo
      <4>3. Socket!Min({x, y}) = y
        BY <4>1, <4>2
      <4> QED  BY <4>3 DEF x, y
    <3>4. Socket!Max({0, first}) = first
      <4>1. first \in Int /\ first >= 0 /\ (0 >= first => first = 0)
        BY <1>0, <1>1
      <4> HIDE DEF first
      <4> QED  BY <4>1, MaxOfTwo
    <3>5. Socket!Max({0, k - (HeaderLen - n)}) = second
      BY <3>1, MaxOfTwo
    <3> QED  BY <2>2, <3>1, <3>2, <3>3, <3>4, <3>5
  <2>4. /\ [a EXCEPT !.from = @ + first] = a2
        /\ [b EXCEPT !.from = @ + second] = b2
    <3>1. n + 1 + first = (n + first) + 1 /\ HeaderLen + 1 + second = (HeaderLen + second) + 1
      BY <1>0, <1>1
    <3> HIDE DEF first, second, L
    <3> QED  BY <3>1 DEF Socket!Slice
  <2>5. Socket!Advance(<<a, b>>, k) = <<a2, b2>>
    <3> DEFINE G(i) == LET before == IF i = 1 THEN 0 ELSE Socket!Size(<<a, b>>[1])
                       IN [<<a, b>>[i] EXCEPT !.from =
                             @ + Socket!Max({0, Socket!Min({Socket!Size(<<a, b>>[i]), k - before})})]
    <3> HIDE DEF a, b, a2, b2, first, second
    <3>1. Socket!Advance(<<a, b>>, k) = [i \in 1..2 |-> G(i)]
      BY DEF Socket!Advance
    <3>2. G(1) = a2
      BY <2>3, <2>4
    <3>3. G(2) = b2
      BY <2>3, <2>4
    <3> HIDE DEF G
    <3> QED  BY <3>1, <3>2, <3>3
  <2>6. /\ Socket!Size(a2) = HeaderLen - (n + first)
        /\ Socket!Size(b2) = L - (HeaderLen + second)
    <3>1. n + first \in Nat /\ HeaderLen + second \in Nat
      BY <1>0, <1>1
    <3> HIDE DEF L, first, second
    <3> QED  BY <1>0, <3>1, BytesOfSlice
  <2>7. CASE k < HeaderLen - n
    <3>1. /\ first = k /\ second = 0 /\ n + k < HeaderLen /\ HeaderLen + 0 = HeaderLen
          /\ HeaderLen - (n + k) > 0 /\ L - HeaderLen > 0 /\ ~(n + k >= L)
          /\ HeaderLen - (n + k) \in Int /\ L - HeaderLen \in Int
      BY <1>0, <1>1, <2>7
    <3>2. Rest(p, n + k) = <<a2, b2>>
      BY <1>1, <3>1 DEF Rest
    <3>3. Socket!Size(a2) > 0 /\ Socket!Size(b2) > 0 /\ Socket!Size(a2) \in Int /\ Socket!Size(b2) \in Int
      BY <2>6, <3>1
    <3> HIDE DEF a, b, a2, b2
    <3> QED  BY <2>1, <2>5, <3>2, <3>3, CompactTwo
  <2>8. CASE ~(k < HeaderLen - n) /\ n + k < L
    <3>1. /\ n + first = HeaderLen /\ HeaderLen + second = n + k
          /\ HeaderLen - HeaderLen = 0 /\ L - (n + k) > 0
          /\ ~(n + k < HeaderLen) /\ ~(n + k >= L) /\ L - (n + k) \in Int
      BY <1>0, <1>1, <2>8
    <3>2. Rest(p, n + k) = <<b2>>
      <4> HIDE DEF second, first
      <4> QED  BY <3>1 DEF Rest
    <3>3. Socket!Size(a2) = 0 /\ Socket!Size(b2) > 0 /\ Socket!Size(b2) \in Int
      <4> HIDE DEF second, first, a2, b2
      <4> QED  BY <2>6, <3>1
    <3> HIDE DEF a, b, a2, b2
    <3> QED  BY <2>1, <2>5, <3>2, <3>3, CompactTwo
  <2>9. CASE ~(n + k < L)
    <3>1. /\ n + first = HeaderLen /\ HeaderLen + second = L
          /\ HeaderLen - HeaderLen = 0 /\ L - L = 0 /\ n + k >= L /\ 0 \in Int /\ ~(0 > 0)
      BY <1>0, <1>1, <2>9
    <3>2. Rest(p, n + k) = << >>
      BY <3>1 DEF Rest
    <3>3. Socket!Size(a2) = 0 /\ Socket!Size(b2) = 0
      <4> HIDE DEF second, first, a2, b2
      <4> QED  BY <2>6, <3>1
    <3> HIDE DEF a, b, a2, b2
    <3>4. Socket!Compact(<<a2, b2>>) = << >>
      BY <3>1, <3>3, CompactTwo
    <3> QED  BY <2>1, <2>5, <3>2, <3>4
  <2> QED  BY <2>7, <2>8, <2>9
<1>2. CASE ~(n < HeaderLen /\ p.length > 0)
  <2> DEFINE a == Socket!Slice(p, n + 1, L)
             a2 == Socket!Slice(p, (n + k) + 1, L)
  <2>1. Rest(p, n) = <<a>>
    BY <1>0, <1>2 DEF Rest
  <2>2. Socket!Size(a) = L - n /\ Socket!Size(a2) = L - (n + k)
    <3> HIDE DEF L
    <3> QED  BY <1>0, BytesOfSlice
  <2>3. Socket!Max({0, Socket!Min({Socket!Size(a), k - 0})}) = k
    <3> DEFINE x == L - n
    <3>1. x \in Int /\ k \in Int /\ k - 0 = k /\ k <= x /\ 0 \in Int /\ ~(0 >= k)
      BY <1>0
    <3> HIDE DEF x, a
    <3>2. Socket!Min({x, k}) = k
      <4>1. Socket!Min({x, k}) = IF x <= k THEN x ELSE k
        BY <3>1, MinOfTwo
      <4> QED  BY <3>1, <4>1
    <3> QED  BY <2>2, <3>1, <3>2, MaxOfTwo DEF x
  <2>4. [a EXCEPT !.from = @ + k] = a2
    <3>1. n + 1 + k = (n + k) + 1
      BY <1>0
    <3> HIDE DEF L
    <3> QED  BY <3>1 DEF Socket!Slice
  <2>5. Socket!Advance(<<a>>, k) = <<a2>>
    <3> DEFINE G(i) == LET before == IF i = 1 THEN 0 ELSE Socket!Size(<<a>>[1])
                       IN [<<a>>[i] EXCEPT !.from =
                             @ + Socket!Max({0, Socket!Min({Socket!Size(<<a>>[i]), k - before})})]
    <3> HIDE DEF a, a2
    <3>1. Socket!Advance(<<a>>, k) = [i \in 1..1 |-> G(i)]
      BY DEF Socket!Advance
    <3>2. G(1) = a2
      BY <2>3, <2>4
    <3> HIDE DEF G
    <3> QED  BY <3>1, <3>2
  <2>6. Socket!Compact(<<a2>>) = IF L - (n + k) > 0 THEN <<a2>> ELSE << >>
    <3>1. L - (n + k) \in Int
      BY <1>0
    <3> HIDE DEF a2, L
    <3> QED  BY <2>2, <3>1, CompactOne
  <2>7. Rest(p, n + k) = IF L - (n + k) > 0 THEN <<a2>> ELSE << >>
    BY <1>0, <1>2 DEF Rest
  <2> QED  BY <2>1, <2>5, <2>6, <2>7
<1> QED  BY <1>1, <1>2

LEMMA FlattenNone == Socket!FlattenSeq(<< >>) = << >>
BY DEF Socket!FlattenSeq

\* A packet not sent to its end has something left.
LEMMA RestSome ==
  ASSUME NEW p \in Packets, NEW n \in Nat, n < Socket!Length(p)
  PROVE  /\ Rest(p, n) # << >> /\ Len(Rest(p, n)) <= 2
         /\ Head(Rest(p, n)).pkt = p /\ Head(Rest(p, n)).from = n + 1
         /\ Socket!Size(Head(Rest(p, n))) <= Socket!Length(p) - n
<1> DEFINE L == Socket!Length(p)
<1>0. L = HeaderLen + p.length /\ L \in Nat /\ HeaderLen \in Nat /\ p.length \in Nat /\ ~(n >= L)
  BY PacketLength
<1>1. CASE n < HeaderLen /\ p.length > 0
  <2> DEFINE a == Socket!Slice(p, n + 1, HeaderLen)
             b == Socket!Slice(p, HeaderLen + 1, L)
  <2>1. Rest(p, n) = <<a, b>>
    BY <1>0, <1>1 DEF Rest
  <2>2. a.pkt = p /\ a.from = n + 1
    BY DEF Socket!Slice
  <2>3. Socket!Size(a) = HeaderLen - n
    BY <1>0, BytesOfSlice
  <2>4. HeaderLen - n <= L - n
    BY <1>0
  <2> HIDE DEF a, b, L
  <2>5. Head(<<a, b>>) = a /\ Len(<<a, b>>) <= 2 /\ <<a, b>> # << >>
    OBVIOUS
  <2> QED  BY <2>1, <2>2, <2>3, <2>4, <2>5 DEF L
<1>2. CASE ~(n < HeaderLen /\ p.length > 0)
  <2> DEFINE a == Socket!Slice(p, n + 1, L)
  <2>1. Rest(p, n) = <<a>>
    BY <1>0, <1>2 DEF Rest
  <2>2. a.pkt = p /\ a.from = n + 1
    BY DEF Socket!Slice
  <2>3. Socket!Size(a) = L - n /\ L - n <= L - n
    <3> HIDE DEF L
    <3> QED  BY <1>0, BytesOfSlice
  <2> HIDE DEF a, L
  <2>4. Head(<<a>>) = a /\ Len(<<a>>) <= 2 /\ <<a>> # << >>
    OBVIOUS
  <2> QED  BY <2>1, <2>2, <2>3, <2>4 DEF L
<1> QED  BY <1>1, <1>2

LEMMA RestNone ==
  ASSUME NEW p \in Packets, NEW n \in Nat, ~(n < Socket!Length(p))
  PROVE  Rest(p, n) = << >>
BY PacketLength DEF Rest

-----------------------------------------------------------------------------
(* Types *)

Bytes == Socket!Byte(Packets)
Leftovers == {<< >>} \cup {Rest(p, n) : p \in Packets, n \in Nat}

Commands ==
  [command : {"INTERRUPT", "OTHER"}] \cup [command : {"CONTROL"}, request : Requests]
    \cup [command : {"UNLINK"}, target : Seqnums]

HandlerStates == {"other", "import", "reply", "loop", "recv", "activate", "skewed", "done"}
TxStates ==
  {"idle", "send", "poll", "pop", "unpark", "translate", "repark", "send_report", "done"}

RingTypes == Ring!TypeOK /\ pushed \in Seq(Events)

SocketTypes ==
  /\ wire \in [Sessions -> Seq(Bytes)]
  /\ iov \in [Socket!Writers -> Leftovers]
  /\ broken \subseteq Sessions

SessionTypes ==
  /\ isActive \in BOOLEAN
  /\ seqnum \in Seqnums \cup {NoSeq}
  /\ is_connected \in [Sessions -> BOOLEAN]
  /\ tx_queue \in [Sessions -> Seq(Packets)]
  /\ hpc \in [Sessions -> HandlerStates]
  /\ tpc \in [Sessions -> TxStates]
  /\ asked \in [Sessions -> Seq(Commands)]
  /\ \A s \in Sessions : Len(asked[s]) <= MaxSeqs
  /\ reports \in Seq(Events \cup {NoEvent})
  /\ overlapped \in BOOLEAN

\* A handler that replies has something left to send.
Replying == \A s \in Sessions : hpc[s] = "reply" => iov[<<s, "handler">>] # << >>

TypeInv == RingTypes /\ SocketTypes /\ SessionTypes /\ Replying

LEMMA WriterOf ==
  ASSUME NEW s \in Sessions
  PROVE  /\ <<s, "handler">> \in Socket!Writers /\ <<s, "tx">> \in Socket!Writers
         /\ <<s, "handler">>[1] = s /\ <<s, "tx">>[1] = s
         /\ \A t : <<s, "handler">> # <<t, "tx">>
BY DEF Socket!Writers

\* What a writer has left is the rest of a packet.
LEMMA LeftOf ==
  ASSUME SocketTypes, NEW w \in Socket!Writers, iov[w] # << >>
  PROVE  \E p \in Packets, n \in Nat : n < Socket!Length(p) /\ iov[w] = Rest(p, n)
<1>1. PICK p \in Packets, n \in Nat : iov[w] = Rest(p, n)
  BY DEF SocketTypes, Leftovers
<1> QED  BY <1>1, RestNone

\* A system call takes the next bytes of the packet.
LEMMA TakesStep ==
  ASSUME SocketTypes, NEW w \in Socket!Writers,
         Socket!SendMsg(w) \/ (iov[w] # << >> /\ Socket!Send(w))
  PROVE  \E p \in Packets, n \in Nat : \E k \in 1..(Socket!Length(p) - n) :
           /\ n < Socket!Length(p) /\ iov[w] = Rest(p, n)
           /\ w[1] \notin broken
           /\ wire' = [wire EXCEPT ![w[1]] = @ \o Run(p, n, k)]
           /\ iov' = [iov EXCEPT ![w] = Rest(p, n + k)]
           /\ broken' = broken
<1>1. iov[w] # << >>
  <2> SUFFICES ASSUME iov[w] = << >>, Socket!SendMsg(w) PROVE FALSE
    OBVIOUS
  <2>1. Socket!Data(<< >>) = << >>
    <3>1. [i \in DOMAIN << >> |-> Socket!Bytes(<< >>[i])] = << >>
      OBVIOUS
    <3> QED  BY <3>1, FlattenNone DEF Socket!Data
  <2>2. 1..Len(Socket!Data(iov[w])) = {}
    BY <2>1
  <2> QED  BY <2>2 DEF Socket!SendMsg
<1>2. PICK p \in Packets, n \in Nat : n < Socket!Length(p) /\ iov[w] = Rest(p, n)
  BY <1>1, LeftOf
<1> DEFINE L == Socket!Length(p)
<1>3. L \in Nat /\ L - n \in Nat
  BY <1>2, PacketLength
<1>4. Socket!Data(iov[w]) = Run(p, n, L - n) /\ Len(Run(p, n, L - n)) = L - n
  BY <1>2, <1>3, DataOfRest, RunType
<1>5. PICK k \in 1..(L - n) : Socket!Takes(w, k)
  <2>1. CASE Socket!SendMsg(w)
    BY <1>4, <2>1 DEF Socket!SendMsg
  <2>2. CASE Socket!Send(w)
    <3>1. PICK k \in 1..Socket!Size(Head(iov[w])) : Socket!Takes(w, k)
      BY <2>2 DEF Socket!Send
    <3>2. Socket!Size(Head(iov[w])) <= L - n
      BY <1>2, RestSome
    <3>3. Socket!Size(Head(iov[w])) \in Int
      <4>1. CASE n < HeaderLen /\ p.length > 0
        <5>1. Head(Rest(p, n)) = Socket!Slice(p, n + 1, HeaderLen)
          BY <1>2, <1>3, <4>1 DEF Rest
        <5> QED  BY <1>2, <5>1, PacketLength DEF Socket!Size, Socket!Slice
      <4>2. CASE ~(n < HeaderLen /\ p.length > 0)
        <5>1. Head(Rest(p, n)) = Socket!Slice(p, n + 1, L)
          BY <1>2, <1>3, <4>2 DEF Rest
        <5> QED  BY <1>2, <1>3, <5>1 DEF Socket!Size, Socket!Slice
      <4> QED  BY <4>1, <4>2
    <3>4. k \in 1..(L - n)
      <4> HIDE DEF L
      <4> QED  BY <1>3, <3>2, <3>3
    <3> QED  BY <3>1, <3>4
  <2> QED  BY <2>1, <2>2
<1>6. SubSeq(Socket!Data(iov[w]), 1, k) = Run(p, n, k)
  BY <1>3, <1>4, RunTake
<1>7. Socket!Compact(Socket!Advance(iov[w], k)) = Rest(p, n + k)
  BY <1>2, AdvanceRest
<1> QED  BY <1>2, <1>5, <1>6, <1>7 DEF Socket!Takes

-----------------------------------------------------------------------------
(* Packets and commands *)

\* The packets the code makes are packets.
LEMMA PacketType ==
  ASSUME NEW c \in {"REP_IMPORT", "RET_SUBMIT", "RET_UNLINK"},
         NEW r \in Seqnums \cup {NoSeq}, NEW status \in {0, 1}, NEW length \in Nat
  PROVE  /\ Packet(c, r, status, length) \in Packets
         /\ Packet(c, r, status, length).command = c
         /\ Packet(c, r, status, length).seqnum = r
         /\ Packet(c, r, status, length).length = length
BY DEF Packet, Packets

LEMMA NextSeqType ==
  ASSUME SessionTypes, NEW s \in Sessions, Len(asked[s]) < MaxSeqs
  PROVE  /\ NextSeq(s) \in Seqnums /\ NextSeq(s)[1] = s /\ NextSeq(s)[2] = Len(asked[s]) + 1
         /\ Len(asked[s]) \in Nat
<1>1. asked[s] \in Seq(Commands)
  BY DEF SessionTypes
<1>2. Len(asked[s]) \in Nat /\ MaxSeqs \in Nat
  BY <1>1, LenProperties, BoundAssumption
<1>3. Len(asked[s]) + 1 \in 1..MaxSeqs
  BY <1>2
<1> QED  BY <1>2, <1>3 DEF NextSeq, Seqnums

\* No more than it asked for is copied for a control request.
LEMMA ControlReplyType ==
  ASSUME NEW r \in Seqnums, NEW req \in Requests
  PROVE  /\ ControlReply(r, req) \in Packets
         /\ ControlReply(r, req).command = "RET_SUBMIT"
         /\ ControlReply(r, req).seqnum = r
         /\ ControlReply(r, req).length <= req.wLength
<1> DEFINE len == HandleControlGetDescriptor(req.type, req.wLength)
           P(status, length) == Packet("RET_SUBMIT", r, status, length)
           Fits(pkt) == /\ pkt \in Packets /\ pkt.command = "RET_SUBMIT" /\ pkt.seqnum = r
                        /\ pkt.length <= req.wLength
<1>1. req.wLength \in Nat
  BY LengthAssumption
<1>2. len >= 0 => len \in Nat /\ len <= req.wLength
  <2>1. CASE req.type \in DOMAIN DescriptorLen
    <3> DEFINE d == DescriptorLen[req.type]
    <3>1. d \in Nat
      BY <2>1, LengthAssumption
    <3>2. len = Min({d, req.wLength})
      BY <2>1 DEF HandleControlGetDescriptor
    <3>3. len = IF d <= req.wLength THEN d ELSE req.wLength
      <4> HIDE DEF d, len
      <4>1. d \in Int /\ req.wLength \in Int
        BY <1>1, <3>1
      <4>2. Min({d, req.wLength}) = IF d <= req.wLength THEN d ELSE req.wLength
        BY <4>1, LeastOfTwo
      <4> QED  BY <3>2, <4>2
    <3> HIDE DEF d, len
    <3> QED  BY <1>1, <3>1, <3>3
  <2>2. CASE req.type \notin DOMAIN DescriptorLen
    BY <2>2 DEF HandleControlGetDescriptor
  <2> QED  BY <2>1, <2>2
<1>3. Min({2, req.wLength}) \in Nat /\ Min({2, req.wLength}) <= req.wLength
  <2>1. 2 \in Int /\ req.wLength \in Int
    BY <1>1
  <2>2. Min({2, req.wLength}) = IF 2 <= req.wLength THEN 2 ELSE req.wLength
    BY <2>1, LeastOfTwo
  <2> QED  BY <1>1, <2>2
<1>4. \A status \in {0, 1}, length \in Nat : length <= req.wLength => Fits(P(status, length))
  BY PacketType
<1>5. ControlReply(r, req) =
        CASE req.name = "GET_DESCRIPTOR" /\ len >= 0 -> P(0, len)
          [] req.name = "GET_STATUS" -> P(0, Min({2, req.wLength}))
          [] req.name \in {"SET_CONFIGURATION", "SET_ADDRESS", "SET_IDLE", "SET_PROTOCOL"} -> P(0, 0)
          [] OTHER -> P(1, 0)
  BY DEF ControlReply
<1> HIDE DEF P, len, Fits
<1>6. Fits(P(0, 0)) /\ Fits(P(1, 0)) /\ Fits(P(0, Min({2, req.wLength})))
      /\ (len >= 0 => Fits(P(0, len)))
  BY <1>1, <1>2, <1>3, <1>4
<1>7. Fits(ControlReply(r, req))
  BY <1>5, <1>6
<1> QED  BY <1>7 DEF Fits

-----------------------------------------------------------------------------
(* The ring *)

LEMMA NextSlotValue ==
  ASSUME NEW i \in Ring!Slots
  PROVE  /\ Ring!NextSlot(i) = IF i + 1 = Capacity THEN 0 ELSE i + 1
         /\ Ring!NextSlot(i) \in Ring!Slots
<1>1. Capacity % Capacity = 0
  BY RingAssumption
<1>2. CASE i + 1 = Capacity
  BY <1>1, <1>2, RingAssumption DEF Ring!NextSlot, Ring!Slots
<1>3. CASE i + 1 # Capacity
  BY <1>3, RingAssumption DEF Ring!NextSlot, Ring!Slots
<1> QED  BY <1>2, <1>3

LEMMA PushTypes ==
  ASSUME RingTypes, UiPush
  PROVE  RingTypes'
<1>1. ASSUME NEW e \in Events, Ring!PushTest(e), pushed' = Append(pushed, e)
      PROVE  RingTypes'
  <2>1. pushed' \in Seq(Events)
    BY <1>1, AppendProperties DEF RingTypes
  <2> QED  BY <1>1, <2>1 DEF RingTypes, Ring!TypeOK, Ring!PushTest, Ring!consumerVars
<1>2. CASE Ring!PushWrite /\ UNCHANGED pushed
  BY <1>2 DEF RingTypes, Ring!TypeOK, Ring!PushWrite, Ring!consumerVars
<1>3. CASE Ring!PushPublish /\ UNCHANGED pushed
  <2>1. tail' \in Ring!Slots
    BY <1>3, NextSlotValue DEF RingTypes, Ring!TypeOK, Ring!PushPublish
  <2> QED  BY <1>3, <2>1 DEF RingTypes, Ring!TypeOK, Ring!PushPublish, Ring!consumerVars
<1> QED  BY <1>1, <1>2, <1>3 DEF UiPush

LEMMA PopTypes ==
  ASSUME RingTypes, NEW s \in Sessions, PollPop(s)
  PROVE  RingTypes'
<1> USE DEF RingTypes, Ring!TypeOK, Ring!producerVars
<1>0. pushed' = pushed
  BY DEF PollPop, historyVars
<1>1. CASE Ring!PopBegin(s)
  BY <1>0, <1>1 DEF Ring!PopBegin
<1>2. CASE Ring!PopTest(s)
  BY <1>0, <1>2 DEF Ring!PopTest
<1>3. CASE Ring!PopEmpty(s)
  BY <1>0, <1>3 DEF Ring!PopEmpty
<1>4. CASE Ring!PopRead(s)
  <2>1. buffer[currentHead[s]] \in Events \cup {NoEvent}
    OBVIOUS
  <2> QED  BY <1>0, <1>4, <2>1 DEF Ring!PopRead
<1>5. CASE Ring!PopAdvance(s)
  <2>1. head' \in Ring!Slots
    BY <1>5, NextSlotValue DEF Ring!PopAdvance
  <2>2. event[s] \in Events \cup {NoEvent}
    OBVIOUS
  <2> QED  BY <1>0, <1>5, <2>1, <2>2 DEF Ring!PopAdvance
<1> QED  BY <1>1, <1>2, <1>3, <1>4, <1>5 DEF PollPop

LEMMA RingTypesNext ==
  ASSUME RingTypes, [Next]_vars
  PROVE  RingTypes'
<1>1. CASE UiPush
  BY <1>1, PushTypes
<1>2. ASSUME NEW s \in Sessions, PollPop(s)
      PROVE  RingTypes'
  BY <1>2, PopTypes
<1>3. CASE UNCHANGED <<ringVars, pushed>>
  BY <1>3 DEF ringVars, RingTypes, Ring!TypeOK, Ring!Slots
<1>4. UiPush \/ (\E s \in Sessions : PollPop(s)) \/ UNCHANGED <<ringVars, pushed>>
  BY DEF Next, vars, ResetSyntheticState, HandleSyntheticSubmit, Handle, Leave, Transmit, TxFails,
         ControlSubmit, SubmitElsewhere, RecvUnlink, SendImport, LoopTest, Activate, TxTake,
         TxIdle, TxExit, TxSend, PollParked, Unpark, Translate, Repark, historyVars
<1> QED  BY <1>1, <1>2, <1>3, <1>4

-----------------------------------------------------------------------------
(* The sockets *)

LEMMA BeginTypes ==
  ASSUME SocketTypes, NEW w \in Socket!Writers, NEW p \in Packets, Socket!Begin(w, p)
  PROVE  /\ iov' \in [Socket!Writers -> Leftovers]
         /\ iov' = [iov EXCEPT ![w] = Rest(p, 0)] /\ Rest(p, 0) # << >>
<1>1. Socket!Slices(p) = Rest(p, 0)
  BY SlicesAreRest
<1>2. Rest(p, 0) # << >>
  <2>1. 0 \in Nat /\ 0 < Socket!Length(p)
    BY PacketLength
  <2> QED  BY <2>1, RestSome
<1>3. Rest(p, 0) \in Leftovers
  BY DEF Leftovers
<1> QED  BY <1>1, <1>2, <1>3 DEF SocketTypes, Socket!Begin

LEMMA RunBytes ==
  ASSUME NEW p \in Packets, NEW n \in Nat, NEW k \in Nat, NEW q \in Seq(Bytes)
  PROVE  /\ Run(p, n, k) \in Seq(Bytes)
         /\ q \o Run(p, n, k) \in Seq(Bytes)
         /\ Len(q \o Run(p, n, k)) = Len(q) + k
         /\ \A i \in 1..(Len(q) + k) :
              (q \o Run(p, n, k))[i] = IF i <= Len(q) THEN q[i] ELSE [pkt |-> p, n |-> n + (i - Len(q))]
<1>1. Run(p, n, k) \in Seq(Bytes)
  <2>1. [pkt : {p}, n : Nat] \subseteq Bytes
    BY DEF Bytes, Socket!Byte
  <2> QED  BY <2>1, RunType, SeqMonotonic
<1>2. /\ q \o Run(p, n, k) \in Seq(Bytes) /\ Len(q \o Run(p, n, k)) = Len(q) + k
      /\ \A i \in 1..(Len(q) + k) :
           (q \o Run(p, n, k))[i] = IF i <= Len(q) THEN q[i] ELSE Run(p, n, k)[i - Len(q)]
  <2>1. Len(Run(p, n, k)) = k
    BY RunType
  <2> QED  BY <1>1, <2>1, ConcatProperties
<1>3. \A i \in 1..(Len(q) + k) : ~(i <= Len(q)) => i - Len(q) \in 1..k
  BY LenProperties
<1>4. \A i \in 1..k : Run(p, n, k)[i] = [pkt |-> p, n |-> n + i]
  BY RunType
<1> QED  BY <1>1, <1>2, <1>3, <1>4

LEMMA TakesTypes ==
  ASSUME SocketTypes, NEW w \in Socket!Writers,
         Socket!SendMsg(w) \/ (iov[w] # << >> /\ Socket!Send(w))
  PROVE  SocketTypes'
<1>1. PICK p \in Packets, n \in Nat : \E k \in 1..(Socket!Length(p) - n) :
        /\ n < Socket!Length(p) /\ iov[w] = Rest(p, n)
        /\ w[1] \notin broken
        /\ wire' = [wire EXCEPT ![w[1]] = @ \o Run(p, n, k)]
        /\ iov' = [iov EXCEPT ![w] = Rest(p, n + k)]
        /\ broken' = broken
  BY TakesStep
<1>2. PICK k \in 1..(Socket!Length(p) - n) :
        /\ wire' = [wire EXCEPT ![w[1]] = @ \o Run(p, n, k)]
        /\ iov' = [iov EXCEPT ![w] = Rest(p, n + k)]
        /\ broken' = broken
  BY <1>1
<1>3. k \in Nat /\ n + k \in Nat
  BY PacketLength
<1>4. w[1] \in Sessions
  BY DEF Socket!Writers
<1>5. wire[w[1]] \o Run(p, n, k) \in Seq(Bytes)
  BY <1>3, <1>4, RunBytes DEF SocketTypes
<1>6. Rest(p, n + k) \in Leftovers
  BY <1>3 DEF Leftovers
<1> QED  BY <1>2, <1>5, <1>6 DEF SocketTypes

LEMMA FailsTypes ==
  ASSUME SocketTypes, NEW w \in Socket!Writers, Socket!SendFails(w)
  PROVE  SocketTypes'
<1>1. w[1] \in Sessions
  BY DEF Socket!Writers
<1>2. << >> \in Leftovers
  BY DEF Leftovers
<1> QED  BY <1>1, <1>2 DEF SocketTypes, Socket!SendFails

\* The steps of a session that reach its socket.
SocketStep(s) ==
  ResetSyntheticState(s) \/ SendImport(s) \/ TxTake(s) \/ TxSend(s) \/ TxFails(s) \/ Translate(s)

LEMMA SocketQuiet ==
  ASSUME [Next]_vars
  PROVE  (\E s \in Sessions : SocketStep(s)) \/ UNCHANGED socketVars
BY DEF Next, vars, SocketStep, UiPush, HandleSyntheticSubmit, Handle, Leave, Transmit,
       ControlSubmit, SubmitElsewhere, RecvUnlink, LoopTest, Activate, TxIdle, TxExit,
       PollParked, PollPop, Unpark,
       Repark

LEMMA ImportPacket ==
  /\ Packet("REP_IMPORT", NoSeq, 0, HeaderLen) \in Packets
  /\ Packet("REP_IMPORT", NoSeq, 0, HeaderLen).command = "REP_IMPORT"
<1>1. HeaderLen \in Nat
  BY LengthAssumption
<1> QED  BY <1>1, PacketType

LEMMA ReportPacket ==
  ASSUME SessionTypes
  PROVE  /\ Packet("RET_SUBMIT", seqnum, 0, ReportLen) \in Packets
         /\ Packet("RET_SUBMIT", seqnum, 0, ReportLen).command = "RET_SUBMIT"
         /\ Packet("RET_SUBMIT", seqnum, 0, ReportLen).seqnum = seqnum
<1>1. ReportLen \in Nat /\ seqnum \in Seqnums \cup {NoSeq}
  BY LengthAssumption DEF SessionTypes
<1> QED  BY <1>1, PacketType

LEMMA QueueHead ==
  ASSUME SessionTypes, NEW s \in Sessions, tx_queue[s] # << >>
  PROVE  /\ Head(tx_queue[s]) \in Packets /\ Tail(tx_queue[s]) \in Seq(Packets)
         /\ Len(tx_queue[s]) \in Nat \ {0} /\ Len(Tail(tx_queue[s])) = Len(tx_queue[s]) - 1
         /\ Head(tx_queue[s]) = tx_queue[s][1]
         /\ \A i \in 1..(Len(tx_queue[s]) - 1) : Tail(tx_queue[s])[i] = tx_queue[s][i + 1]
<1>1. tx_queue[s] \in Seq(Packets)
  BY DEF SessionTypes
<1> QED  BY <1>1, HeadTailProperties, EmptySeq

LEMMA SocketTypesNext ==
  ASSUME TypeInv, [Next]_vars
  PROVE  SocketTypes'
<1> USE DEF TypeInv
<1>1. ASSUME NEW s \in Sessions, ResetSyntheticState(s)
      PROVE  SocketTypes'
  <2>1. iov' \in [Socket!Writers -> Leftovers]
    BY <1>1, WriterOf, ImportPacket, BeginTypes DEF ResetSyntheticState
  <2> QED  BY <1>1, <2>1 DEF ResetSyntheticState, SocketTypes
<1>2. ASSUME NEW s \in Sessions, SendImport(s)
      PROVE  SocketTypes'
  <2>1. iov[<<s, "handler">>] # << >>
    BY <1>2 DEF SendImport, Replying
  <2> QED  BY <1>2, <2>1, WriterOf, TakesTypes, FailsTypes DEF SendImport
<1>3. ASSUME NEW s \in Sessions, TxTake(s)
      PROVE  SocketTypes'
  <2>1. Head(tx_queue[s]) \in Packets
    BY <1>3, QueueHead DEF TxTake
  <2>2. iov' \in [Socket!Writers -> Leftovers]
    BY <1>3, <2>1, WriterOf, BeginTypes DEF TxTake
  <2> QED  BY <1>3, <2>2 DEF TxTake, SocketTypes
<1>4. ASSUME NEW s \in Sessions, TxSend(s)
      PROVE  SocketTypes'
  BY <1>4, WriterOf, TakesTypes DEF TxSend
<1>5. ASSUME NEW s \in Sessions, TxFails(s)
      PROVE  SocketTypes'
  BY <1>5, WriterOf, FailsTypes DEF TxFails
<1>6. ASSUME NEW s \in Sessions, Translate(s)
      PROVE  SocketTypes'
  <2>1. iov' \in [Socket!Writers -> Leftovers]
    <3>1. CASE UNCHANGED iov
      BY <3>1 DEF SocketTypes
    <3>2. CASE Socket!Begin(<<s, "tx">>, Packet("RET_SUBMIT", seqnum, 0, ReportLen))
      BY <3>2, WriterOf, ReportPacket, BeginTypes
    <3> QED  BY <1>6, <3>1, <3>2 DEF Translate
  <2> QED  BY <1>6, <2>1 DEF Translate, SocketTypes
<1>7. CASE UNCHANGED socketVars
  BY <1>7 DEF socketVars, SocketTypes
<1> QED  BY <1>1, <1>2, <1>3, <1>4, <1>5, <1>6, <1>7, SocketQuiet DEF SocketStep

-----------------------------------------------------------------------------
(* The sessions *)

LEMMA AskTypes ==
  ASSUME SessionTypes, NEW s \in Sessions, NEW cmd \in Commands, NEW to, Recv(s, cmd, to)
  PROVE  /\ asked' \in [Sessions -> Seq(Commands)]
         /\ \A x \in Sessions : Len(asked'[x]) <= MaxSeqs
         /\ asked'[s] = Append(asked[s], cmd) /\ asked'[s] \in Seq(Commands)
         /\ Len(asked'[s]) = Len(asked[s]) + 1
         /\ \A x \in Sessions \ {s} : asked'[x] = asked[x]
<1>1. asked[s] \in Seq(Commands) /\ Len(asked[s]) < MaxSeqs /\ MaxSeqs \in Nat
  BY BoundAssumption DEF SessionTypes, Recv
<1>2. /\ Append(asked[s], cmd) \in Seq(Commands)
      /\ Len(Append(asked[s], cmd)) = Len(asked[s]) + 1 /\ Len(asked[s]) \in Nat
  BY <1>1, AppendProperties, LenProperties
<1>3. Len(asked[s]) + 1 <= MaxSeqs
  BY <1>1, <1>2
<1>4. asked' = [asked EXCEPT ![s] = Append(asked[s], cmd)]
  BY DEF Recv
<1>5. asked \in [Sessions -> Seq(Commands)] /\ \A x \in Sessions : Len(asked[x]) <= MaxSeqs
  BY DEF SessionTypes
<1> QED  BY <1>2, <1>3, <1>4, <1>5

LEMMA EnqueueTypes ==
  ASSUME SessionTypes, NEW s \in Sessions, NEW pkt \in Packets, Enqueue(s, pkt)
  PROVE  tx_queue' \in [Sessions -> Seq(Packets)]
<1>1. Append(tx_queue[s], pkt) \in Seq(Packets)
  BY AppendProperties DEF SessionTypes
<1> QED  BY <1>1 DEF SessionTypes, Enqueue

LEMMA HandlerGoesType ==
  ASSUME SessionTypes, NEW s \in Sessions, NEW from, NEW to \in HandlerStates, HandlerGoes(s, from, to)
  PROVE  hpc' \in [Sessions -> HandlerStates]
BY DEF SessionTypes, HandlerGoes

LEMMA TxGoesType ==
  ASSUME SessionTypes, NEW s \in Sessions, NEW from, NEW to \in TxStates, TxGoes(s, from, to)
  PROVE  tpc' \in [Sessions -> TxStates]
BY DEF SessionTypes, TxGoes

LEMMA HandlerTypes ==
  ASSUME TypeInv, NEW s \in Sessions,
         \/ ResetSyntheticState(s) \/ HandleSyntheticSubmit(s) \/ Handle(s) \/ Leave(s)
         \/ SubmitElsewhere(s)
         \/ \E req \in Requests : ControlSubmit(s, req)
         \/ \E t \in Seqnums : RecvUnlink(s, t)
  PROVE  SessionTypes'
<1> USE DEF TypeInv
<1>0. {"other", "import", "reply", "loop", "recv", "activate", "skewed", "done"} = HandlerStates
  BY DEF HandlerStates
<1>1. CASE ResetSyntheticState(s)
  <2>1. hpc' \in [Sessions -> HandlerStates]
    BY <1>0, <1>1, HandlerGoesType DEF ResetSyntheticState
  <2> QED  BY <1>1, <2>1 DEF ResetSyntheticState, SessionTypes, sessionVars, historyVars
<1>2. CASE SendImport(s)
  BY <1>2 DEF SendImport, SessionTypes, HandlerStates, parkedVars, sessionVars, historyVars
<1>3. CASE LoopTest(s)
  <2>1. hpc' \in [Sessions -> HandlerStates]
    BY <1>3 DEF LoopTest, HandlerGoes, SessionTypes, HandlerStates
  <2> QED  BY <1>3, <2>1 DEF LoopTest, SessionTypes, parkedVars, sessionVars, historyVars
<1>4. CASE Activate(s)
  <2>1. hpc' \in [Sessions -> HandlerStates]
    BY <1>0, <1>4, HandlerGoesType DEF Activate
  <2> QED  BY <1>4, <2>1 DEF Activate, SessionTypes, sessionVars, historyVars
<1>5. CASE Leave(s)
  <2>1. hpc' \in [Sessions -> HandlerStates]
    BY <1>0, <1>5, HandlerGoesType DEF Leave
  <2> QED  BY <1>5, <2>1 DEF Leave, SessionTypes, parkedVars, historyVars
<1>6. CASE HandleSyntheticSubmit(s)
  <2> DEFINE cmd == [command |-> "INTERRUPT"]
  <2>1. cmd \in Commands
    BY DEF Commands
  <2>2. Recv(s, cmd, "activate")
    BY <1>6 DEF HandleSyntheticSubmit
  <2>3. asked' \in [Sessions -> Seq(Commands)] /\ \A x \in Sessions : Len(asked'[x]) <= MaxSeqs
    BY <2>1, <2>2, AskTypes
  <2>4. seqnum' \in Seqnums
    BY <1>6, <2>2, NextSeqType DEF HandleSyntheticSubmit, Recv
  <2>5. hpc' \in [Sessions -> HandlerStates]
    BY <1>0, <2>2, HandlerGoesType DEF Recv
  <2> HIDE DEF cmd
  <2> QED  BY <1>6, <2>3, <2>4, <2>5 DEF HandleSyntheticSubmit, SessionTypes, sessionVars
<1>7. ASSUME NEW req \in Requests, ControlSubmit(s, req)
      PROVE  SessionTypes'
  <2> DEFINE cmd == [command |-> "CONTROL", request |-> req]
  <2>1. cmd \in Commands
    BY DEF Commands
  <2>2. Recv(s, cmd, AfterData(req.out)) /\ AfterData(req.out) \in HandlerStates
    BY <1>7 DEF ControlSubmit, AfterData, HandlerStates
  <2>3. asked' \in [Sessions -> Seq(Commands)] /\ \A x \in Sessions : Len(asked'[x]) <= MaxSeqs
    BY <2>1, <2>2, AskTypes
  <2>4. hpc' \in [Sessions -> HandlerStates]
    BY <2>2, HandlerGoesType DEF Recv
  <2>5. tx_queue' \in [Sessions -> Seq(Packets)]
    <3>1. NextSeq(s) \in Seqnums
      BY <2>2, NextSeqType DEF Recv
    <3>2. ControlReply(NextSeq(s), req) \in Packets
      BY <3>1, ControlReplyType
    <3> QED  BY <1>7, <3>2, EnqueueTypes DEF ControlSubmit
  <2> HIDE DEF cmd
  <2> QED  BY <1>7, <2>3, <2>4, <2>5 DEF ControlSubmit, SessionTypes, parkedVars
<1>8. ASSUME NEW t \in Seqnums, RecvUnlink(s, t)
      PROVE  SessionTypes'
  <2> DEFINE cmd == [command |-> "UNLINK", target |-> t]
  <2>1. cmd \in Commands
    BY DEF Commands
  <2>2. Recv(s, cmd, "loop")
    BY <1>8 DEF RecvUnlink
  <2>3. asked' \in [Sessions -> Seq(Commands)] /\ \A x \in Sessions : Len(asked'[x]) <= MaxSeqs
    BY <2>1, <2>2, AskTypes
  <2>4. hpc' \in [Sessions -> HandlerStates]
    BY <1>0, <2>2, HandlerGoesType DEF Recv
  <2>5. tx_queue' \in [Sessions -> Seq(Packets)]
    <3>1. NextSeq(s) \in Seqnums
      BY <2>2, NextSeqType DEF Recv
    <3>2. Packet("RET_UNLINK", NextSeq(s), 0, 0) \in Packets
      BY <3>1, PacketType
    <3> QED  BY <1>8, <3>2, EnqueueTypes DEF RecvUnlink
  <2> HIDE DEF cmd
  <2> QED  BY <1>8, <2>3, <2>4, <2>5 DEF RecvUnlink, SessionTypes, parkedVars
<1>9. CASE SubmitElsewhere(s)
  <2> DEFINE cmd == [command |-> "OTHER"]
  <2>1. cmd \in Commands
    BY DEF Commands
  <2>2. PICK out \in BOOLEAN : Recv(s, cmd, AfterData(out)) /\ AfterData(out) \in HandlerStates
    BY <1>9 DEF SubmitElsewhere, AfterData, HandlerStates
  <2>3. asked' \in [Sessions -> Seq(Commands)] /\ \A x \in Sessions : Len(asked'[x]) <= MaxSeqs
    BY <2>1, <2>2, AskTypes
  <2>4. hpc' \in [Sessions -> HandlerStates]
    BY <2>2, HandlerGoesType DEF Recv
  <2> HIDE DEF cmd
  <2> QED  BY <1>9, <2>3, <2>4 DEF SubmitElsewhere, SessionTypes, parkedVars, sessionVars
<1> QED  BY <1>1, <1>2, <1>3, <1>4, <1>5, <1>6, <1>7, <1>8, <1>9 DEF Handle

LEMMA TxTypes ==
  ASSUME TypeInv, NEW s \in Sessions, Transmit(s) \/ TxFails(s)
  PROVE  SessionTypes'
<1> USE DEF TypeInv
<1>0. {"idle", "send", "poll", "pop", "unpark", "translate", "repark", "send_report", "done"} = TxStates
  BY DEF TxStates
<1>1. CASE TxTake(s)
  <2>1. Tail(tx_queue[s]) \in Seq(Packets)
    BY <1>1, QueueHead DEF TxTake
  <2>2. tpc' \in [Sessions -> TxStates]
    BY <1>0, <1>1, TxGoesType DEF TxTake
  <2> QED  BY <1>1, <2>1, <2>2 DEF TxTake, SessionTypes, parkedVars, historyVars
<1>2. CASE TxIdle(s)
  <2>1. tpc' \in [Sessions -> TxStates]
    BY <1>0, <1>2, TxGoesType DEF TxIdle
  <2> QED  BY <1>2, <2>1 DEF TxIdle, SessionTypes, parkedVars, sessionVars, historyVars
<1>3. CASE TxExit(s)
  <2>1. tpc' \in [Sessions -> TxStates]
    BY <1>0, <1>3, TxGoesType DEF TxExit
  <2>2. << >> \in Seq(Packets)
    BY EmptySeq
  <2> QED  BY <1>3, <2>1, <2>2 DEF TxExit, SessionTypes, parkedVars, historyVars
<1>4. CASE TxSend(s)
  BY <1>4 DEF TxSend, AfterSend, SessionTypes, TxStates, parkedVars, sessionVars, historyVars
<1>5. CASE TxFails(s)
  BY <1>5 DEF TxFails, AfterSend, SessionTypes, TxStates, parkedVars, historyVars
<1>6. CASE PollParked(s)
  BY <1>6 DEF PollParked, TxGoes, SessionTypes, TxStates, parkedVars, sessionVars
<1>7. CASE PollPop(s)
  BY <1>7 DEF PollPop, TxGoes, SessionTypes, TxStates, parkedVars, sessionVars, historyVars
<1>8. CASE Unpark(s)
  <2>1. tpc' \in [Sessions -> TxStates]
    BY <1>0, <1>8, TxGoesType DEF Unpark
  <2> QED  BY <1>8, <2>1 DEF Unpark, SessionTypes, sessionVars, historyVars
<1>9. CASE Translate(s)
  <2>1. tpc' \in [Sessions -> TxStates]
    BY <1>0, <1>9, TxGoesType DEF Translate
  <2>2. reports' \in Seq(Events \cup {NoEvent})
    <3>1. popped[s] \in Events \cup {NoEvent}
      BY DEF RingTypes, Ring!TypeOK
    <3>2. Append(reports, popped[s]) \in Seq(Events \cup {NoEvent})
      BY <3>1, AppendProperties DEF SessionTypes
    <3> QED  BY <1>9, <3>2 DEF Translate, SessionTypes
  <2> QED  BY <1>9, <2>1, <2>2 DEF Translate, SessionTypes, parkedVars, sessionVars
<1>10. CASE Repark(s)
  <2>1. tpc' \in [Sessions -> TxStates]
    BY <1>0, <1>10, TxGoesType DEF Repark
  <2> QED  BY <1>10, <2>1 DEF Repark, SessionTypes, sessionVars, historyVars
<1> QED  BY <1>1, <1>2, <1>3, <1>4, <1>5, <1>6, <1>7, <1>8, <1>9, <1>10 DEF Transmit

LEMMA SessionTypesNext ==
  ASSUME TypeInv, [Next]_vars
  PROVE  SessionTypes'
<1>1. CASE UNCHANGED vars
  BY <1>1 DEF vars, TypeInv, SessionTypes, parkedVars, sessionVars, historyVars
<1>2. CASE UiPush
  BY <1>2 DEF UiPush, TypeInv, SessionTypes, parkedVars, sessionVars
<1> QED  BY <1>1, <1>2, HandlerTypes, TxTypes DEF Next

LEMMA ReplyingNext ==
  ASSUME TypeInv, [Next]_vars
  PROVE  Replying'
<1> USE DEF TypeInv
<1>0. hpc \in [Sessions -> HandlerStates] /\ iov \in [Socket!Writers -> Leftovers]
  BY DEF SessionTypes, SocketTypes
<1>1. ASSUME NEW s \in Sessions, ResetSyntheticState(s)
      PROVE  Replying'
  <2>1. PICK x : x # << >> /\ iov' = [iov EXCEPT ![<<s, "handler">>] = x]
    BY <1>1, WriterOf, ImportPacket, BeginTypes DEF ResetSyntheticState
  <2>2. iov'[<<s, "handler">>] # << >>
    BY <1>0, <2>1, WriterOf
  <2>3. \A t \in Sessions : t # s => iov'[<<t, "handler">>] = iov[<<t, "handler">>] /\ hpc'[t] = hpc[t]
    BY <1>0, <1>1, <2>1, WriterOf DEF ResetSyntheticState, HandlerGoes
  <2> QED  BY <2>2, <2>3 DEF Replying
<1>2. ASSUME NEW s \in Sessions, SendImport(s)
      PROVE  Replying'
  <2>0. iov[<<s, "handler">>] # << >>
    BY <1>2 DEF SendImport, Replying
  <2>1. PICK x : iov' = [iov EXCEPT ![<<s, "handler">>] = x]
    BY <1>2, <2>0, WriterOf, TakesStep DEF SendImport, Socket!SendFails
  <2>2. hpc'[s] = "reply" => iov'[<<s, "handler">>] # << >>
    BY <1>0, <1>2 DEF SendImport
  <2>3. \A t \in Sessions : t # s => iov'[<<t, "handler">>] = iov[<<t, "handler">>] /\ hpc'[t] = hpc[t]
    BY <1>0, <1>2, <2>1, WriterOf DEF SendImport
  <2> QED  BY <2>2, <2>3 DEF Replying
<1>3. ASSUME NEW s \in Sessions, UNCHANGED hpc, NEW x, iov' = [iov EXCEPT ![<<s, "tx">>] = x]
      PROVE  Replying'
  BY <1>0, <1>3, WriterOf DEF Replying
<1>4. ASSUME NEW s \in Sessions, TxTake(s) \/ TxSend(s) \/ TxFails(s) \/ (Translate(s) /\ ~UNCHANGED iov)
      PROVE  Replying'
  <2>1. UNCHANGED hpc
    BY <1>4 DEF TxTake, TxSend, TxFails, Translate
  <2>2. \E x : iov' = [iov EXCEPT ![<<s, "tx">>] = x]
    BY <1>4, WriterOf, TakesStep
    DEF TxTake, TxSend, TxFails, Translate, Socket!Begin, Socket!SendFails
  <2> QED  BY <1>3, <2>1, <2>2
<1>5. ASSUME NEW s \in Sessions, Translate(s), UNCHANGED iov
      PROVE  Replying'
  BY <1>5 DEF Translate, Replying
<1>6. CASE UNCHANGED socketVars
  <2>0. ASSUME NEW s \in Sessions, NEW t \in Sessions, hpc'[t] = "reply",
               SubmitElsewhere(s) \/ \E req \in Requests : ControlSubmit(s, req)
        PROVE  hpc[t] = "reply"
    BY <1>0, <2>0 DEF SubmitElsewhere, ControlSubmit, Recv, AfterData, HandlerGoes
  <2>1. ASSUME NEW t \in Sessions, hpc'[t] = "reply", ~ResetSyntheticState(t)
        PROVE  hpc[t] = "reply" \/ \E s \in Sessions : ResetSyntheticState(s)
    BY <1>0, <2>0, <2>1
    DEF Next, vars, UiPush, HandleSyntheticSubmit, Handle, Leave, Transmit, TxFails, RecvUnlink,
        Recv, HandlerGoes, SendImport, LoopTest, Activate, TxTake, TxIdle, TxExit, TxSend,
        PollParked, PollPop, Unpark, Translate, Repark
  <2> QED  BY <1>1, <1>6, <2>1 DEF socketVars, Replying
<1> QED  BY <1>1, <1>2, <1>4, <1>5, <1>6, SocketQuiet DEF SocketStep

LEMMA InitTypes == Init => TypeInv
<1> SUFFICES ASSUME Init PROVE TypeInv
  OBVIOUS
<1>1. RingTypes
  <2>1. 0 \in Ring!Slots
    BY RingAssumption DEF Ring!Slots
  <2>2. << >> \in Seq(Events)
    BY EmptySeq
  <2> QED  BY <2>1, <2>2 DEF Init, Ring!Init, RingTypes, Ring!TypeOK
<1>2. SocketTypes
  <2>1. << >> \in Seq(Bytes) /\ << >> \in Leftovers
    BY EmptySeq DEF Leftovers
  <2> QED  BY <2>1 DEF Init, Socket!Init, SocketTypes
<1>3. SessionTypes
  <2>1. << >> \in Seq(Packets) /\ << >> \in Seq(Commands) /\ << >> \in Seq(Events \cup {NoEvent})
        /\ Len(<< >>) = 0 /\ 0 <= MaxSeqs
    BY EmptySeq, BoundAssumption
  <2> QED  BY <2>1 DEF Init, SessionTypes, HandlerStates, TxStates
<1>4. Replying
  BY DEF Init, Replying
<1> QED  BY <1>1, <1>2, <1>3, <1>4 DEF TypeInv

LEMMA NextTypes ==
  ASSUME TypeInv, [Next]_vars
  PROVE  TypeInv'
BY RingTypesNext, SocketTypesNext, SessionTypesNext, ReplyingNext DEF TypeInv

LEMMA TypesOK == TypeInv => TypeOK
<1> SUFFICES ASSUME TypeInv PROVE TypeOK
  OBVIOUS
<1> USE DEF TypeInv
<1>1. ASSUME NEW w \in Socket!Writers
      PROVE  Socket!ToSet(Socket!Data(iov[w])) \subseteq Bytes /\ Len(iov[w]) <= 2
  <2>1. CASE iov[w] = << >>
    <3>1. [i \in DOMAIN << >> |-> Socket!Bytes(<< >>[i])] = << >>
      OBVIOUS
    <3>2. Socket!Data(iov[w]) = << >>
      BY <2>1, <3>1, FlattenNone DEF Socket!Data
    <3>3. Len(<< >>) <= 2 /\ DOMAIN << >> = {}
      OBVIOUS
    <3> QED  BY <2>1, <3>2, <3>3 DEF Socket!ToSet
  <2>2. CASE iov[w] # << >>
    <3>1. PICK p \in Packets, n \in Nat : n < Socket!Length(p) /\ iov[w] = Rest(p, n)
      BY <2>2, LeftOf
    <3> DEFINE k == Socket!Length(p) - n
               q == Run(p, n, k)
    <3>2. k \in Nat
      BY <3>1, PacketLength
    <3>3. Socket!Data(iov[w]) = q
      BY <3>1, DataOfRest
    <3>4. q \in Seq(Bytes)
      <4> HIDE DEF k
      <4>1. << >> \in Seq(Bytes)
        BY EmptySeq
      <4> QED  BY <3>2, <4>1, RunBytes
    <3> HIDE DEF q
    <3>5. \A i \in DOMAIN q : q[i] \in Bytes
      BY <3>4, LenProperties, ElementOfSeq
    <3>6. Len(iov[w]) <= 2
      BY <3>1, RestSome
    <3> QED  BY <3>3, <3>5, <3>6 DEF Socket!ToSet
  <2> QED  BY <2>1, <2>2
<1>2. Socket!TypeOK(Packets)
  BY <1>1 DEF SocketTypes, Socket!TypeOK, Bytes
<1> QED  BY <1>2 DEF RingTypes, SessionTypes, HandlerStates, TxStates, TypeOK

\* The invariant the other proofs rest on: in any number of sessions every writer has left
\* the rest of one packet, or nothing.
THEOREM Types == Spec => []TypeInv
<1>1. Init => TypeInv
  BY InitTypes
<1>2. TypeInv /\ [Next]_vars => TypeInv'
  BY NextTypes
<1> QED  BY <1>1, <1>2, PTL DEF Spec

\* For every number of sessions, capacity, packet length and bound, the device, its ring
\* and its sockets stay well formed, however the system calls split the packets.
THEOREM TypeCorrect == Spec => []TypeOK
BY Types, TypesOK, PTL

-----------------------------------------------------------------------------
(* Whole packets *)

\* One session at a time uses the device.
OneClient == \A s, t \in Synthetic : s = t

\* The import of s has been answered; the handlers of other devices have no part in this.
Past(s) == hpc[s] \notin {"import", "reply"}
Reporting == {"pop", "unpark", "translate", "repark", "send_report"}

\* A handler writes before its TX thread has anything to write.
TurnTaking ==
  /\ \A s \in Sessions \ Synthetic : hpc[s] = "other"
  /\ \A s \in Sessions : tx_queue[s] # << >> \/ tpc[s] = "send" => Past(s)
  /\ isActive \/ (\E s \in Sessions : tpc[s] \in Reporting) => \A s \in Sessions : Past(s)
  /\ \A s \in Sessions : iov[<<s, "handler">>] # << >> => hpc[s] = "reply"
  /\ \A s \in Sessions : iov[<<s, "tx">>] # << >> => tpc[s] \in {"send", "send_report"}

LastByte(q) == q[Len(q)]
Ended(q) == q # << >> => LastByte(q).n = Socket!Length(LastByte(q).pkt)

\* What is left in v continues the bytes q.
Continues(q, v) ==
  IF Head(v).from = 1 THEN Ended(q)
  ELSE q # << >> /\ LastByte(q) = [pkt |-> Head(v).pkt, n |-> Head(v).from - 1]

\* Unless the socket is broken: between packets, or where a writer will go on.
Framed == \A s \in Sessions \ broken :
  /\ iov[<<s, "handler">>] = << >> /\ iov[<<s, "tx">>] = << >> => Ended(wire[s])
  /\ \A a \in {"handler", "tx"} : iov[<<s, a>>] # << >> => Continues(wire[s], iov[<<s, a>>])

FrameInv == TypeInv /\ TurnTaking /\ Framed /\ Socket!Whole

LEMMA PastStays ==
  ASSUME TypeInv, TurnTaking, [Next]_vars, NEW s \in Sessions, Past(s)
  PROVE  Past(s)'
<1> SUFFICES ASSUME hpc' # hpc PROVE Past(s)'
  BY DEF Past
<1> HIDE DEF Past
<1>0. hpc \in [Sessions -> HandlerStates]
  BY DEF TypeInv, SessionTypes
<1>1. ASSUME NEW t \in Sessions, ResetSyntheticState(t)
      PROVE  Past(s)'
  BY <1>0, <1>1 DEF ResetSyntheticState, HandlerGoes, Past
<1>2. ASSUME NEW t \in Sessions, SendImport(t)
      PROVE  Past(s)'
  BY <1>0, <1>2 DEF SendImport, Past
<1>3. ASSUME NEW t \in Sessions, LoopTest(t) \/ Activate(t) \/ Leave(t)
      PROVE  Past(s)'
  BY <1>0, <1>3 DEF LoopTest, Activate, Leave, HandlerGoes, Past
<1>4. ASSUME NEW t \in Sessions, HandleSyntheticSubmit(t)
      PROVE  Past(s)'
  BY <1>0, <1>4 DEF HandleSyntheticSubmit, Recv, HandlerGoes, Past
<1>5. ASSUME NEW t \in Sessions, NEW req \in Requests, ControlSubmit(t, req)
      PROVE  Past(s)'
  BY <1>0, <1>5 DEF ControlSubmit, AfterData, Recv, HandlerGoes, Past
<1>6. ASSUME NEW t \in Sessions, NEW u \in Seqnums, RecvUnlink(t, u)
      PROVE  Past(s)'
  BY <1>0, <1>6 DEF RecvUnlink, Recv, HandlerGoes, Past
<1>9. ASSUME NEW t \in Sessions, SubmitElsewhere(t)
      PROVE  Past(s)'
  BY <1>0, <1>9 DEF SubmitElsewhere, AfterData, Recv, HandlerGoes, Past
<1>7. ASSUME NEW t \in Sessions, Transmit(t) \/ TxFails(t)
      PROVE  hpc' = hpc
  BY <1>7 DEF Transmit, TxFails, TxTake, TxIdle, TxExit, TxSend, PollParked, PollPop, Unpark,
              Translate, Repark
<1>8. UiPush \/ UNCHANGED vars => hpc' = hpc
  BY DEF UiPush, vars
<1> QED  BY <1>1, <1>2, <1>3, <1>4, <1>5, <1>6, <1>7, <1>8, <1>9 DEF Next, Handle

\* What a step does to the turns: whoever starts to write has its session past the import.
LEMMA HandlerTurns ==
  ASSUME TypeInv, TurnTaking, OneClient, NEW s \in Sessions,
         \/ ResetSyntheticState(s) \/ HandleSyntheticSubmit(s) \/ Handle(s) \/ Leave(s)
         \/ SubmitElsewhere(s)
         \/ \E req \in Requests : ControlSubmit(s, req)
         \/ \E t \in Seqnums : RecvUnlink(s, t),
         \A t \in Sessions : Past(t) => Past(t)'
  PROVE  TurnTaking'
<1>0. /\ hpc \in [Sessions -> HandlerStates] /\ iov \in [Socket!Writers -> Leftovers]
      /\ tx_queue \in [Sessions -> Seq(Packets)] /\ tpc' = tpc
  BY DEF TypeInv, SessionTypes, SocketTypes, ResetSyntheticState, HandleSyntheticSubmit, Handle,
         SendImport, LoopTest, Activate, Leave, ControlSubmit, SubmitElsewhere, RecvUnlink
<1>1. CASE ResetSyntheticState(s)
  <2>1. s \in Synthetic /\ ~Past(s)
    BY <1>1 DEF ResetSyntheticState, HandlerGoes, TurnTaking, Past
  <2>2. ~\E t \in Sessions : tpc[t] \in Reporting
    BY <2>1 DEF TurnTaking
  <2>3. \A x : iov' = [iov EXCEPT ![<<s, "handler">>] = x] =>
          /\ \A t \in Sessions : t # s => iov'[<<t, "handler">>] = iov[<<t, "handler">>]
          /\ \A t \in Sessions : iov'[<<t, "tx">>] = iov[<<t, "tx">>]
    BY <1>0, WriterOf
  <2>4. \E x : iov' = [iov EXCEPT ![<<s, "handler">>] = x]
    BY <1>1 DEF ResetSyntheticState, Socket!Begin
  <2>5. /\ ~isActive' /\ tx_queue' = tx_queue /\ hpc'[s] = "reply"
        /\ \A t \in Sessions : t # s => hpc'[t] = hpc[t]
    BY <1>0, <1>1 DEF ResetSyntheticState, HandlerGoes, sessionVars
  <2> HIDE DEF Past
  <2> QED  BY <1>0, <2>1, <2>2, <2>3, <2>4, <2>5 DEF TurnTaking
<1>2. CASE SendImport(s)
  <2>1. \A x : iov' = [iov EXCEPT ![<<s, "handler">>] = x] =>
          /\ \A t \in Sessions : t # s => iov'[<<t, "handler">>] = iov[<<t, "handler">>]
          /\ \A t \in Sessions : iov'[<<t, "tx">>] = iov[<<t, "tx">>]
    BY <1>0, WriterOf
  <2>2. \E x : iov' = [iov EXCEPT ![<<s, "handler">>] = x]
    BY <1>2, WriterOf, TakesStep DEF SendImport, Socket!SendFails, TypeInv, Replying
  <2>3. /\ UNCHANGED <<isActive, tx_queue>> /\ hpc[s] = "reply"
        /\ hpc'[s] = IF iov'[<<s, "handler">>] = << >> THEN "loop" ELSE "reply"
        /\ \A t \in Sessions : t # s => hpc'[t] = hpc[t]
    BY <1>0, <1>2 DEF SendImport, parkedVars, sessionVars
  <2> HIDE DEF Past
  <2> QED  BY <1>0, <2>1, <2>2, <2>3 DEF TurnTaking
<1>3. CASE LoopTest(s) \/ Leave(s)
  <2>1. /\ UNCHANGED <<isActive, tx_queue, iov>> /\ hpc[s] # "other" /\ hpc[s] # "reply"
        /\ \A t \in Sessions : t # s => hpc'[t] = hpc[t]
    BY <1>0, <1>3 DEF LoopTest, Leave, HandlerGoes, parkedVars, sessionVars, socketVars
  <2> HIDE DEF Past
  <2> QED  BY <1>0, <2>1 DEF TurnTaking
<1>4. CASE Activate(s)
  <2>1. /\ UNCHANGED <<tx_queue, iov>> /\ hpc[s] # "other" /\ hpc[s] # "reply" /\ Past(s)
        /\ \A t \in Sessions : t # s => hpc'[t] = hpc[t]
    BY <1>0, <1>4 DEF Activate, HandlerGoes, sessionVars, socketVars, Past
  <2>2. \A t \in Sessions : Past(t)
    BY <2>1 DEF TurnTaking, OneClient, Past
  <2> HIDE DEF Past
  <2> QED  BY <1>0, <2>1, <2>2 DEF TurnTaking
<1>5. ASSUME NEW cmd, NEW to, Recv(s, cmd, to), NEW pkt,
             UNCHANGED <<isActive, iov>>, tx_queue' = tx_queue \/ Enqueue(s, pkt)
      PROVE  TurnTaking'
  <2>1. /\ hpc[s] # "other" /\ hpc[s] # "reply" /\ Past(s)
        /\ \A t \in Sessions : t # s => hpc'[t] = hpc[t]
    BY <1>0, <1>5 DEF Recv, HandlerGoes, Past
  <2>2. \A t \in Sessions : t # s => tx_queue'[t] = tx_queue[t]
    BY <1>0, <1>5 DEF Enqueue
  <2> HIDE DEF Past
  <2> QED  BY <1>0, <1>5, <2>1, <2>2 DEF TurnTaking
<1>6. CASE HandleSyntheticSubmit(s)
  BY <1>5, <1>6 DEF HandleSyntheticSubmit, sessionVars, socketVars
<1>7. ASSUME NEW req \in Requests, ControlSubmit(s, req)
      PROVE  TurnTaking'
  BY <1>5, <1>7 DEF ControlSubmit, parkedVars, socketVars
<1>8. ASSUME NEW t \in Seqnums, RecvUnlink(s, t)
      PROVE  TurnTaking'
  BY <1>5, <1>8 DEF RecvUnlink, parkedVars, socketVars
<1>9. CASE SubmitElsewhere(s)
  BY <1>5, <1>9 DEF SubmitElsewhere, parkedVars, sessionVars, socketVars
<1> QED  BY <1>1, <1>2, <1>3, <1>4, <1>6, <1>7, <1>8, <1>9 DEF Handle

LEMMA TxTurns ==
  ASSUME TypeInv, TurnTaking, NEW s \in Sessions, Transmit(s) \/ TxFails(s),
         \A t \in Sessions : Past(t) => Past(t)'
  PROVE  TurnTaking'
<1>0. /\ tpc \in [Sessions -> TxStates] /\ iov \in [Socket!Writers -> Leftovers]
      /\ tx_queue \in [Sessions -> Seq(Packets)] /\ hpc' = hpc
  BY DEF TypeInv, SessionTypes, SocketTypes, Transmit, TxFails, TxTake, TxIdle, TxExit, TxSend,
         PollParked, PollPop, Unpark, Translate, Repark
<1>1. \A x : iov' = [iov EXCEPT ![<<s, "tx">>] = x] =>
        /\ \A t \in Sessions : t # s => iov'[<<t, "tx">>] = iov[<<t, "tx">>]
        /\ \A t \in Sessions : iov'[<<t, "handler">>] = iov[<<t, "handler">>]
  BY <1>0, WriterOf
<1>2. CASE TxTake(s)
  <2>1. \E x : iov' = [iov EXCEPT ![<<s, "tx">>] = x]
    BY <1>2 DEF TxTake, Socket!Begin
  <2>2. /\ isActive' = isActive /\ Past(s) /\ tpc'[s] = "send"
        /\ \A t \in Sessions : t # s => tpc'[t] = tpc[t] /\ tx_queue'[t] = tx_queue[t]
    BY <1>0, <1>2 DEF TxTake, TxGoes, parkedVars, TurnTaking
  <2> HIDE DEF Past
  <2> QED  BY <1>0, <1>1, <2>1, <2>2 DEF TurnTaking, Reporting
<1>3. CASE TxIdle(s) \/ TxExit(s)
  <2>1. /\ UNCHANGED <<isActive, iov>> /\ tpc'[s] \in {"poll", "done"}
        /\ tpc[s] = "idle"
        /\ \A t \in Sessions : tpc'[t] # tpc[t] => t = s
        /\ \A t \in Sessions : tx_queue'[t] # << >> => tx_queue[t] # << >>
    BY <1>0, <1>3 DEF TxIdle, TxExit, TxGoes, parkedVars, sessionVars, socketVars
  <2> HIDE DEF Past
  <2> QED  BY <1>0, <2>1 DEF TurnTaking, Reporting
<1>4. CASE TxSend(s)
  <2>1. \E x : iov' = [iov EXCEPT ![<<s, "tx">>] = x]
    BY <1>4, WriterOf, TakesStep DEF TxSend, TypeInv
  <2>2. /\ UNCHANGED <<isActive, tx_queue>> /\ tpc[s] \in {"send", "send_report"}
        /\ tpc'[s] \in {tpc[s], "poll", "idle"}
        /\ iov'[<<s, "tx">>] # << >> => tpc'[s] = tpc[s]
        /\ \A t \in Sessions : t # s => tpc'[t] = tpc[t]
    BY <1>0, <1>4 DEF TxSend, AfterSend, parkedVars, sessionVars
  <2> HIDE DEF Past
  <2> QED  BY <1>0, <1>1, <2>1, <2>2 DEF TurnTaking, Reporting
<1>5. CASE TxFails(s)
  <2>1. iov' = [iov EXCEPT ![<<s, "tx">>] = << >>]
    BY <1>5 DEF TxFails, Socket!SendFails
  <2>2. iov'[<<s, "tx">>] = << >>
    BY <1>0, <2>1, WriterOf
  <2>3. /\ UNCHANGED <<isActive, tx_queue>> /\ tpc'[s] \in {"poll", "idle"}
        /\ \A t \in Sessions : t # s => tpc'[t] = tpc[t]
    BY <1>0, <1>5 DEF TxFails, AfterSend, parkedVars, sessionVars
  <2> HIDE DEF Past
  <2> QED  BY <1>0, <1>1, <2>1, <2>2, <2>3 DEF TurnTaking, Reporting
<1>6. CASE PollParked(s) \/ PollPop(s) \/ Unpark(s) \/ Repark(s)
  <2>1. /\ UNCHANGED <<iov, tx_queue>> /\ tpc'[s] \notin {"send", "send_report"}
        /\ tpc[s] \notin {"send", "send_report"}
        /\ isActive' => isActive \/ tpc[s] \in Reporting
        /\ tpc'[s] \in Reporting => isActive \/ tpc[s] \in Reporting
        /\ \A t \in Sessions : t # s => tpc'[t] = tpc[t]
    BY <1>0, <1>6 DEF PollParked, PollPop, Unpark, Repark, TxGoes, parkedVars, sessionVars,
                      socketVars, Reporting
  <2> HIDE DEF Past, Reporting
  <2> QED  BY <1>0, <2>1 DEF TurnTaking
<1>7. CASE Translate(s)
  <2>1. \/ UNCHANGED iov /\ tpc'[s] = "repark"
        \/ (\E x : iov' = [iov EXCEPT ![<<s, "tx">>] = x]) /\ tpc'[s] = "send_report"
    <3>1. CASE TxGoes(s, "translate", "repark") /\ UNCHANGED iov
      <4>1. tpc'[s] = "repark"
        BY <1>0, <3>1 DEF TxGoes
      <4>2. UNCHANGED iov
        BY <3>1
      <4> QED  BY <4>1, <4>2
    <3>2. CASE TxGoes(s, "translate", "send_report")
               /\ Socket!Begin(<<s, "tx">>, Packet("RET_SUBMIT", seqnum, 0, ReportLen))
      BY <1>0, <3>2 DEF TxGoes, Socket!Begin
    <3> QED  BY <1>7, <3>1, <3>2 DEF Translate
  <2>2. /\ UNCHANGED <<isActive, tx_queue>> /\ tpc[s] = "translate"
        /\ \A t \in Sessions : t # s => tpc'[t] = tpc[t]
    BY <1>0, <1>7 DEF Translate, TxGoes, parkedVars, sessionVars
  <2> HIDE DEF Past
  <2> QED  BY <1>0, <1>1, <2>1, <2>2 DEF TurnTaking, Reporting
<1> QED  BY <1>2, <1>3, <1>4, <1>5, <1>6, <1>7 DEF Transmit

LEMMA NextTurns ==
  ASSUME TypeInv, TurnTaking, OneClient, [Next]_vars
  PROVE  TurnTaking'
<1>1. \A t \in Sessions : Past(t) => Past(t)'
  BY PastStays
<1>2. CASE UiPush \/ UNCHANGED vars
  BY <1>2 DEF UiPush, vars, TurnTaking, Past, socketVars, parkedVars, sessionVars
<1> QED  BY <1>1, <1>2, HandlerTurns, TxTurns DEF Next

LEMMA InitTurns == Init => TurnTaking /\ Framed /\ Socket!Whole
<1> SUFFICES ASSUME Init PROVE TurnTaking /\ Framed /\ Socket!Whole
  OBVIOUS
<1>1. TurnTaking
  BY WriterOf DEF Init, Socket!Init, TurnTaking, Reporting
<1>2. Framed
  BY WriterOf DEF Init, Socket!Init, Framed, Ended, Socket!Writers
<1>3. Socket!Whole
  BY DEF Init, Socket!Init, Socket!Whole
<1> QED  BY <1>1, <1>2, <1>3

\* Whether the bytes q of one socket are whole, as far as they go.
WholeUpTo(q) ==
  \A i \in DOMAIN q :
    IF q[i].n = 1 THEN i = 1 \/ q[i - 1].n = Socket!Length(q[i - 1].pkt)
    ELSE i > 1 /\ q[i - 1] = [pkt |-> q[i].pkt, n |-> q[i].n - 1]

LEMMA WholeByWire == Socket!Whole <=> \A s \in Sessions : WholeUpTo(wire[s])
BY DEF Socket!Whole, WholeUpTo

\* Bytes that continue q leave it whole, and end as far as the packet goes.
LEMMA RunContinues ==
  ASSUME NEW q \in Seq(Bytes), NEW p \in Packets, NEW n \in Nat, n < Socket!Length(p),
         NEW k \in 1..(Socket!Length(p) - n), WholeUpTo(q), Continues(q, Rest(p, n))
  PROVE  LET r == q \o Run(p, n, k)
         IN /\ WholeUpTo(r)
            /\ IF Rest(p, n + k) = << >> THEN Ended(r) ELSE Continues(r, Rest(p, n + k))
<1> DEFINE r == q \o Run(p, n, k)
           L == Socket!Length(p)
<1>0. L \in Nat /\ k \in Nat /\ k >= 1 /\ n + k <= L /\ n + k \in Nat /\ Len(q) \in Nat
      /\ DOMAIN q = 1..Len(q)
  BY PacketLength, LenProperties
<1>1. /\ r \in Seq(Bytes) /\ Len(r) = Len(q) + k /\ DOMAIN r = 1..(Len(q) + k)
      /\ \A i \in 1..(Len(q) + k) :
           r[i] = IF i <= Len(q) THEN q[i] ELSE [pkt |-> p, n |-> n + (i - Len(q))]
  <2>0. k \in Nat
    BY <1>0
  <2>1. /\ r \in Seq(Bytes) /\ Len(r) = Len(q) + k
        /\ \A i \in 1..(Len(q) + k) :
             r[i] = IF i <= Len(q) THEN q[i] ELSE [pkt |-> p, n |-> n + (i - Len(q))]
    BY <2>0, RunBytes
  <2> HIDE DEF r
  <2>2. DOMAIN r = 1..Len(r)
    BY <2>1, LenProperties
  <2> QED  BY <2>1, <2>2
<1>2. IF n = 0 THEN Ended(q) ELSE q # << >> /\ LastByte(q) = [pkt |-> p, n |-> n]
  <2>1. Head(Rest(p, n)).pkt = p /\ Head(Rest(p, n)).from = n + 1
    BY RestSome
  <2>2. (n + 1 = 1) = (n = 0) /\ n + 1 - 1 = n
    OBVIOUS
  <2> QED  BY <2>1, <2>2 DEF Continues
<1> HIDE DEF r
<1>3. WholeUpTo(r)
  <2> SUFFICES ASSUME NEW i \in 1..(Len(q) + k)
               PROVE  IF r[i].n = 1 THEN i = 1 \/ r[i - 1].n = Socket!Length(r[i - 1].pkt)
                      ELSE i > 1 /\ r[i - 1] = [pkt |-> r[i].pkt, n |-> r[i].n - 1]
    BY <1>1 DEF WholeUpTo
  <2>1. CASE i <= Len(q)
    <3>1. i \in DOMAIN q /\ r[i] = q[i] /\ (i # 1 => i - 1 \in 1..(Len(q) + k) /\ r[i - 1] = q[i - 1])
      BY <1>0, <1>1, <2>1
    <3>2. IF q[i].n = 1 THEN i = 1 \/ q[i - 1].n = Socket!Length(q[i - 1].pkt)
          ELSE i > 1 /\ q[i - 1] = [pkt |-> q[i].pkt, n |-> q[i].n - 1]
      BY <3>1 DEF WholeUpTo
    <3>3. i > 1 => i # 1
      OBVIOUS
    <3> HIDE DEF L
    <3> QED  BY <3>1, <3>2, <3>3
  <2>2. CASE i = Len(q) + 1
    <3>1. r[i] = [pkt |-> p, n |-> n + 1]
      BY <1>0, <1>1, <2>2
    <3>2. q # << >> => Len(q) # 0 /\ i - 1 = Len(q) /\ r[i - 1] = LastByte(q) /\ i > 1
      BY <1>0, <1>1, <2>2, EmptySeq DEF LastByte
    <3>3. q = << >> => i = 1
      BY <2>2, EmptySeq
    <3>4. CASE n = 0
      <4>1. r[i].n = 1
        BY <3>1, <3>4
      <4> QED  BY <1>2, <3>2, <3>3, <3>4, <4>1 DEF Ended
    <3>5. CASE n # 0
      <4>1. r[i].n # 1 /\ r[i].pkt = p /\ r[i].n - 1 = n
        BY <3>1, <3>5
      <4> QED  BY <1>2, <3>2, <3>5, <4>1
    <3> QED  BY <3>4, <3>5
  <2>3. CASE i > Len(q) + 1
    <3>1. /\ r[i] = [pkt |-> p, n |-> n + (i - Len(q))]
          /\ r[i - 1] = [pkt |-> p, n |-> n + (i - 1 - Len(q))]
          /\ n + (i - Len(q)) # 1 /\ n + (i - 1 - Len(q)) = n + (i - Len(q)) - 1 /\ i > 1
      <4> DEFINE m == Len(q)
      <4>1. /\ m \in Nat /\ i \in Int /\ i > m + 1 /\ i \in 1..(m + k) /\ i - 1 \in 1..(m + k)
            /\ ~(i <= m) /\ ~(i - 1 <= m)
        BY <1>0, <2>3
      <4>2. /\ r[i] = [pkt |-> p, n |-> n + (i - m)]
            /\ r[i - 1] = [pkt |-> p, n |-> n + (i - 1 - m)]
        <5> HIDE DEF L
        <5> QED  BY <1>1, <4>1
      <4>3. n + (i - m) # 1 /\ n + (i - 1 - m) = n + (i - m) - 1 /\ i > 1
        <5> HIDE DEF m, L
        <5> QED  BY <4>1
      <4> QED  BY <4>2, <4>3
    <3> QED  BY <3>1
  <2> QED  BY <1>0, <2>1, <2>2, <2>3
<1>4. r # << >> /\ LastByte(r) = [pkt |-> p, n |-> n + k]
  <2>1. Len(q) + k \in 1..(Len(q) + k) /\ ~(Len(q) + k <= Len(q)) /\ Len(q) + k - Len(q) = k
        /\ Len(q) + k # 0
    BY <1>0
  <2> QED  BY <1>1, <2>1, EmptySeq DEF LastByte
<1>5. CASE n + k < L
  <2>1. /\ Rest(p, n + k) # << >> /\ Head(Rest(p, n + k)).pkt = p
        /\ Head(Rest(p, n + k)).from = n + k + 1
    BY <1>0, <1>5, RestSome
  <2>2. n + k + 1 # 1 /\ n + k + 1 - 1 = n + k
    BY <1>0
  <2> QED  BY <1>3, <1>4, <2>1, <2>2 DEF Continues, r
<1>6. CASE ~(n + k < L)
  <2>1. Rest(p, n + k) = << >>
    BY <1>0, <1>6, RestNone
  <2>2. n + k = L
    BY <1>0, <1>6
  <2>3. Ended(r)
    BY <1>4, <2>2 DEF Ended
  <2> QED  BY <1>3, <2>1, <2>3 DEF r
<1> QED  BY <1>5, <1>6

LEMMA TurnsExclude ==
  ASSUME TurnTaking, NEW s \in Sessions
  PROVE  iov[<<s, "handler">>] = << >> \/ iov[<<s, "tx">>] = << >>
BY DEF TurnTaking, Past, Reporting

\* The steps on one socket.
LEMMA TakesFramed ==
  ASSUME FrameInv, NEW s \in Sessions, NEW a \in {"handler", "tx"},
         Socket!SendMsg(<<s, a>>) \/ (iov[<<s, a>>] # << >> /\ Socket!Send(<<s, a>>))
  PROVE  Framed' /\ Socket!Whole'
<1> USE DEF FrameInv, TypeInv
<1> DEFINE w == <<s, a>>
<1>0. /\ wire \in [Sessions -> Seq(Bytes)] /\ iov \in [Socket!Writers -> Leftovers]
      /\ w \in Socket!Writers /\ w[1] = s
      /\ \A t \in Sessions, b \in {"handler", "tx"} : <<t, b>> \in Socket!Writers
      /\ \A t \in Sessions, b \in {"handler", "tx"} : t # s \/ b # a => <<t, b>> # w
  BY DEF SocketTypes, Socket!Writers
<1>1. PICK p \in Packets, n \in Nat : \E k \in 1..(Socket!Length(p) - n) :
        /\ n < Socket!Length(p) /\ iov[w] = Rest(p, n)
        /\ w[1] \notin broken
        /\ wire' = [wire EXCEPT ![w[1]] = @ \o Run(p, n, k)]
        /\ iov' = [iov EXCEPT ![w] = Rest(p, n + k)]
        /\ broken' = broken
  BY <1>0, TakesStep
<1>2. PICK k \in 1..(Socket!Length(p) - n) :
        /\ wire' = [wire EXCEPT ![s] = @ \o Run(p, n, k)]
        /\ iov' = [iov EXCEPT ![w] = Rest(p, n + k)]
  BY <1>0, <1>1
<1>3. n < Socket!Length(p) /\ iov[w] = Rest(p, n) /\ s \notin broken /\ broken' = broken
  BY <1>0, <1>1
<1>4. iov[w] # << >>
  BY <1>3, RestSome
<1>5. Continues(wire[s], Rest(p, n)) /\ WholeUpTo(wire[s])
  BY <1>3, <1>4, WholeByWire DEF Framed
<1> DEFINE r == wire[s] \o Run(p, n, k)
<1>6. /\ WholeUpTo(r)
      /\ IF Rest(p, n + k) = << >> THEN Ended(r) ELSE Continues(r, Rest(p, n + k))
  BY <1>0, <1>3, <1>5, RunContinues
<1>7. wire'[s] = r /\ iov'[w] = Rest(p, n + k)
  BY <1>0, <1>2
<1>8. \A t \in Sessions : t # s => wire'[t] = wire[t]
  BY <1>0, <1>2
<1>9. \A t \in Sessions, b \in {"handler", "tx"} : t # s \/ b # a => iov'[<<t, b>>] = iov[<<t, b>>]
  BY <1>0, <1>2
<1>10. \A b \in {"handler", "tx"} : b # a => iov[<<s, b>>] = << >>
  BY <1>4, TurnsExclude
<1> HIDE DEF w, r
<1>11. \A t \in Sessions : WholeUpTo(wire'[t])
  <2> HIDE DEF WholeUpTo
  <2> QED  BY <1>6, <1>7, <1>8, WholeByWire
<1>12. Framed'
  <2> SUFFICES ASSUME NEW t \in Sessions, t \notin broken
               PROVE  /\ iov'[<<t, "handler">>] = << >> /\ iov'[<<t, "tx">>] = << >> => Ended(wire'[t])
                      /\ \A b \in {"handler", "tx"} :
                           iov'[<<t, b>>] # << >> => Continues(wire'[t], iov'[<<t, b>>])
    BY <1>3 DEF Framed, Ended, Continues, LastByte
  <2>1. CASE t # s
    BY <1>8, <1>9, <2>1 DEF Framed
  <2>2. CASE t = s
    <3>1. \A b \in {"handler", "tx"} : b # a => iov'[<<s, b>>] = << >>
      BY <1>9, <1>10
    <3> QED  BY <1>6, <1>7, <2>2, <3>1 DEF w
  <2> QED  BY <2>1, <2>2
<1> QED  BY <1>11, <1>12 DEF WholeUpTo, Socket!Whole

LEMMA BeginFramed ==
  ASSUME FrameInv, NEW s \in Sessions, NEW a \in {"handler", "tx"}, NEW p \in Packets,
         \A b \in {"handler", "tx"} : iov[<<s, b>>] = << >>,
         Socket!Begin(<<s, a>>, p), UNCHANGED <<wire, broken>>
  PROVE  Framed' /\ Socket!Whole'
<1> USE DEF FrameInv, TypeInv
<1>0. /\ iov \in [Socket!Writers -> Leftovers]
      /\ \A t \in Sessions, b \in {"handler", "tx"} : <<t, b>> \in Socket!Writers
      /\ \A t \in Sessions, b \in {"handler", "tx"} : t # s \/ b # a => <<t, b>> # <<s, a>>
  BY DEF SocketTypes, Socket!Writers
<1>1. iov' = [iov EXCEPT ![<<s, a>>] = Rest(p, 0)]
  BY <1>0, BeginTypes
<1>2. \A t \in Sessions, b \in {"handler", "tx"} : t # s \/ b # a => iov'[<<t, b>>] = iov[<<t, b>>]
  BY <1>0, <1>1
<1>3. iov'[<<s, a>>] = Rest(p, 0) /\ Rest(p, 0) # << >> /\ Head(Rest(p, 0)).from = 1
  <2>1. 0 \in Nat /\ 0 < Socket!Length(p) /\ 0 + 1 = 1
    BY PacketLength
  <2>2. Head(Rest(p, 0)).from = 0 + 1 /\ Rest(p, 0) # << >>
    BY <2>1, RestSome
  <2> QED  BY <1>0, <1>1, <2>1, <2>2
<1>4. Framed'
  <2> SUFFICES ASSUME NEW t \in Sessions, t \notin broken
               PROVE  /\ iov'[<<t, "handler">>] = << >> /\ iov'[<<t, "tx">>] = << >> => Ended(wire[t])
                      /\ \A b \in {"handler", "tx"} :
                           iov'[<<t, b>>] # << >> => Continues(wire[t], iov'[<<t, b>>])
    BY DEF Framed, Ended, Continues, LastByte
  <2>1. CASE t # s
    BY <1>2, <2>1 DEF Framed
  <2>2. CASE t = s
    <3>1. Ended(wire[s])
      BY <2>2 DEF Framed
    <3>2. \A b \in {"handler", "tx"} : b # a => iov'[<<s, b>>] = << >>
      BY <1>2
    <3>3. Continues(wire[s], Rest(p, 0))
      BY <1>3, <3>1 DEF Continues
    <3> QED  BY <1>3, <2>2, <3>1, <3>2, <3>3
  <2> QED  BY <2>1, <2>2
<1> QED  BY <1>4 DEF Socket!Whole

LEMMA FailsFramed ==
  ASSUME FrameInv, NEW s \in Sessions, NEW a \in {"handler", "tx"}, Socket!SendFails(<<s, a>>)
  PROVE  Framed' /\ Socket!Whole'
<1> USE DEF FrameInv, TypeInv
<1>0. /\ iov \in [Socket!Writers -> Leftovers]
      /\ \A t \in Sessions, b \in {"handler", "tx"} : <<t, b>> \in Socket!Writers
      /\ \A t \in Sessions, b \in {"handler", "tx"} : t # s => <<t, b>> # <<s, a>>
      /\ <<s, a>>[1] = s
  BY DEF SocketTypes, Socket!Writers
<1>1. /\ wire' = wire /\ broken' = broken \cup {s}
      /\ \A t \in Sessions, b \in {"handler", "tx"} : t # s => iov'[<<t, b>>] = iov[<<t, b>>]
  BY <1>0 DEF Socket!SendFails
<1>2. Framed'
  <2> SUFFICES ASSUME NEW t \in Sessions, t \notin broken, t # s
               PROVE  /\ iov'[<<t, "handler">>] = << >> /\ iov'[<<t, "tx">>] = << >> => Ended(wire[t])
                      /\ \A b \in {"handler", "tx"} :
                           iov'[<<t, b>>] # << >> => Continues(wire[t], iov'[<<t, b>>])
    BY <1>1 DEF Framed, Ended, Continues, LastByte
  <2>1. \A b \in {"handler", "tx"} : iov'[<<t, b>>] = iov[<<t, b>>]
    BY <1>1
  <2> QED  BY <2>1 DEF Framed
<1> QED  BY <1>1, <1>2 DEF Socket!Whole

LEMMA NextFramed ==
  ASSUME FrameInv, OneClient, [Next]_vars
  PROVE  Framed' /\ Socket!Whole'
<1>1. ASSUME NEW s \in Sessions, ResetSyntheticState(s)
      PROVE  Framed' /\ Socket!Whole'
  <2>1. \A b \in {"handler", "tx"} : iov[<<s, b>>] = << >>
    BY <1>1 DEF FrameInv, TurnTaking, Past, ResetSyntheticState, HandlerGoes, Reporting
  <2>2. Socket!Begin(<<s, "handler">>, Packet("REP_IMPORT", NoSeq, 0, HeaderLen))
        /\ UNCHANGED <<wire, broken>>
    BY <1>1 DEF ResetSyntheticState
  <2> QED  BY <2>1, <2>2, ImportPacket, BeginFramed
<1>2. ASSUME NEW s \in Sessions, SendImport(s)
      PROVE  Framed' /\ Socket!Whole'
  <2>1. iov[<<s, "handler">>] # << >>
    BY <1>2 DEF SendImport, FrameInv, TypeInv, Replying
  <2> QED  BY <1>2, <2>1, TakesFramed, FailsFramed DEF SendImport
<1>3. ASSUME NEW s \in Sessions, TxTake(s)
      PROVE  Framed' /\ Socket!Whole'
  <2>1. \A b \in {"handler", "tx"} : iov[<<s, b>>] = << >>
    BY <1>3 DEF FrameInv, TurnTaking, Past, TxTake, TxGoes
  <2>2. Head(tx_queue[s]) \in Packets
    BY <1>3, QueueHead DEF TxTake, FrameInv, TypeInv
  <2>3. Socket!Begin(<<s, "tx">>, Head(tx_queue[s])) /\ UNCHANGED <<wire, broken>>
    BY <1>3 DEF TxTake
  <2> QED  BY <2>1, <2>2, <2>3, BeginFramed
<1>4. ASSUME NEW s \in Sessions, TxSend(s)
      PROVE  Framed' /\ Socket!Whole'
  BY <1>4, TakesFramed DEF TxSend
<1>5. ASSUME NEW s \in Sessions, TxFails(s)
      PROVE  Framed' /\ Socket!Whole'
  BY <1>5, FailsFramed DEF TxFails
<1>6. ASSUME NEW s \in Sessions, Translate(s)
      PROVE  Framed' /\ Socket!Whole'
  <2>1. CASE UNCHANGED iov
    BY <1>6, <2>1 DEF Translate, FrameInv, Framed, Ended, Continues, LastByte, Socket!Whole
  <2>2. CASE Socket!Begin(<<s, "tx">>, Packet("RET_SUBMIT", seqnum, 0, ReportLen))
    <3>1. \A b \in {"handler", "tx"} : iov[<<s, b>>] = << >>
      BY <1>6 DEF FrameInv, TurnTaking, Past, Translate, TxGoes, Reporting
    <3>2. UNCHANGED <<wire, broken>> /\ SessionTypes
      BY <1>6 DEF Translate, FrameInv, TypeInv
    <3> QED  BY <2>2, <3>1, <3>2, ReportPacket, BeginFramed
  <2> QED  BY <1>6, <2>1, <2>2 DEF Translate
<1>7. CASE UNCHANGED socketVars
  BY <1>7 DEF socketVars, FrameInv, Framed, Ended, Continues, LastByte, Socket!Whole
<1> QED  BY <1>1, <1>2, <1>3, <1>4, <1>5, <1>6, <1>7, SocketQuiet DEF SocketStep

\* While one session at a time uses the device, for any number of sessions and any length
\* of packets, what a client receives is whole packets: no partial write skips or repeats a
\* byte, and the two writers of a socket never cut into each other's packet.
THEOREM PacketsWhole == OneClient => (Spec => []WholePackets)
<1> SUFFICES ASSUME OneClient PROVE Spec => []WholePackets
  OBVIOUS
<1>1. Init => FrameInv
  BY InitTypes, InitTurns DEF FrameInv
<1>2. FrameInv /\ [Next]_vars => FrameInv'
  <2> SUFFICES ASSUME FrameInv, [Next]_vars PROVE FrameInv'
    OBVIOUS
  <2>1. TypeInv' /\ TurnTaking'
    BY NextTypes, NextTurns DEF FrameInv
  <2> QED  BY <2>1, NextFramed DEF FrameInv
<1>3. FrameInv => WholePackets
  BY DEF FrameInv, WholePackets
<1> QED  BY <1>1, <1>2, <1>3, PTL DEF Spec

-----------------------------------------------------------------------------
(* Reports in order *)

\* The positions up to m of the events in q that the translator knows.
KnownIn(q, m) == {i \in 1..m : q[i] \notin Unknown}
Rank(q, m) == Cardinality(KnownIn(q, m))

LEMMA RankType ==
  ASSUME NEW q, NEW m \in Nat
  PROVE  IsFiniteSet(KnownIn(q, m)) /\ Rank(q, m) \in Nat
<1>1. IsFiniteSet(1..m)
  BY FS_Interval
<1>2. KnownIn(q, m) \in SUBSET (1..m)
  BY DEF KnownIn
<1>3. IsFiniteSet(KnownIn(q, m))
  BY <1>1, <1>2, FS_Subset
<1> QED  BY <1>3, FS_CardinalityType DEF Rank

LEMMA RankMonotonic ==
  ASSUME NEW q, NEW m \in Nat, NEW i \in 0..m
  PROVE  Rank(q, i) <= Rank(q, m)
<1>1. KnownIn(q, i) \in SUBSET KnownIn(q, m)
  BY DEF KnownIn
<1> QED  BY <1>1, RankType, FS_Subset DEF Rank

LEMMA RankNext ==
  ASSUME NEW q, NEW m \in Nat
  PROVE  /\ q[m + 1] \in Unknown => KnownIn(q, m + 1) = KnownIn(q, m)
         /\ q[m + 1] \notin Unknown => /\ KnownIn(q, m + 1) = KnownIn(q, m) \cup {m + 1}
                                       /\ Rank(q, m + 1) = Rank(q, m) + 1
<1>1. 1..(m + 1) = (1..m) \cup {m + 1} /\ m + 1 \notin 1..m
  OBVIOUS
<1>2. q[m + 1] \in Unknown => KnownIn(q, m + 1) = KnownIn(q, m)
  BY <1>1 DEF KnownIn
<1>3. q[m + 1] \notin Unknown => KnownIn(q, m + 1) = KnownIn(q, m) \cup {m + 1}
  BY <1>1 DEF KnownIn
<1>4. m + 1 \notin KnownIn(q, m)
  BY <1>1 DEF KnownIn
<1>5. Cardinality(KnownIn(q, m) \cup {m + 1}) = Cardinality(KnownIn(q, m)) + 1
  BY <1>4, RankType, FS_AddElement
<1> QED  BY <1>2, <1>3, <1>5 DEF Rank

\* Events further on do not matter.
LEMMA RankSame ==
  ASSUME NEW q, NEW r, NEW m \in Nat, \A i \in 1..m : r[i] = q[i]
  PROVE  KnownIn(r, m) = KnownIn(q, m) /\ \A i \in 0..m : Rank(r, i) = Rank(q, i)
<1>1. \A i \in 0..m : \A j \in 1..i : j \in 1..m
  OBVIOUS
<1>2. \A i \in 0..m : KnownIn(r, i) = KnownIn(q, i)
  BY <1>1 DEF KnownIn
<1>3. m \in 0..m
  OBVIOUS
<1> QED  BY <1>2, <1>3 DEF Rank

-----------------------------------------------------------------------------
\* A push past its test has a free slot, and its event is the last accepted.
ProducerAhead ==
  /\ ppc # "idle" => /\ Ring!NextSlot(tail) # head
                     /\ Len(pushed) >= 1 /\ pushing = pushed[Len(pushed)]
  /\ ppc = "publish" => buffer[tail] = pushing

\* A thread inside pop works on head.
ConsumerAtHead == \A c \in Sessions :
  /\ cpc[c] # "idle" => tpc[c] = "pop" /\ currentHead[c] = head
  /\ cpc[c] \in {"read", "advance"} => head # tail
  /\ cpc[c] = "advance" => event[c] = buffer[head]

\* How many events have been published, and how many of them popped; the ring holds the rest.
Published == IF ppc = "idle" THEN Len(pushed) ELSE Len(pushed) - 1
Taken == Published - Ring!Used
InRing == Taken >= 0 /\ \A k \in 1..Ring!Used : buffer[Ring!Slot(k - 1)] = pushed[Taken + k]

\* The event between its pop and its translation is the last popped.
Popped(c) == tpc[c] \in {"unpark", "translate"}
InHand == \A c \in Sessions : Popped(c) => Taken >= 1 /\ popped[c] = pushed[Taken]

\* The events before it have been reported, if the translator knows them.
Reported == IF \E c \in Sessions : Popped(c) THEN Taken - 1 ELSE Taken
InOrder ==
  /\ Len(reports) = Rank(pushed, Reported)
  /\ \A i \in KnownIn(pushed, Reported) : reports[Rank(pushed, i)] = pushed[i]

RingInv == ProducerAhead /\ ConsumerAtHead /\ InRing

\* As long as one thread at a time polls, the ring has the single consumer it is made for.
Alone == \A c, d \in Sessions : Polling(c) /\ Polling(d) => c = d
OrderInv == TypeInv /\ Alone /\ RingInv /\ InHand /\ InOrder

LEMMA UsedType ==
  ASSUME RingTypes
  PROVE  Ring!Used \in 0..(Capacity - 1)
BY RingAssumption DEF RingTypes, Ring!TypeOK, Ring!Used, Ring!Slots

LEMMA SlotType ==
  ASSUME RingTypes, NEW k \in 0..(Ring!Used - 1)
  PROVE  Ring!Slot(k) \in Ring!Slots /\ Ring!Slot(k) # tail
BY RingAssumption DEF RingTypes, Ring!TypeOK, Ring!Used, Ring!Slots, Ring!Slot

LEMMA CountTypes ==
  ASSUME RingTypes
  PROVE  /\ Len(pushed) \in Nat /\ Published \in Int /\ Taken \in Int /\ Ring!Used \in Nat
         /\ Taken <= Published /\ Published <= Len(pushed)
         /\ Taken + Ring!Used = Published
<1>1. Len(pushed) \in Nat
  BY LenProperties DEF RingTypes
<1>2. Ring!Used \in Nat
  BY UsedType, RingAssumption
<1> QED  BY <1>1, <1>2 DEF Published, Taken

\* Of the ring the rest of the proof needs: what a push leaves alone.
LEMMA PushRing ==
  ASSUME RingTypes, RingInv, UiPush
  PROVE  /\ RingInv' /\ Taken' = Taken
         /\ \A i \in 1..Len(pushed) : pushed'[i] = pushed[i]
<1> USE DEF RingInv
<1>0. UNCHANGED <<tpc, cpc, currentHead, event>>
  BY DEF UiPush, Ring!PushTest, Ring!PushWrite, Ring!PushPublish, Ring!consumerVars
<1>1. ASSUME NEW e \in Events, Ring!PushTest(e), pushed' = Append(pushed, e)
      PROVE  RingInv' /\ Taken' = Taken /\ \A i \in 1..Len(pushed) : pushed'[i] = pushed[i]
  <2>1. /\ Len(pushed') = Len(pushed) + 1 /\ Len(pushed) \in Nat
        /\ pushed'[Len(pushed) + 1] = e
        /\ \A i \in 1..Len(pushed) : pushed'[i] = pushed[i]
    BY <1>1, AppendProperties, LenProperties DEF RingTypes
  <2>2. /\ UNCHANGED <<buffer, head, tail>> /\ ppc = "idle" /\ ppc' = "write" /\ pushing' = e
        /\ Ring!NextSlot(tail) # head
    BY <1>1 DEF Ring!PushTest, Ring!Full
  <2>3. Published' = Published /\ Ring!Used' = Ring!Used /\ Taken' = Taken
        /\ \A k \in Int : Ring!Slot(k)' = Ring!Slot(k)
    BY <2>1, <2>2 DEF Published, Ring!Used, Ring!Slot, Taken
  <2>4. ProducerAhead'
    BY <2>1, <2>2 DEF ProducerAhead, Ring!NextSlot
  <2>5. ConsumerAtHead'
    BY <1>0, <2>2 DEF ConsumerAtHead
  <2>6. InRing'
    <3>1. \A k \in 1..Ring!Used : Taken + k \in 1..Len(pushed) /\ k - 1 \in Int
      BY CountTypes DEF InRing
    <3> QED  BY <2>1, <2>2, <2>3, <3>1 DEF InRing
  <2> QED  BY <2>1, <2>3, <2>4, <2>5, <2>6
<1>2. CASE Ring!PushWrite /\ UNCHANGED pushed
  <2>1. /\ UNCHANGED <<head, tail, pushing, pushed>> /\ ppc = "write" /\ ppc' = "publish"
        /\ buffer' = [buffer EXCEPT ![tail] = pushing]
    BY <1>2 DEF Ring!PushWrite
  <2>2. buffer'[tail] = pushing /\ \A i \in Ring!Slots : i # tail => buffer'[i] = buffer[i]
    BY <2>1 DEF RingTypes, Ring!TypeOK
  <2>3. Published' = Published /\ Ring!Used' = Ring!Used /\ Taken' = Taken
        /\ \A k \in Int : Ring!Slot(k)' = Ring!Slot(k)
    BY <2>1 DEF Published, Ring!Used, Ring!Slot, Taken
  <2>4. ProducerAhead'
    BY <2>1, <2>2 DEF ProducerAhead, Ring!NextSlot
  <2>5. ConsumerAtHead'
    <3>1. head \in Ring!Slots
      BY DEF RingTypes, Ring!TypeOK
    <3> QED  BY <1>0, <2>1, <2>2, <3>1 DEF ConsumerAtHead
  <2>6. InRing'
    <3>1. \A k \in 1..Ring!Used : k - 1 \in 0..(Ring!Used - 1) /\ k - 1 \in Int
      BY CountTypes
    <3>2. \A k \in 1..Ring!Used : buffer'[Ring!Slot(k - 1)] = buffer[Ring!Slot(k - 1)]
      BY <2>2, <3>1, SlotType
    <3> QED  BY <2>1, <2>3, <3>1, <3>2 DEF InRing
  <2> QED  BY <2>1, <2>3, <2>4, <2>5, <2>6
<1>3. CASE Ring!PushPublish /\ UNCHANGED pushed
  <2>1. /\ UNCHANGED <<head, buffer, pushed>> /\ ppc = "publish" /\ ppc' = "idle"
        /\ tail' = Ring!NextSlot(tail) /\ tail' # head /\ buffer[tail] = pushed[Len(pushed)]
        /\ Len(pushed) >= 1 /\ head \in Ring!Slots /\ tail \in Ring!Slots
        /\ tail' = IF tail + 1 = Capacity THEN 0 ELSE tail + 1
    BY <1>3, NextSlotValue DEF Ring!PushPublish, ProducerAhead, RingTypes, Ring!TypeOK
  <2>2. Published' = Len(pushed) /\ Published = Len(pushed) - 1
    BY <2>1 DEF Published
  <2>3. Ring!Used' = Ring!Used + 1
    BY <2>1, RingAssumption DEF Ring!Used, Ring!Slots
  <2>4. Taken' = Taken
    BY <2>2, <2>3, CountTypes DEF Taken
  <2>5. \A k \in Int : Ring!Slot(k)' = Ring!Slot(k)
    BY <2>1 DEF Ring!Slot
  <2>6. Ring!Slot(Ring!Used) = tail
    BY <2>1, RingAssumption DEF Ring!Slot, Ring!Used, Ring!Slots
  <2>7. ProducerAhead'
    BY <2>1 DEF ProducerAhead
  <2>8. ConsumerAtHead'
    BY <1>0, <2>1 DEF ConsumerAtHead
  <2>9. InRing'
    <3> DEFINE n == Ring!Used
    <3>1. n \in Nat /\ Taken + n + 1 = Len(pushed) /\ Taken >= 0
      BY <2>2, CountTypes DEF InRing
    <3>2. \A k \in 1..(n + 1) : buffer[Ring!Slot(k - 1)] = pushed[Taken + k]
      <4>1. \A k \in 1..n : buffer[Ring!Slot(k - 1)] = pushed[Taken + k]
        BY DEF InRing
      <4>2. \A k \in 1..(n + 1) : k = n + 1 => k - 1 = n /\ Taken + k = Len(pushed)
        BY <3>1, CountTypes
      <4>3. buffer[Ring!Slot(n)] = pushed[Len(pushed)]
        BY <2>1, <2>6
      <4> HIDE DEF n
      <4>4. \A k \in 1..(n + 1) : k \in 1..n \/ k = n + 1
        BY <3>1
      <4> SUFFICES ASSUME NEW k \in 1..(n + 1) PROVE buffer[Ring!Slot(k - 1)] = pushed[Taken + k]
        OBVIOUS
      <4>5. CASE k = n + 1
        BY <4>2, <4>3, <4>5
      <4> QED  BY <4>1, <4>4, <4>5
    <3>3. \A k \in 1..(n + 1) : Ring!Slot(k - 1)' = Ring!Slot(k - 1)
      <4>1. \A k \in 1..(n + 1) : k - 1 \in Int
        BY <3>1
      <4> QED  BY <2>5, <4>1
    <3> HIDE DEF n
    <3>4. Ring!Used' = n + 1
      BY <2>3 DEF n
    <3> QED  BY <2>1, <2>4, <3>1, <3>2, <3>3, <3>4 DEF InRing
  <2> QED  BY <2>1, <2>4, <2>7, <2>8, <2>9
<1> QED  BY <1>1, <1>2, <1>3 DEF UiPush

\* The steps of the one thread that polls; only the last takes the event out.
LEMMA PopRing ==
  ASSUME RingTypes, RingInv, Alone, tpc \in [Sessions -> TxStates],
         NEW s \in Sessions, PollPop(s)
  PROVE  /\ RingInv' /\ pushed' = pushed
         /\ \/ Taken' = Taken /\ tpc'[s] \in {"pop", "idle"}
            \/ Taken' = Taken + 1 /\ tpc'[s] = "unpark" /\ popped'[s] = pushed[Taken'] /\ Taken' >= 1
<1> USE DEF RingInv
<1>0. /\ pushed' = pushed /\ tpc[s] = "pop"
      /\ UNCHANGED <<ppc, pushing, tail, buffer>>
      /\ s \in DOMAIN tpc /\ s \in DOMAIN cpc /\ s \in DOMAIN popped
      /\ head \in Ring!Slots /\ tail \in Ring!Slots
  BY DEF PollPop, TxGoes, Ring!PopBegin, Ring!PopTest, Ring!PopRead, Ring!PopEmpty,
         Ring!PopAdvance, Ring!producerVars, RingTypes, Ring!TypeOK, historyVars
<1>3. \A c \in Sessions \ {s} : cpc[c] = "idle" /\ cpc'[c] = "idle" /\ tpc'[c] = tpc[c]
  <2>1. \A c \in Sessions \ {s} : cpc[c] = "idle"
    BY <1>0 DEF Alone, Polling, ConsumerAtHead
  <2>2. \A c \in Sessions \ {s} : cpc'[c] = cpc[c] /\ tpc'[c] = tpc[c]
    BY DEF PollPop, TxGoes, Ring!PopBegin, Ring!PopTest, Ring!PopRead, Ring!PopEmpty,
           Ring!PopAdvance, RingTypes, Ring!TypeOK
  <2> QED  BY <2>1, <2>2
<1>1. CASE /\ Ring!PopBegin(s) \/ Ring!PopTest(s) \/ Ring!PopRead(s) \/ Ring!PopEmpty(s)
           /\ tpc'[s] \in {"pop", "idle"} /\ (~Ring!PopEmpty(s) => tpc'[s] = "pop")
  <2>1. head' = head
    BY <1>1 DEF Ring!PopBegin, Ring!PopTest, Ring!PopRead, Ring!PopEmpty
  <2>2. ConsumerAtHead'
    <3>1. CASE Ring!PopBegin(s) /\ tpc'[s] = "pop"
      BY <1>0, <1>3, <2>1, <3>1 DEF Ring!PopBegin, ConsumerAtHead, RingTypes, Ring!TypeOK
    <3>2. CASE Ring!PopTest(s) /\ tpc'[s] = "pop"
      BY <1>0, <1>3, <2>1, <3>2 DEF Ring!PopTest, ConsumerAtHead, RingTypes, Ring!TypeOK
    <3>3. CASE Ring!PopRead(s) /\ tpc'[s] = "pop"
      BY <1>0, <1>3, <2>1, <3>3 DEF Ring!PopRead, ConsumerAtHead, RingTypes, Ring!TypeOK
    <3>4. CASE Ring!PopEmpty(s)
      BY <1>0, <1>3, <2>1, <3>4 DEF Ring!PopEmpty, ConsumerAtHead, RingTypes, Ring!TypeOK
    <3> QED  BY <1>1, <3>1, <3>2, <3>3, <3>4
  <2>3. ProducerAhead'
    BY <1>0, <2>1 DEF ProducerAhead, Ring!NextSlot
  <2>4. Published' = Published /\ Ring!Used' = Ring!Used /\ Taken' = Taken
        /\ \A k \in Int : Ring!Slot(k)' = Ring!Slot(k)
    BY <1>0, <2>1 DEF Published, Ring!Used, Ring!Slot, Taken
  <2>5. InRing'
    <3>1. \A k \in 1..Ring!Used : k - 1 \in Int
      BY CountTypes
    <3> QED  BY <1>0, <2>4, <3>1 DEF InRing
  <2> QED  BY <1>0, <1>1, <2>2, <2>3, <2>4, <2>5
<1>2. CASE Ring!PopAdvance(s) /\ tpc'[s] = "unpark"
  <2>1. /\ cpc[s] = "advance" /\ head # tail /\ event[s] = buffer[head]
        /\ cpc'[s] = "idle" /\ popped'[s] = buffer[head]
        /\ head' = IF head + 1 = Capacity THEN 0 ELSE head + 1
        /\ currentHead[s] = head
    BY <1>0, <1>2, NextSlotValue DEF Ring!PopAdvance, ConsumerAtHead
  <2>2. Ring!Used' = Ring!Used - 1 /\ Ring!Used >= 1
    BY <1>0, <2>1, RingAssumption DEF Ring!Used, Ring!Slots
  <2>3. Published' = Published
    BY <1>0 DEF Published
  <2>4. Taken' = Taken + 1
    BY <2>2, <2>3, CountTypes DEF Taken
  <2>5. \A k \in 0..(Ring!Used - 2) : Ring!Slot(k)' = Ring!Slot(k + 1)
    BY <1>0, <2>1, RingAssumption DEF Ring!Slot, Ring!Used, Ring!Slots
  <2>6. popped'[s] = pushed[Taken + 1]
    <3>1. Ring!Slot(0) = head
      BY <1>0, RingAssumption DEF Ring!Slot, Ring!Slots
    <3>2. 1 \in 1..Ring!Used /\ 1 - 1 = 0
      BY <2>2, CountTypes
    <3> QED  BY <2>1, <3>1, <3>2 DEF InRing
  <2>7. ProducerAhead'
    <3>1. ppc # "idle" => Ring!NextSlot(tail)' # head'
      BY <1>0, <2>1, NextSlotValue, RingAssumption DEF Ring!Slots, Ring!NextSlot
    <3> QED  BY <1>0, <3>1 DEF ProducerAhead
  <2>8. ConsumerAtHead'
    BY <1>0, <1>3, <2>1 DEF ConsumerAtHead
  <2>9. InRing'
    <3> DEFINE n == Ring!Used
    <3>1. n \in Nat /\ n >= 1 /\ Taken \in Int /\ Taken >= 0
      BY <2>2, CountTypes DEF InRing
    <3>2. \A k \in 1..(n - 1) : /\ k - 1 \in 0..(n - 2) /\ k - 1 + 1 = k /\ k + 1 \in 1..n
                               /\ k + 1 - 1 = k /\ Taken + (k + 1) = Taken + 1 + k
      <4> HIDE DEF n
      <4> QED  BY <3>1
    <3>3. \A k \in 1..(n - 1) : Ring!Slot(k - 1)' = Ring!Slot(k)
      <4>1. \A k \in 0..(n - 2) : Ring!Slot(k)' = Ring!Slot(k + 1)
        BY <2>5
      <4> HIDE DEF n
      <4> QED  BY <3>2, <4>1
    <3>4. \A k \in 1..n : buffer[Ring!Slot(k - 1)] = pushed[Taken + k]
      BY DEF InRing
    <3> HIDE DEF n
    <3>5. \A k \in 1..(n - 1) : buffer[Ring!Slot(k)] = pushed[Taken + 1 + k]
      BY <3>2, <3>4
    <3>6. Ring!Used' = n - 1 /\ Taken + 1 >= 0
      BY <2>2, <3>1 DEF n
    <3> QED  BY <1>0, <2>4, <3>3, <3>5, <3>6 DEF InRing
  <2>10. Taken + 1 >= 1
    BY CountTypes DEF InRing
  <2> QED  BY <1>0, <1>2, <2>4, <2>6, <2>7, <2>8, <2>9, <2>10
<1> QED
  <2>1. \A from, to : TxGoes(s, from, to) => tpc'[s] = to
    BY <1>0 DEF TxGoes
  <2> QED  BY <1>1, <1>2, <2>1 DEF PollPop

-----------------------------------------------------------------------------
\* Steps that leave the order alone: no event is popped or translated.
LEMMA OrderKept ==
  ASSUME OrderInv, RingTypes', RingInv', UNCHANGED <<reports, popped>>, Taken' = Taken,
         \A i \in 1..Len(pushed) : pushed'[i] = pushed[i],
         \A c \in Sessions : Popped(c)' <=> Popped(c)
  PROVE  InHand' /\ InOrder'
<1> USE DEF OrderInv, RingInv, TypeInv
<1>1. Taken <= Len(pushed) /\ Taken \in Nat /\ Len(pushed) \in Nat
  BY CountTypes DEF InRing
<1>2. \A m \in 1..Taken : pushed'[m] = pushed[m]
  BY <1>1
<1>3. Reported' = Reported
  BY DEF Reported
<1>4. Reported \in 0..Taken
  BY <1>1 DEF Reported, InHand
<1>5. InHand'
  BY <1>1, <1>2 DEF InHand
<1>6. /\ KnownIn(pushed', Reported) = KnownIn(pushed, Reported)
      /\ \A i \in 0..Reported : Rank(pushed', i) = Rank(pushed, i)
  <2>1. \A m \in 1..Reported : pushed'[m] = pushed[m]
    BY <1>1, <1>2, <1>4
  <2>2. Reported \in Nat
    BY <1>4
  <2> QED  BY <2>1, <2>2, RankSame
<1>7. \A i \in KnownIn(pushed, Reported) : i \in 0..Reported /\ pushed'[i] = pushed[i]
  BY <1>1, <1>2, <1>4 DEF KnownIn
<1>8. Reported \in 0..Reported
  BY <1>4
<1>9. InOrder'
  BY <1>3, <1>6, <1>7, <1>8 DEF InOrder
<1> QED  BY <1>5, <1>9

LEMMA TranslateOrder ==
  ASSUME OrderInv, NEW s \in Sessions, Translate(s)
  PROVE  RingInv' /\ InHand' /\ InOrder'
<1> USE DEF OrderInv, TypeInv
<1>0. /\ tpc \in [Sessions -> TxStates] /\ tpc[s] = "translate"
      /\ UNCHANGED <<ringVars, pushed>>
      /\ tpc'[s] \in {"repark", "send_report"}
      /\ \A c \in Sessions \ {s} : tpc'[c] = tpc[c] /\ ~Popped(c) /\ tpc[c] # "pop"
  <2>1. tpc \in [Sessions -> TxStates]
    BY DEF SessionTypes
  <2>2. tpc[s] = "translate"
    BY DEF Translate, TxGoes
  <2>3. \A c \in Sessions \ {s} : ~Popped(c) /\ tpc[c] # "pop"
    BY <2>2 DEF Alone, Polling, Popped
  <2> QED  BY <2>1, <2>2, <2>3 DEF Translate, TxGoes
<1>1. UNCHANGED <<buffer, head, tail, ppc, pushing, cpc, currentHead, event, popped, pushed>>
  BY <1>0 DEF ringVars
<1>2. Taken' = Taken
  BY <1>1 DEF Taken, Published, Ring!Used
<1>3. RingInv'
  <2>1. cpc[s] = "idle"
    BY <1>0 DEF RingInv, ConsumerAtHead
  <2>2. ConsumerAtHead'
    BY <1>0, <1>1, <2>1 DEF RingInv, ConsumerAtHead
  <2>3. ProducerAhead'
    BY <1>1 DEF RingInv, ProducerAhead, Ring!NextSlot
  <2>4. InRing'
    BY <1>1, <1>2 DEF RingInv, InRing, Ring!Used, Ring!Slot
  <2> QED  BY <2>2, <2>3, <2>4 DEF RingInv
<1>4. Popped(s) /\ ~\E c \in Sessions : Popped(c)'
  BY <1>0 DEF Popped
<1>5. InHand'
  BY <1>0, <1>4 DEF InHand
<1> DEFINE m == Taken - 1
<1>6. /\ Reported = m /\ Reported' = Taken /\ Taken >= 1 /\ popped[s] = pushed[Taken]
      /\ m \in Nat /\ Taken = m + 1 /\ Taken \in Nat
  BY <1>0, <1>2, <1>4, CountTypes DEF Reported, InHand
<1>7. /\ Len(reports) = Rank(pushed, m)
      /\ \A i \in KnownIn(pushed, m) : reports[Rank(pushed, i)] = pushed[i]
  BY <1>6 DEF InOrder
<1> HIDE DEF m
<1>8. CASE popped[s] \in Unknown
  <2>1. reports' = reports
    BY <1>8 DEF Translate
  <2>2. KnownIn(pushed, Taken) = KnownIn(pushed, m)
    BY <1>6, <1>8, RankNext
  <2>3. InOrder'
    BY <1>1, <1>6, <1>7, <2>1, <2>2 DEF InOrder, Rank
  <2> QED  BY <1>3, <1>5, <2>3
<1>9. CASE popped[s] \notin Unknown
  <2>1. reports' = Append(reports, popped[s])
    BY <1>9 DEF Translate
  <2>2. /\ Len(reports') = Len(reports) + 1 /\ reports'[Len(reports) + 1] = popped[s]
        /\ \A i \in 1..Len(reports) : reports'[i] = reports[i]
        /\ Len(reports) \in Nat
    <3>1. popped[s] \in Events \cup {NoEvent} /\ reports \in Seq(Events \cup {NoEvent})
      BY DEF RingTypes, Ring!TypeOK, SessionTypes
    <3> QED  BY <2>1, <3>1, AppendProperties, LenProperties
  <2>3. /\ KnownIn(pushed, Taken) = KnownIn(pushed, m) \cup {Taken}
        /\ Rank(pushed, Taken) = Rank(pushed, m) + 1
    BY <1>6, <1>9, RankNext
  <2>4. \A i \in KnownIn(pushed, m) : Rank(pushed, i) \in 1..Len(reports)
    <3> SUFFICES ASSUME NEW i \in KnownIn(pushed, m) PROVE Rank(pushed, i) \in 1..Len(reports)
      OBVIOUS
    <3>1. i \in 1..m /\ i \in Nat /\ i \in 0..m /\ i \in 1..i /\ pushed[i] \notin Unknown
      BY <1>6 DEF KnownIn
    <3>2. Rank(pushed, i) <= Len(reports) /\ Rank(pushed, i) \in Nat
      BY <1>6, <1>7, <3>1, RankMonotonic, RankType
    <3>3. Rank(pushed, i) # 0
      <4>1. i \in KnownIn(pushed, i)
        BY <3>1 DEF KnownIn
      <4>2. IsFiniteSet(KnownIn(pushed, i)) /\ KnownIn(pushed, i) # {}
        BY <3>1, <4>1, RankType
      <4> QED  BY <4>2, FS_EmptySet DEF Rank
    <3> QED  BY <3>2, <3>3, <2>2
  <2>5. \A i \in KnownIn(pushed, Taken) : reports'[Rank(pushed, i)] = pushed[i]
    <3>1. reports'[Rank(pushed, Taken)] = pushed[Taken]
      BY <1>6, <1>7, <2>2, <2>3
    <3>2. \A i \in KnownIn(pushed, m) : reports'[Rank(pushed, i)] = pushed[i]
      BY <1>7, <2>2, <2>4
    <3> QED  BY <2>3, <3>1, <3>2
  <2>6. Len(reports') = Rank(pushed, Taken)
    BY <1>7, <2>2, <2>3
  <2>7. InOrder'
    BY <1>1, <1>6, <2>5, <2>6 DEF InOrder
  <2> QED  BY <1>3, <1>5, <2>7
<1> QED  BY <1>8, <1>9

LEMMA PopOrder ==
  ASSUME OrderInv, RingTypes', NEW s \in Sessions, PollPop(s)
  PROVE  RingInv' /\ InHand' /\ InOrder'
<1> USE DEF OrderInv, TypeInv
<1>0. /\ tpc \in [Sessions -> TxStates] /\ tpc[s] = "pop" /\ reports' = reports
      /\ \A c \in Sessions \ {s} : ~Popped(c) /\ ~Popped(c)'
  <2>1. tpc \in [Sessions -> TxStates] /\ tpc[s] = "pop" /\ reports' = reports
    BY DEF SessionTypes, PollPop, TxGoes, historyVars
  <2>2. \A c \in Sessions \ {s} : ~Popped(c) /\ tpc'[c] = tpc[c]
    BY <2>1 DEF Alone, Polling, Popped, PollPop, TxGoes
  <2> QED  BY <2>1, <2>2 DEF Popped
<1>1. /\ RingInv' /\ pushed' = pushed
      /\ \/ Taken' = Taken /\ tpc'[s] \in {"pop", "idle"}
         \/ Taken' = Taken + 1 /\ tpc'[s] = "unpark" /\ popped'[s] = pushed[Taken'] /\ Taken' >= 1
  BY <1>0, PopRing
<1>2. ~\E c \in Sessions : Popped(c)
  BY <1>0 DEF Popped
<1>3. Reported = Taken
  BY <1>2 DEF Reported
<1>4. CASE Taken' = Taken /\ tpc'[s] \in {"pop", "idle"}
  <2>1. ~\E c \in Sessions : Popped(c)'
    BY <1>0, <1>4 DEF Popped
  <2>2. Reported' = Taken
    BY <1>4, <2>1 DEF Reported
  <2> QED  BY <1>0, <1>1, <1>3, <2>1, <2>2 DEF InHand, InOrder
<1>5. CASE Taken' = Taken + 1 /\ tpc'[s] = "unpark" /\ popped'[s] = pushed[Taken'] /\ Taken' >= 1
  <2>1. Popped(s)'
    BY <1>5 DEF Popped
  <2>2. Reported' = Taken
    <3>1. Taken' - 1 = Taken
      <4>1. Taken \in Int
        BY CountTypes
      <4> QED  BY <1>5, <4>1
    <3>2. \E c \in Sessions : Popped(c)'
      BY <2>1
    <3>3. Reported' = Taken' - 1
      BY <3>2 DEF Reported, Popped
    <3> QED  BY <3>1, <3>3
  <2>3. InHand'
    BY <1>0, <1>1, <1>5 DEF InHand
  <2>4. InOrder'
    BY <1>0, <1>1, <1>3, <2>2 DEF InOrder
  <2> QED  BY <1>1, <2>3, <2>4
<1> QED  BY <1>1, <1>4, <1>5

LEMMA NextOrder ==
  ASSUME OrderInv, [Next]_vars
  PROVE  RingInv' /\ InHand' /\ InOrder'
<1> USE DEF OrderInv, TypeInv
<1>0. RingTypes' /\ tpc \in [Sessions -> TxStates]
  BY RingTypesNext DEF SessionTypes
<1>1. CASE UiPush
  <2>1. /\ RingInv' /\ Taken' = Taken
        /\ \A i \in 1..Len(pushed) : pushed'[i] = pushed[i]
    BY <1>1, PushRing
  <2>2. UNCHANGED <<reports, popped, tpc>>
    BY <1>1 DEF UiPush, Ring!PushTest, Ring!PushWrite, Ring!PushPublish, Ring!consumerVars
  <2> QED  BY <1>0, <2>1, <2>2, OrderKept DEF Popped
<1>2. ASSUME NEW s \in Sessions, PollPop(s)
      PROVE  RingInv' /\ InHand' /\ InOrder'
  BY <1>0, <1>2, PopOrder
<1>3. ASSUME NEW s \in Sessions, Translate(s)
      PROVE  RingInv' /\ InHand' /\ InOrder'
  BY <1>3, TranslateOrder
<1>4. ASSUME UNCHANGED <<ringVars, pushed, reports>>,
             \A c \in Sessions : /\ Popped(c)' <=> Popped(c)
                                 /\ tpc[c] = "pop" => tpc'[c] = "pop"
      PROVE  RingInv' /\ InHand' /\ InOrder'
  <2>1. UNCHANGED <<buffer, head, tail, ppc, pushing, cpc, currentHead, event, popped, pushed>>
    BY <1>4 DEF ringVars
  <2>2. Taken' = Taken
    BY <2>1 DEF Taken, Published, Ring!Used
  <2>3. ConsumerAtHead'
    BY <1>4, <2>1 DEF RingInv, ConsumerAtHead
  <2>4. ProducerAhead'
    BY <2>1 DEF RingInv, ProducerAhead, Ring!NextSlot
  <2>5. InRing'
    BY <2>1, <2>2 DEF RingInv, InRing, Ring!Used, Ring!Slot
  <2>6. RingInv'
    BY <2>3, <2>4, <2>5 DEF RingInv
  <2> QED  BY <1>0, <1>4, <2>1, <2>2, <2>6, OrderKept
<1>5. ASSUME NEW s \in Sessions, Transmit(s) \/ TxFails(s), ~PollPop(s), ~Translate(s)
      PROVE  RingInv' /\ InHand' /\ InOrder'
  <2>1. UNCHANGED <<ringVars, pushed, reports>>
    BY <1>5 DEF Transmit, TxFails, TxTake, TxIdle, TxExit, TxSend, PollParked, Unpark, Repark,
                historyVars
  <2>2. /\ \A c \in Sessions : c # s => tpc'[c] = tpc[c]
        /\ tpc[s] # "pop" /\ (tpc'[s] \in {"unpark", "translate"} <=> tpc[s] \in {"unpark", "translate"})
    <3>1. CASE TxTake(s) \/ TxIdle(s) \/ TxExit(s) \/ PollParked(s)
      BY <1>0, <3>1 DEF TxTake, TxIdle, TxExit, PollParked, TxGoes
    <3>2. CASE TxSend(s) \/ TxFails(s)
      BY <1>0, <3>2 DEF TxSend, TxFails, AfterSend
    <3>3. CASE Unpark(s) \/ Repark(s)
      BY <1>0, <3>3 DEF Unpark, Repark, TxGoes
    <3> QED  BY <1>5, <3>1, <3>2, <3>3 DEF Transmit
  <2>3. \A c \in Sessions : (Popped(c)' <=> Popped(c)) /\ (tpc[c] = "pop" => tpc'[c] = "pop")
    BY <2>2 DEF Popped
  <2> QED  BY <1>4, <2>1, <2>3
<1>6. CASE UNCHANGED <<ringVars, pushed, reports, tpc>>
  BY <1>4, <1>6 DEF Popped
<1>7. \/ UiPush \/ UNCHANGED <<ringVars, pushed, reports, tpc>>
      \/ \E s \in Sessions : Transmit(s) \/ TxFails(s)
  BY DEF Next, vars, historyVars, ResetSyntheticState, HandleSyntheticSubmit, Handle, Leave,
         ControlSubmit,
         SubmitElsewhere, RecvUnlink, SendImport, LoopTest, Activate
<1> QED  BY <1>1, <1>2, <1>3, <1>5, <1>6, <1>7

\* Whoever starts to poll while another thread does is noticed.
LEMMA NextAlone ==
  ASSUME TypeInv, [Next]_vars, ~overlapped'
  PROVE  ~overlapped /\ (Alone => Alone')
<1>0. tpc \in [Sessions -> TxStates] /\ overlapped \in BOOLEAN
  BY DEF TypeInv, SessionTypes
<1>1. ASSUME NEW s \in Sessions, PollParked(s)
      PROVE  ~overlapped /\ (Alone => Alone')
  <2>1. ~overlapped /\ (isActive => \A c \in Sessions \ {s} : ~Polling(c))
    BY <1>0, <1>1 DEF PollParked
  <2>2. /\ tpc'[s] = IF isActive THEN "pop" ELSE "idle"
        /\ \A c \in Sessions \ {s} : tpc'[c] = tpc[c]
    BY <1>0, <1>1 DEF PollParked, TxGoes
  <2> QED  BY <2>1, <2>2 DEF Alone, Polling
<1>2. ASSUME NEW s \in Sessions, overlapped' = overlapped, Polling(s)' => Polling(s),
             \A c \in Sessions \ {s} : tpc'[c] = tpc[c]
      PROVE  ~overlapped /\ (Alone => Alone')
  BY <1>2 DEF Alone, Polling
<1>3. ASSUME NEW s \in Sessions, Transmit(s) \/ TxFails(s), ~PollParked(s)
      PROVE  ~overlapped /\ (Alone => Alone')
  <2>1. overlapped' = overlapped
    BY <1>3 DEF Transmit, TxFails, TxTake, TxIdle, TxExit, TxSend, PollPop, Unpark, Translate,
                Repark, historyVars
  <2>2. (Polling(s)' => Polling(s)) /\ \A c \in Sessions \ {s} : tpc'[c] = tpc[c]
    <3>1. CASE \/ TxTake(s) \/ TxIdle(s) \/ TxExit(s) \/ PollPop(s) \/ Unpark(s)
               \/ Translate(s) \/ Repark(s)
      BY <1>0, <3>1 DEF TxTake, TxIdle, TxExit, PollPop, Unpark, Translate, Repark, TxGoes, Polling
    <3>2. CASE TxSend(s) \/ TxFails(s)
      BY <1>0, <3>2 DEF TxSend, TxFails, AfterSend, Polling
    <3> QED  BY <1>3, <3>1, <3>2 DEF Transmit
  <2> QED  BY <1>2, <2>1, <2>2
<1>4. CASE UNCHANGED <<tpc, overlapped>>
  BY <1>4 DEF Alone, Polling
<1>5. \/ UNCHANGED <<tpc, overlapped>>
      \/ \E s \in Sessions : Transmit(s) \/ TxFails(s)
  BY DEF Next, vars, historyVars, UiPush, ResetSyntheticState, HandleSyntheticSubmit, Handle,
         Leave, ControlSubmit, SubmitElsewhere, RecvUnlink, SendImport, LoopTest, Activate
<1> QED  BY <1>1, <1>3, <1>4, <1>5

LEMMA InitOrder == Init => Alone /\ RingInv /\ InHand /\ InOrder
<1> SUFFICES ASSUME Init PROVE Alone /\ RingInv /\ InHand /\ InOrder
  OBVIOUS
<1>1. /\ ppc = "idle" /\ Len(pushed) = 0 /\ reports = << >> /\ head = 0 /\ tail = 0
      /\ \A c \in Sessions : cpc[c] = "idle" /\ tpc[c] = "idle"
  BY DEF Init, Ring!Init
<1>2. Ring!Used = 0
  BY <1>1 DEF Ring!Used
<1>3. Taken = 0
  BY <1>1, <1>2 DEF Taken, Published
<1>4. RingInv
  BY <1>1, <1>2, <1>3 DEF RingInv, ProducerAhead, ConsumerAtHead, InRing
<1>5. InHand /\ Reported = 0
  BY <1>1, <1>3 DEF InHand, Reported, Popped
<1>6. KnownIn(pushed, 0) = {} /\ Rank(pushed, 0) = 0
  <2>1. KnownIn(pushed, 0) = {}
    BY DEF KnownIn
  <2> QED  BY <2>1, FS_EmptySet DEF Rank
<1>7. InOrder
  BY <1>1, <1>5, <1>6 DEF InOrder
<1>8. Alone
  BY <1>1 DEF Alone, Polling
<1> QED  BY <1>4, <1>5, <1>7, <1>8

LEMMA OrderedReports ==
  ASSUME OrderInv
  PROVE  ReportsInOrder
<1> USE DEF OrderInv, TypeInv
<1> DEFINE n == Len(pushed)
<1>1. n \in Nat /\ DOMAIN pushed = 1..n /\ Taken <= n /\ Taken \in Nat
  BY CountTypes, LenProperties DEF RingTypes, RingInv, InRing
<1>2. Reported \in 0..n
  BY <1>1 DEF Reported, InHand
<1>3. Known = KnownIn(pushed, n)
  BY <1>1 DEF Known, KnownIn
<1>4. Cardinality(Known) = Rank(pushed, n)
  BY <1>3 DEF Rank
<1>5. Len(reports) <= Cardinality(Known)
  BY <1>1, <1>2, <1>4, RankMonotonic DEF InOrder
<1>6. ASSUME NEW i \in Known
      PROVE  LET k == Cardinality({j \in Known : j <= i})
             IN k <= Len(reports) => reports[k] = pushed[i]
  <2>1. i \in 1..n /\ pushed[i] \notin Unknown /\ i \in Nat
    BY <1>3 DEF KnownIn
  <2>2. {j \in Known : j <= i} = KnownIn(pushed, i)
    BY <1>1, <1>3, <2>1 DEF KnownIn
  <2>3. CASE i <= Reported
    <3>1. i \in KnownIn(pushed, Reported)
      BY <1>2, <2>1, <2>3 DEF KnownIn
    <3> QED  BY <2>2, <3>1 DEF InOrder, Rank
  <2>4. CASE i > Reported
    <3> DEFINE m == i - 1
    <3>1. m \in Nat /\ m + 1 = i /\ Reported \in 0..m /\ Reported \in Nat
      BY <1>2, <2>1, <2>4
    <3> HIDE DEF m
    <3>2. Rank(pushed, i) = Rank(pushed, m) + 1
      BY <2>1, <3>1, RankNext
    <3>3. Rank(pushed, Reported) <= Rank(pushed, m)
      BY <3>1, RankMonotonic
    <3>4. Rank(pushed, m) \in Nat /\ Rank(pushed, Reported) \in Nat
      BY <3>1, RankType
    <3>5. ~(Rank(pushed, i) <= Len(reports))
      BY <3>2, <3>3, <3>4 DEF InOrder
    <3> QED  BY <2>2, <3>5 DEF Rank
  <2> QED  BY <1>2, <2>1, <2>3, <2>4
<1> QED  BY <1>5, <1>6 DEF ReportsInOrder

\* For any number of sessions, every capacity, every set of events and whatever
\* interleaving of pushes and pops: until two TX threads have been inside
\* PollSyntheticEvents at once, the hosts are sent the known events in the order of the
\* pushes, none lost, repeated or overtaken.  Two pollers are the only way to lose the order.
THEOREM ReportsOrdered == Spec => []OrderedUnlessOverlapped
<1> DEFINE Inv == TypeInv /\ (~overlapped => OrderInv)
<1>1. Init => Inv
  BY InitTypes, InitOrder DEF OrderInv
<1>2. Inv /\ [Next]_vars => Inv'
  <2> SUFFICES ASSUME Inv, [Next]_vars PROVE Inv'
    OBVIOUS
  <2>1. TypeInv'
    BY NextTypes
  <2>2. ASSUME ~overlapped'
        PROVE  OrderInv'
    <3>1. OrderInv /\ Alone'
      BY <2>2, NextAlone DEF OrderInv
    <3> QED  BY <2>1, <3>1, NextOrder DEF OrderInv
  <2> QED  BY <2>1, <2>2
<1>3. Inv => OrderedUnlessOverlapped
  BY OrderedReports DEF OrderedUnlessOverlapped
<1> QED  BY <1>1, <1>2, <1>3, PTL DEF Spec

-----------------------------------------------------------------------------
(* Answers *)

\* The commands that are answered for themselves, and what a report can name.
Direct == {r \in Asked : Command(r).command \in {"CONTROL", "UNLINK"}}
Reportable == Interrupts \cup {NoSeq}

\* The packets on their way to the client of s, and those it has at least a byte of.
Queued(s) == {tx_queue[s][i] : i \in DOMAIN tx_queue[s]}
Leaving(s) == IF iov[<<s, "tx">>] = << >> THEN {} ELSE {Head(iov[<<s, "tx">>]).pkt}
Sent(s) == {wire[s][i].pkt : i \in DOMAIN wire[s]}

ReplyTo(s, p) ==
  /\ p.seqnum \in Direct /\ p.seqnum[1] = s
  /\ (p.command = "RET_UNLINK") = (Command(p.seqnum).command = "UNLINK")
  /\ Command(p.seqnum).command = "CONTROL" => p.length <= Command(p.seqnum).request.wLength

ReportOf(p) == p = Report(p.seqnum) /\ p.seqnum \in Reportable
ImportReply(p) == p.command = "REP_IMPORT" /\ p.seqnum = NoSeq

MatchedIn(s) ==
  /\ \A p \in Queued(s) : ReplyTo(s, p)
  /\ \A p \in Leaving(s) \cup Sent(s) : ReplyTo(s, p) \/ ReportOf(p) \/ ImportReply(p)
  /\ iov[<<s, "handler">>] # << >> => ImportReply(Head(iov[<<s, "handler">>]).pkt)

\* No two packets, queued, leaving or sent, answer the same command.
DistinctIn(s) ==
  /\ \A i, j \in DOMAIN tx_queue[s] : tx_queue[s][i].seqnum = tx_queue[s][j].seqnum => i = j
  /\ \A p \in Queued(s), q \in Leaving(s) \cup Sent(s) : p.seqnum # q.seqnum
  /\ iov[<<s, "tx">>] # << >> /\ Head(iov[<<s, "tx">>]).from = 1 =>
       \A p \in Leaving(s), q \in Sent(s) : p.seqnum \in Direct => p.seqnum # q.seqnum
  /\ \A i, j \in Replies(s) :
       wire[s][i].pkt.seqnum \in Direct /\ wire[s][i].pkt.seqnum = wire[s][j].pkt.seqnum => i = j

\* A TX thread between two packets has nothing left of the first.
Writing == \A s \in Sessions : iov[<<s, "tx">>] # << >> => tpc[s] \in {"send", "send_report"}

Answers == \A s \in Sessions : MatchedIn(s) /\ DistinctIn(s)
AnswerInv == TypeInv /\ Writing /\ seqnum \in Reportable /\ Answers

\* What the steps of s leave of the other sessions, and of what has been asked.
Elsewhere(s) == \A t \in Sessions \ {s} :
  /\ tx_queue'[t] = tx_queue[t] /\ wire'[t] = wire[t]
  /\ iov'[<<t, "handler">>] = iov[<<t, "handler">>] /\ iov'[<<t, "tx">>] = iov[<<t, "tx">>]
AskedKept == Asked \subseteq Asked' /\ \A r \in Asked : Command(r)' = Command(r)

-----------------------------------------------------------------------------
\* A new command takes the next sequence number.
LEMMA AskStep ==
  ASSUME SessionTypes, NEW s \in Sessions, NEW cmd \in Commands, NEW to, Recv(s, cmd, to),
         NEW x, x = NextSeq(s)
  PROVE  /\ Asked' = Asked \cup {x}
         /\ x \notin Asked /\ x \in Seqnums /\ x[1] = s
         /\ Command(x)' = cmd
         /\ \A r \in Asked : Command(r)' = Command(r)
<1> DEFINE n == Len(asked[s])
<1>1. /\ x \in Seqnums /\ x[1] = s /\ x[2] = n + 1 /\ n \in Nat
  BY NextSeqType DEF Recv
<1>2. /\ asked'[s] = Append(asked[s], cmd) /\ Len(asked'[s]) = n + 1
      /\ \A t \in Sessions \ {s} : asked'[t] = asked[t]
  BY AskTypes
<1>3. \A r \in Seqnums : r[1] \in Sessions /\ r[2] \in 1..MaxSeqs /\ r = <<r[1], r[2]>>
  BY DEF Seqnums
<1>4. \A k \in 1..n : asked'[s][k] = asked[s][k]
  <2>1. asked[s] \in Seq(Commands)
    BY DEF SessionTypes
  <2> QED  BY <1>2, <2>1, AppendProperties
<1>5. asked'[s][n + 1] = cmd
  <2>1. asked[s] \in Seq(Commands)
    BY DEF SessionTypes
  <2> QED  BY <1>2, <2>1, AppendProperties
<1>6. \A r \in Seqnums : r[2] <= Len(asked'[r[1]]) <=> r[2] <= Len(asked[r[1]]) \/ r = x
  <2> SUFFICES ASSUME NEW r \in Seqnums
               PROVE  r[2] <= Len(asked'[r[1]]) <=> r[2] <= Len(asked[r[1]]) \/ r = x
    OBVIOUS
  <2>1. CASE r[1] = s
    <3>1. r = x <=> r[2] = n + 1
      BY <1>1, <1>3, <2>1
    <3>2. r[2] \in Nat
      BY <1>3
    <3>3. r[2] <= n + 1 <=> r[2] <= n \/ r[2] = n + 1
      BY <1>1, <3>2
    <3> QED  BY <1>2, <2>1, <3>1, <3>3
  <2>2. CASE r[1] # s
    BY <1>1, <1>2, <1>3, <2>2
  <2> QED  BY <2>1, <2>2
<1>7. Asked' = Asked \cup {x}
  BY <1>1, <1>6 DEF Asked
<1>8. x \notin Asked
  <2>1. ~(n + 1 <= n)
    BY <1>1
  <2> QED  BY <1>1, <2>1 DEF Asked
<1>9. Command(x)' = cmd
  <2>1. asked'[x[1]][x[2]] = cmd
    <3>1. x[1] = s /\ x[2] = n + 1
      BY <1>1
    <3>2. asked'[s][n + 1] = cmd
      BY <1>5
    <3> HIDE DEF n
    <3> QED  BY <3>1, <3>2
  <2> QED  BY <2>1 DEF Command
<1>10. ASSUME NEW r \in Asked
       PROVE  Command(r)' = Command(r)
  <2>1. CASE r[1] = s
    <3>1. r[2] \in 1..n
      BY <1>1, <1>3, <2>1 DEF Asked
    <3> QED  BY <1>4, <2>1, <3>1 DEF Command
  <2>2. CASE r[1] # s
    BY <1>2, <1>3, <2>2 DEF Command, Asked
  <2> QED  BY <2>1, <2>2
<1> QED  BY <1>1, <1>7, <1>8, <1>9, <1>10

\* What a system call does to the packets of its session.
LEMMA TakesOutgoing ==
  ASSUME SocketTypes, NEW s \in Sessions, NEW a \in {"handler", "tx"},
         Socket!SendMsg(<<s, a>>) \/ (iov[<<s, a>>] # << >> /\ Socket!Send(<<s, a>>))
  PROVE  LET w == <<s, a>>
             p == Head(iov[w]).pkt
         IN /\ iov[w] # << >>
            /\ Sent(s)' = Sent(s) \cup {p}
            /\ iov'[w] # << >> => Head(iov'[w]).pkt = p /\ Head(iov'[w]).from # 1
            /\ \A b \in {"handler", "tx"} : b # a => iov'[<<s, b>>] = iov[<<s, b>>]
            /\ \A t \in Sessions : wire'[t] = wire[t] \/ t = s
            /\ \A i \in DOMAIN wire[s] : i \in DOMAIN wire'[s] /\ wire'[s][i] = wire[s][i]
            /\ \A i \in DOMAIN wire'[s] \ DOMAIN wire[s] :
                 /\ wire'[s][i].pkt = p
                 /\ wire'[s][i].n = 1 => i = Len(wire[s]) + 1 /\ Head(iov[w]).from = 1
<1> DEFINE w == <<s, a>>
<1>0. /\ wire \in [Sessions -> Seq(Bytes)] /\ iov \in [Socket!Writers -> Leftovers]
      /\ w \in Socket!Writers /\ w[1] = s
      /\ \A b \in {"handler", "tx"} : <<s, b>> \in Socket!Writers
      /\ \A b \in {"handler", "tx"} : b # a => <<s, b>> # w
  BY DEF SocketTypes, Socket!Writers
<1>1. PICK p \in Packets, n \in Nat : \E k \in 1..(Socket!Length(p) - n) :
        /\ n < Socket!Length(p) /\ iov[w] = Rest(p, n)
        /\ w[1] \notin broken
        /\ wire' = [wire EXCEPT ![w[1]] = @ \o Run(p, n, k)]
        /\ iov' = [iov EXCEPT ![w] = Rest(p, n + k)]
        /\ broken' = broken
  BY <1>0, TakesStep
<1>2. PICK k \in 1..(Socket!Length(p) - n) :
        /\ wire' = [wire EXCEPT ![s] = @ \o Run(p, n, k)]
        /\ iov' = [iov EXCEPT ![w] = Rest(p, n + k)]
  BY <1>0, <1>1
<1> DEFINE m == Len(wire[s])
<1>3. /\ k \in Nat /\ k >= 1 /\ n + k \in Nat /\ m \in Nat /\ DOMAIN wire[s] = 1..m
      /\ n + k + 1 # 1
  BY <1>0, PacketLength, LenProperties
<1>4. /\ Head(iov[w]).pkt = p /\ Head(iov[w]).from = n + 1 /\ iov[w] # << >>
  BY <1>1, RestSome
<1>5. wire'[s] = wire[s] \o Run(p, n, k) /\ iov'[w] = Rest(p, n + k)
  BY <1>0, <1>2
<1>6. /\ DOMAIN wire'[s] = 1..(m + k)
      /\ \A i \in 1..(m + k) : wire'[s][i] = IF i <= m THEN wire[s][i] ELSE [pkt |-> p, n |-> n + (i - m)]
  <2>1. /\ wire'[s] \in Seq(Bytes) /\ Len(wire'[s]) = m + k
        /\ \A i \in 1..(m + k) : wire'[s][i] = IF i <= m THEN wire[s][i] ELSE [pkt |-> p, n |-> n + (i - m)]
    <3>1. wire[s] \in Seq(Bytes) /\ k \in Nat
      BY <1>0, <1>3
    <3> DEFINE q == wire[s]
    <3>2. q \in Seq(Bytes)
      BY <3>1
    <3> HIDE DEF q
    <3>3. /\ q \o Run(p, n, k) \in Seq(Bytes)
          /\ Len(q \o Run(p, n, k)) = Len(q) + k
          /\ \A i \in 1..(Len(q) + k) :
               (q \o Run(p, n, k))[i] = IF i <= Len(q) THEN q[i] ELSE [pkt |-> p, n |-> n + (i - Len(q))]
      BY <3>1, <3>2, RunBytes
    <3> QED  BY <1>5, <3>3 DEF q
  <2> HIDE DEF m
  <2> QED  BY <2>1, LenProperties
<1>7. Rest(p, n + k) # << >> => Head(Rest(p, n + k)).pkt = p /\ Head(Rest(p, n + k)).from # 1
  <2>1. CASE n + k < Socket!Length(p)
    <3>1. Head(Rest(p, n + k)).pkt = p /\ Head(Rest(p, n + k)).from = n + k + 1
      BY <1>3, <2>1, RestSome
    <3> QED  BY <1>3, <3>1
  <2>2. CASE ~(n + k < Socket!Length(p))
    BY <1>3, <2>2, RestNone
  <2> QED  BY <2>1, <2>2
<1> HIDE DEF m, w
<1>8. \A i \in 1..m : i \in 1..(m + k) /\ i <= m
  BY <1>3
<1>9. \A i \in (1..(m + k)) \ (1..m) : ~(i <= m) /\ i - m \in Nat /\ i - m >= 1 /\ i \in Nat
  BY <1>3
<1>10. \A i \in (1..(m + k)) \ (1..m) : n + (i - m) = 1 => i = m + 1 /\ n + 1 = 1
  BY <1>3, <1>9
<1>11. \A i \in DOMAIN wire[s] : i \in DOMAIN wire'[s] /\ wire'[s][i] = wire[s][i]
  BY <1>3, <1>6, <1>8
<1>12. \A i \in DOMAIN wire'[s] \ DOMAIN wire[s] :
         wire'[s][i].pkt = p /\ (wire'[s][i].n = 1 => i = m + 1 /\ n + 1 = 1)
  <2> SUFFICES ASSUME NEW i \in DOMAIN wire'[s] \ DOMAIN wire[s]
               PROVE  wire'[s][i].pkt = p /\ (wire'[s][i].n = 1 => i = m + 1 /\ n + 1 = 1)
    OBVIOUS
  <2>1. i \in (1..(m + k)) \ (1..m)
    BY <1>3, <1>6
  <2>2. wire'[s][i] = [pkt |-> p, n |-> n + (i - m)]
    BY <1>6, <1>9, <2>1
  <2>3. n + (i - m) = 1 => i = m + 1 /\ n + 1 = 1
    BY <1>10, <2>1
  <2> QED  BY <2>2, <2>3
<1>13. Sent(s)' = Sent(s) \cup {p}
  <2>1. m + 1 \in DOMAIN wire'[s] \ DOMAIN wire[s]
    BY <1>3, <1>6
  <2>2. wire'[s][m + 1].pkt = p
    BY <1>12, <2>1
  <2> QED  BY <1>11, <1>12, <2>1, <2>2 DEF Sent
<1>14. \A b \in {"handler", "tx"} : b # a => iov'[<<s, b>>] = iov[<<s, b>>]
  BY <1>0, <1>2
<1>15. \A t \in Sessions : wire'[t] = wire[t] \/ t = s
  BY <1>0, <1>2
<1> QED  BY <1>4, <1>5, <1>7, <1>11, <1>12, <1>13, <1>14, <1>15 DEF m, w

LEMMA AskedStays ==
  ASSUME TypeInv, [Next]_vars
  PROVE  AskedKept
<1>1. CASE UNCHANGED asked
  BY <1>1 DEF AskedKept, Asked, Command
<1>2. ASSUME NEW s \in Sessions, NEW cmd \in Commands, NEW to, Recv(s, cmd, to)
      PROVE  AskedKept
  <2>1. PICK x : x = NextSeq(s)
    OBVIOUS
  <2>2. Asked' = Asked \cup {x} /\ \A r \in Asked : Command(r)' = Command(r)
    BY <1>2, <2>1, AskStep DEF TypeInv
  <2> QED  BY <2>2 DEF AskedKept
<1>3. ASSUME NEW s \in Sessions, HandleSyntheticSubmit(s) \/ SubmitElsewhere(s)
      PROVE  AskedKept
  <2>1. [command |-> "INTERRUPT"] \in Commands /\ [command |-> "OTHER"] \in Commands
    BY DEF Commands
  <2> QED  BY <1>2, <1>3, <2>1 DEF HandleSyntheticSubmit, SubmitElsewhere
<1>4. ASSUME NEW s \in Sessions, NEW req \in Requests, ControlSubmit(s, req)
      PROVE  AskedKept
  <2>1. [command |-> "CONTROL", request |-> req] \in Commands
    BY DEF Commands
  <2> QED  BY <1>2, <1>4, <2>1 DEF ControlSubmit
<1>5. ASSUME NEW s \in Sessions, NEW t \in Seqnums, RecvUnlink(s, t)
      PROVE  AskedKept
  <2>1. [command |-> "UNLINK", target |-> t] \in Commands
    BY DEF Commands
  <2> QED  BY <1>2, <1>5, <2>1 DEF RecvUnlink
<1>6. \/ UNCHANGED asked
      \/ \E s \in Sessions : \/ HandleSyntheticSubmit(s) \/ SubmitElsewhere(s)
                             \/ \E req \in Requests : ControlSubmit(s, req)
                             \/ \E t \in Seqnums : RecvUnlink(s, t)
  BY DEF Next, vars, historyVars, UiPush, ResetSyntheticState, Handle, SendImport, LoopTest,
         Activate, Leave, Transmit, TxFails, TxTake, TxIdle, TxExit, TxSend, PollParked, PollPop,
         Unpark, Translate, Repark
<1> QED  BY <1>1, <1>3, <1>4, <1>5, <1>6

\* Reports never name what is answered for itself.
LEMMA KindsApart == Direct \cap Reportable = {} /\ NoSeq \notin Direct
BY NoSeqAssumption DEF Direct, Reportable, Interrupts, Asked

\* What a packet answers does not change while more is asked.
LEMMA KindsStay ==
  ASSUME AskedKept
  PROVE  /\ \A r \in Asked \cup {NoSeq} : r \in Direct' <=> r \in Direct
         /\ Reportable \subseteq Reportable'
         /\ \A s, p : ReplyTo(s, p) => ReplyTo(s, p)'
         /\ \A p : ReportOf(p) => ReportOf(p)'
         /\ \A p : ImportReply(p)' <=> ImportReply(p)
<1>1. \A r \in Asked : r \in Asked' /\ Command(r)' = Command(r)
  BY DEF AskedKept
<1>2. \A r \in Asked : r \in Direct' <=> r \in Direct
  BY <1>1 DEF Direct
<1>3. NoSeq \notin Direct /\ NoSeq \notin Direct'
  BY NoSeqAssumption DEF Direct, Asked
<1>4. Reportable \subseteq Reportable'
  BY <1>1 DEF Reportable, Interrupts
<1>5. ASSUME NEW s, NEW p, ReplyTo(s, p)
      PROVE  ReplyTo(s, p)'
  <2>1. PICK r \in Asked : r = p.seqnum /\ r \in Direct
    BY <1>5 DEF ReplyTo, Direct
  <2>2. Command(p.seqnum)' = Command(p.seqnum)
    BY <1>1, <2>1
  <2>3. p.seqnum \in Direct'
    BY <1>2, <2>1
  <2> QED  BY <1>5, <2>2, <2>3 DEF ReplyTo
<1>6. \A p : ReportOf(p) => ReportOf(p)'
  BY <1>4 DEF ReportOf, Report
<1>7. \A p : ImportReply(p)' <=> ImportReply(p)
  BY DEF ImportReply
<1> QED  BY <1>2, <1>3, <1>4, <1>5, <1>6, <1>7

\* The seqnums a client is sent have been asked, so that they stay what they are.
LEMMA SentAsked ==
  ASSUME NEW s \in Sessions, MatchedIn(s), AskedKept
  PROVE  /\ \A p \in Queued(s) \cup Leaving(s) \cup Sent(s) : p.seqnum \in Asked \cup {NoSeq}
         /\ \A p \in Leaving(s) \cup Sent(s) : p.seqnum \in Direct' <=> p.seqnum \in Direct
         /\ \A i \in Replies(s) : wire[s][i].pkt \in Sent(s)
<1>1. \A p \in Queued(s) \cup Leaving(s) \cup Sent(s) : p.seqnum \in Asked \cup {NoSeq}
  BY DEF MatchedIn, ReplyTo, ReportOf, ImportReply, Direct, Reportable, Interrupts
<1>2. \A i \in Replies(s) : wire[s][i].pkt \in Sent(s)
  BY DEF Replies, Sent
<1> QED  BY <1>1, <1>2, KindsStay

\* A session no step touches.
LEMMA SameAnswers ==
  ASSUME NEW t \in Sessions, MatchedIn(t), DistinctIn(t), AskedKept,
         tx_queue'[t] = tx_queue[t], wire'[t] = wire[t],
         iov'[<<t, "handler">>] = iov[<<t, "handler">>], iov'[<<t, "tx">>] = iov[<<t, "tx">>]
  PROVE  MatchedIn(t)' /\ DistinctIn(t)'
<1>1. /\ Queued(t)' = Queued(t) /\ Leaving(t)' = Leaving(t)
      /\ Sent(t)' = Sent(t) /\ Replies(t)' = Replies(t)
  BY DEF Queued, Leaving, Sent, Replies
<1>2. MatchedIn(t)'
  <2>1. iov'[<<t, "handler">>] # << >> => ImportReply(Head(iov[<<t, "handler">>]).pkt)'
    BY DEF MatchedIn, ImportReply
  <2> QED  BY <1>1, <2>1, KindsStay DEF MatchedIn
<1>3. DistinctIn(t)'
  BY <1>1, SentAsked DEF DistinctIn
<1> QED  BY <1>2, <1>3

LEMMA ResetAnswers ==
  ASSUME AnswerInv, AskedKept, NEW s \in Sessions, ResetSyntheticState(s)
  PROVE  Elsewhere(s) /\ MatchedIn(s)' /\ DistinctIn(s)'
<1> USE DEF AnswerInv
<1>0. iov \in [Socket!Writers -> Leftovers]
  BY DEF TypeInv, SocketTypes
<1> DEFINE P == Packet("REP_IMPORT", NoSeq, 0, HeaderLen)
<1>2. P \in Packets /\ ImportReply(P)
  <2>1. HeaderLen \in Nat
    BY LengthAssumption
  <2> QED  BY <2>1, PacketType DEF ImportReply
<1> HIDE DEF P
<1>3. iov' = [iov EXCEPT ![<<s, "handler">>] = Rest(P, 0)]
  BY <1>2, WriterOf, BeginTypes DEF ResetSyntheticState, P, TypeInv
<1>4. /\ iov'[<<s, "handler">>] = Rest(P, 0)
      /\ \A t \in Sessions : iov'[<<t, "tx">>] = iov[<<t, "tx">>]
      /\ \A t \in Sessions \ {s} : iov'[<<t, "handler">>] = iov[<<t, "handler">>]
  BY <1>0, <1>3, WriterOf
<1>5. Head(Rest(P, 0)).pkt = P
  <2>1. 0 \in Nat /\ 0 < Socket!Length(P)
    BY <1>2, PacketLength
  <2> QED  BY <1>2, <2>1, RestSome
<1>6. UNCHANGED <<tx_queue, wire>>
  BY DEF ResetSyntheticState, sessionVars
<1>7. Elsewhere(s)
  BY <1>4, <1>6 DEF Elsewhere
<1>8. /\ Queued(s)' = Queued(s) /\ Leaving(s)' = Leaving(s)
      /\ Sent(s)' = Sent(s) /\ Replies(s)' = Replies(s)
  BY <1>4, <1>6 DEF Queued, Leaving, Sent, Replies
<1>9. MatchedIn(s)'
  <2>1. ImportReply(Head(iov[<<s, "handler">>]).pkt)'
    BY <1>2, <1>4, <1>5 DEF ImportReply
  <2> QED  BY <1>8, <2>1, KindsStay DEF Answers, MatchedIn
<1>10. DistinctIn(s)'
  BY <1>4, <1>6, <1>8, SentAsked DEF Answers, DistinctIn
<1> QED  BY <1>7, <1>9, <1>10

LEMMA TakeAnswers ==
  ASSUME AnswerInv, AskedKept, NEW s \in Sessions, TxTake(s)
  PROVE  Elsewhere(s) /\ MatchedIn(s)' /\ DistinctIn(s)'
<1> USE DEF AnswerInv
<1>0. /\ tpc \in [Sessions -> TxStates] /\ iov \in [Socket!Writers -> Leftovers]
      /\ tx_queue \in [Sessions -> Seq(Packets)] /\ MatchedIn(s) /\ DistinctIn(s)
  BY DEF TypeInv, SessionTypes, SocketTypes, Answers
<1> DEFINE q == tx_queue[s]
           P == Head(q)
<1>1. /\ q # << >> /\ P \in Packets /\ P = q[1] /\ tx_queue'[s] = Tail(q)
      /\ DOMAIN q = 1..Len(q) /\ Len(q) \in Nat \ {0} /\ DOMAIN Tail(q) = 1..(Len(q) - 1)
      /\ \A i \in 1..(Len(q) - 1) : Tail(q)[i] = q[i + 1]
  <2>1. q # << >> /\ tx_queue' = [tx_queue EXCEPT ![s] = Tail(@)]
    BY DEF TxTake
  <2>2. /\ P \in Packets /\ P = q[1] /\ Tail(q) \in Seq(Packets) /\ q \in Seq(Packets)
        /\ Len(q) \in Nat \ {0} /\ Len(Tail(q)) = Len(q) - 1
        /\ \A i \in 1..(Len(q) - 1) : Tail(q)[i] = q[i + 1]
    BY <1>0, <2>1, QueueHead DEF TypeInv
  <2>3. tx_queue'[s] = Tail(q)
    BY <1>0, <2>1
  <2> HIDE DEF q, P
  <2> QED  BY <2>1, <2>2, <2>3, LenProperties DEF q
<1>2. iov' = [iov EXCEPT ![<<s, "tx">>] = Rest(P, 0)]
  BY <1>1, WriterOf, BeginTypes DEF TxTake, TypeInv
<1> HIDE DEF P
<1>3. /\ iov'[<<s, "tx">>] = Rest(P, 0) /\ iov'[<<s, "handler">>] = iov[<<s, "handler">>]
      /\ Rest(P, 0) # << >> /\ Head(Rest(P, 0)).pkt = P
  <2>1. 0 \in Nat /\ 0 < Socket!Length(P)
    BY <1>1, PacketLength
  <2>2. Rest(P, 0) # << >> /\ Head(Rest(P, 0)).pkt = P
    BY <1>1, <2>1, RestSome
  <2> QED  BY <1>0, <1>2, <2>2, WriterOf
<1>4. iov[<<s, "tx">>] = << >>
  BY DEF TxTake, TxGoes, Writing
<1>5. wire' = wire
  BY DEF TxTake
<1>6. /\ Leaving(s) = {} /\ Leaving(s)' = {P} /\ Sent(s)' = Sent(s) /\ Replies(s)' = Replies(s)
      /\ P \in Queued(s)
  <2>1. 1 \in DOMAIN q
    BY <1>1
  <2> QED  BY <1>1, <1>3, <1>4, <1>5, <2>1 DEF Leaving, Sent, Replies, Queued
<1>7. ASSUME NEW i \in 1..(Len(q) - 1)
      PROVE  tx_queue'[s][i] = q[i + 1] /\ i + 1 \in DOMAIN q /\ i + 1 # 1
  BY <1>1
<1>8. Queued(s)' \subseteq Queued(s)
  BY <1>1, <1>7 DEF Queued
<1>9. \A p \in Queued(s)' : p.seqnum # P.seqnum
  <2>1. \A i \in DOMAIN q : q[i].seqnum = q[1].seqnum => i = 1
    <3>1. 1 \in DOMAIN q
      BY <1>1
    <3> QED  BY <1>0, <3>1 DEF DistinctIn
  <2>2. ASSUME NEW i \in 1..(Len(q) - 1)
        PROVE  q[i + 1].seqnum # P.seqnum
    BY <1>1, <1>7, <2>1
  <2> QED  BY <1>1, <1>7, <2>2 DEF Queued
<1>10. DistinctIn(s)'
  <2>0. \A p \in Queued(s), r \in Sent(s) : p.seqnum # r.seqnum
    BY <1>0 DEF DistinctIn
  <2>1. \A i, j \in DOMAIN tx_queue'[s] : tx_queue'[s][i].seqnum = tx_queue'[s][j].seqnum => i = j
    <3> SUFFICES ASSUME NEW i \in 1..(Len(q) - 1), NEW j \in 1..(Len(q) - 1),
                        q[i + 1].seqnum = q[j + 1].seqnum
                 PROVE  i = j
      BY <1>1, <1>7
    <3>1. i + 1 = j + 1
      BY <1>0, <1>7 DEF DistinctIn
    <3> QED  BY <3>1
  <2>2. \A p \in Queued(s)', r \in Leaving(s)' \cup Sent(s)' : p.seqnum # r.seqnum
    BY <1>6, <1>8, <1>9, <2>0
  <2>3. \A p \in Leaving(s)', r \in Sent(s)' : p.seqnum # r.seqnum
    BY <1>6, <2>0
  <2> QED  BY <1>0, <1>5, <1>6, <2>1, <2>2, <2>3, SentAsked DEF DistinctIn
<1>11. MatchedIn(s)'
  <2>1. iov'[<<s, "handler">>] # << >> => ImportReply(Head(iov[<<s, "handler">>]).pkt)'
    BY <1>0, <1>3 DEF MatchedIn, ImportReply
  <2> QED  BY <1>0, <1>6, <1>8, <2>1, KindsStay DEF MatchedIn
<1>12. Elsewhere(s)
  BY <1>0, <1>2, <1>5, WriterOf DEF Elsewhere, TxTake
<1> QED  BY <1>10, <1>11, <1>12

LEMMA SendAnswers ==
  ASSUME AnswerInv, AskedKept, NEW s \in Sessions, TxSend(s)
  PROVE  Elsewhere(s) /\ MatchedIn(s)' /\ DistinctIn(s)'
<1> USE DEF AnswerInv
<1>0. /\ iov \in [Socket!Writers -> Leftovers] /\ MatchedIn(s) /\ DistinctIn(s)
  BY DEF TypeInv, SocketTypes, Answers
<1> DEFINE w == <<s, "tx">>
           p == Head(iov[w]).pkt
<1>1. /\ iov[w] # << >>
      /\ Sent(s)' = Sent(s) \cup {p}
      /\ iov'[w] # << >> => Head(iov'[w]).pkt = p /\ Head(iov'[w]).from # 1
      /\ iov'[<<s, "handler">>] = iov[<<s, "handler">>]
      /\ \A t \in Sessions : wire'[t] = wire[t] \/ t = s
      /\ \A i \in DOMAIN wire[s] : i \in DOMAIN wire'[s] /\ wire'[s][i] = wire[s][i]
      /\ \A i \in DOMAIN wire'[s] \ DOMAIN wire[s] :
           /\ wire'[s][i].pkt = p
           /\ wire'[s][i].n = 1 => i = Len(wire[s]) + 1 /\ Head(iov[w]).from = 1
  <2>1. SocketTypes /\ Socket!SendMsg(<<s, "tx">>)
    BY DEF TypeInv, TxSend
  <2> QED  BY <2>1, TakesOutgoing
<1>2. tx_queue' = tx_queue
  BY DEF TxSend, sessionVars
<1>3. /\ Leaving(s) = {p} /\ Leaving(s)' \subseteq {p} /\ Queued(s)' = Queued(s)
  BY <1>1, <1>2 DEF Leaving, Queued
<1>4. \A i \in Replies(s)' :
        \/ i \in Replies(s) /\ wire'[s][i] = wire[s][i] /\ wire[s][i].pkt \in Sent(s)
        \/ i = Len(wire[s]) + 1 /\ wire'[s][i].pkt = p /\ Head(iov[w]).from = 1
  BY <1>1 DEF Replies, Sent
<1>5. DistinctIn(s)'
  <2>1. \A i, j \in DOMAIN tx_queue'[s] : tx_queue'[s][i].seqnum = tx_queue'[s][j].seqnum => i = j
    BY <1>0, <1>2 DEF DistinctIn
  <2>2. \A x \in Queued(s)', r \in Leaving(s)' \cup Sent(s)' : x.seqnum # r.seqnum
    BY <1>0, <1>1, <1>3 DEF DistinctIn
  <2>3. ~(iov'[w] # << >> /\ Head(iov'[w]).from = 1)
    BY <1>1
  <2>4. \A i, j \in Replies(s)' :
          wire'[s][i].pkt.seqnum \in Direct' /\ wire'[s][i].pkt.seqnum = wire'[s][j].pkt.seqnum => i = j
    <3>1. \A i, j \in Replies(s) :
            wire[s][i].pkt.seqnum \in Direct /\ wire[s][i].pkt.seqnum = wire[s][j].pkt.seqnum => i = j
      BY <1>0 DEF DistinctIn
    <3>2. Head(iov[w]).from = 1 => \A r \in Sent(s) : p.seqnum \in Direct => p.seqnum # r.seqnum
      BY <1>0, <1>1, <1>3 DEF DistinctIn
    <3>3. \A x \in Sent(s) \cup {p} : x.seqnum \in Direct' <=> x.seqnum \in Direct
      BY <1>0, <1>3, SentAsked
    <3> HIDE DEF w, p
    <3> QED  BY <1>4, <3>1, <3>2, <3>3
  <2> QED  BY <2>1, <2>2, <2>3, <2>4 DEF DistinctIn
<1>6. MatchedIn(s)'
  <2>1. iov'[<<s, "handler">>] # << >> => ImportReply(Head(iov[<<s, "handler">>]).pkt)'
    BY <1>0, <1>1 DEF MatchedIn, ImportReply
  <2> HIDE DEF p
  <2> QED  BY <1>0, <1>1, <1>3, <2>1, KindsStay DEF MatchedIn
<1>7. Elsewhere(s)
  <2>1. PICK x : iov' = [iov EXCEPT ![<<s, "tx">>] = x]
    BY WriterOf, TakesStep DEF TxSend, TypeInv
  <2> QED  BY <1>0, <1>1, <1>2, <2>1, WriterOf DEF Elsewhere
<1> QED  BY <1>5, <1>6, <1>7

LEMMA FailAnswers ==
  ASSUME AnswerInv, AskedKept, NEW s \in Sessions, TxFails(s)
  PROVE  Elsewhere(s) /\ MatchedIn(s)' /\ DistinctIn(s)'
<1> USE DEF AnswerInv
<1>0. /\ iov \in [Socket!Writers -> Leftovers] /\ MatchedIn(s) /\ DistinctIn(s)
  BY DEF TypeInv, SocketTypes, Answers
<1>1. UNCHANGED <<tx_queue, wire>> /\ iov' = [iov EXCEPT ![<<s, "tx">>] = << >>]
  BY DEF TxFails, Socket!SendFails
<1>2. iov'[<<s, "tx">>] = << >> /\ iov'[<<s, "handler">>] = iov[<<s, "handler">>]
  BY <1>0, <1>1, WriterOf
<1>3. /\ Leaving(s)' = {} /\ Queued(s)' = Queued(s) /\ Sent(s)' = Sent(s)
      /\ Replies(s)' = Replies(s)
  BY <1>1, <1>2 DEF Leaving, Queued, Sent, Replies
<1>4. DistinctIn(s)'
  BY <1>0, <1>1, <1>2, <1>3, SentAsked DEF DistinctIn
<1>5. MatchedIn(s)'
  <2>1. iov'[<<s, "handler">>] # << >> => ImportReply(Head(iov[<<s, "handler">>]).pkt)'
    BY <1>0, <1>2 DEF MatchedIn, ImportReply
  <2> QED  BY <1>0, <1>3, <2>1, KindsStay DEF MatchedIn
<1>6. Elsewhere(s)
  BY <1>0, <1>1, WriterOf DEF Elsewhere
<1> QED  BY <1>4, <1>5, <1>6

LEMMA ExitAnswers ==
  ASSUME AnswerInv, AskedKept, NEW s \in Sessions, TxExit(s)
  PROVE  Elsewhere(s) /\ MatchedIn(s)' /\ DistinctIn(s)'
<1> USE DEF AnswerInv
<1>0. tx_queue \in [Sessions -> Seq(Packets)] /\ MatchedIn(s) /\ DistinctIn(s)
  BY DEF TypeInv, SessionTypes, Answers
<1>1. /\ UNCHANGED <<wire, iov>> /\ tx_queue'[s] = << >>
      /\ \A t \in Sessions \ {s} : tx_queue'[t] = tx_queue[t]
  BY <1>0 DEF TxExit, socketVars
<1>2. /\ Leaving(s)' = Leaving(s) /\ Queued(s)' = {} /\ Sent(s)' = Sent(s)
      /\ Replies(s)' = Replies(s) /\ DOMAIN tx_queue'[s] = {}
  BY <1>1 DEF Leaving, Queued, Sent, Replies
<1>3. DistinctIn(s)'
  BY <1>0, <1>1, <1>2, SentAsked DEF DistinctIn
<1>4. MatchedIn(s)'
  <2>1. iov'[<<s, "handler">>] # << >> => ImportReply(Head(iov[<<s, "handler">>]).pkt)'
    BY <1>0, <1>1 DEF MatchedIn, ImportReply
  <2> QED  BY <1>0, <1>2, <2>1, KindsStay DEF MatchedIn
<1>5. Elsewhere(s)
  BY <1>1 DEF Elsewhere
<1> QED  BY <1>3, <1>4, <1>5

\* Even where a report is on its way: two sessions may have imported the device.
LEMMA ImportAnswers ==
  ASSUME AnswerInv, AskedKept, NEW s \in Sessions, SendImport(s)
  PROVE  Elsewhere(s) /\ MatchedIn(s)' /\ DistinctIn(s)'
<1> USE DEF AnswerInv
<1>0. iov \in [Socket!Writers -> Leftovers] /\ MatchedIn(s) /\ DistinctIn(s)
  BY DEF TypeInv, SocketTypes, Answers
<1>1. tx_queue' = tx_queue /\ hpc[s] = "reply"
  BY DEF SendImport, sessionVars
<1>2. iov[<<s, "handler">>] # << >>
  BY <1>1 DEF TypeInv, Replying
<1> DEFINE p == Head(iov[<<s, "handler">>]).pkt
<1>3. ImportReply(p)
  BY <1>0, <1>2 DEF MatchedIn
<1>4. /\ Sent(s)' \subseteq Sent(s) \cup {p}
      /\ iov'[<<s, "handler">>] # << >> => Head(iov'[<<s, "handler">>]).pkt = p
      /\ iov'[<<s, "tx">>] = iov[<<s, "tx">>]
      /\ \A i \in Replies(s)' : i \in Replies(s) /\ wire'[s][i] = wire[s][i]
      /\ \A t \in Sessions : wire'[t] = wire[t] \/ t = s
  <2>1. CASE Socket!Send(<<s, "handler">>)
    <3>1. /\ Sent(s)' = Sent(s) \cup {p}
          /\ iov'[<<s, "handler">>] # << >> => Head(iov'[<<s, "handler">>]).pkt = p
          /\ iov'[<<s, "tx">>] = iov[<<s, "tx">>]
          /\ \A t \in Sessions : wire'[t] = wire[t] \/ t = s
          /\ \A i \in DOMAIN wire[s] : i \in DOMAIN wire'[s] /\ wire'[s][i] = wire[s][i]
          /\ \A i \in DOMAIN wire'[s] \ DOMAIN wire[s] : wire'[s][i].pkt = p
      <4>1. SocketTypes
        BY DEF TypeInv
      <4> QED  BY <1>2, <2>1, <4>1, TakesOutgoing
    <3>2. p.command = "REP_IMPORT"
      BY <1>3 DEF ImportReply
    <3> HIDE DEF p
    <3>3. \A i \in Replies(s)' : i \in Replies(s) /\ wire'[s][i] = wire[s][i]
      BY <3>1, <3>2 DEF Replies
    <3> QED  BY <3>1, <3>3
  <2>2. CASE Socket!SendFails(<<s, "handler">>)
    <3>1. wire' = wire /\ iov' = [iov EXCEPT ![<<s, "handler">>] = << >>]
      BY <2>2 DEF Socket!SendFails
    <3>2. iov'[<<s, "handler">>] = << >> /\ iov'[<<s, "tx">>] = iov[<<s, "tx">>]
      BY <1>0, <3>1, WriterOf
    <3> QED  BY <3>1, <3>2 DEF Sent, Replies
  <2> QED  BY <2>1, <2>2 DEF SendImport
<1> HIDE DEF p
<1>5. Queued(s)' = Queued(s) /\ Leaving(s)' = Leaving(s)
  BY <1>1, <1>4 DEF Queued, Leaving
<1>6. \A x : x.seqnum \in Direct => x.seqnum # p.seqnum
  BY <1>3, KindsApart DEF ImportReply
<1>7. \A x \in Queued(s) : x.seqnum \in Direct
  BY <1>0 DEF MatchedIn, ReplyTo
<1>8. DistinctIn(s)'
  <2>1. \A i, j \in DOMAIN tx_queue'[s] : tx_queue'[s][i].seqnum = tx_queue'[s][j].seqnum => i = j
    BY <1>0, <1>1 DEF DistinctIn
  <2>2. \A x \in Queued(s)', r \in Leaving(s)' \cup Sent(s)' : x.seqnum # r.seqnum
    BY <1>0, <1>4, <1>5, <1>6, <1>7 DEF DistinctIn
  <2>3. iov'[<<s, "tx">>] # << >> /\ Head(iov'[<<s, "tx">>]).from = 1 =>
          \A x \in Leaving(s)', r \in Sent(s)' : x.seqnum \in Direct' => x.seqnum # r.seqnum
    BY <1>0, <1>4, <1>5, <1>6, SentAsked DEF DistinctIn
  <2>4. \A i, j \in Replies(s)' :
          wire'[s][i].pkt.seqnum \in Direct' /\ wire'[s][i].pkt.seqnum = wire'[s][j].pkt.seqnum => i = j
    BY <1>0, <1>4, SentAsked DEF DistinctIn
  <2> QED  BY <2>1, <2>2, <2>3, <2>4 DEF DistinctIn
<1>9. MatchedIn(s)'
  <2>1. iov'[<<s, "handler">>] # << >> => ImportReply(Head(iov[<<s, "handler">>]).pkt)'
    BY <1>3, <1>4 DEF ImportReply
  <2> QED  BY <1>0, <1>3, <1>4, <1>5, <2>1, KindsStay DEF MatchedIn
<1>10. Elsewhere(s)
  <2>1. PICK x : iov' = [iov EXCEPT ![<<s, "handler">>] = x]
    BY <1>2, WriterOf, TakesStep DEF SendImport, Socket!SendFails, TypeInv
  <2> QED  BY <1>0, <1>1, <1>4, <2>1, WriterOf DEF Elsewhere
<1> QED  BY <1>8, <1>9, <1>10

LEMMA TranslateAnswers ==
  ASSUME AnswerInv, AskedKept, NEW s \in Sessions, Translate(s)
  PROVE  Elsewhere(s) /\ MatchedIn(s)' /\ DistinctIn(s)'
<1> USE DEF AnswerInv
<1>0. iov \in [Socket!Writers -> Leftovers] /\ MatchedIn(s) /\ DistinctIn(s)
  BY DEF TypeInv, SocketTypes, Answers
<1>1. UNCHANGED <<tx_queue, wire>> /\ tpc[s] = "translate"
  BY DEF Translate, TxGoes, sessionVars
<1>2. CASE UNCHANGED iov
  BY <1>0, <1>1, <1>2, SameAnswers DEF Elsewhere
<1>3. CASE ~UNCHANGED iov
  <2> DEFINE P == Packet("RET_SUBMIT", seqnum, 0, ReportLen)
  <2>1. Socket!Begin(<<s, "tx">>, P)
    BY <1>3 DEF Translate
  <2>2. P \in Packets /\ P.seqnum = seqnum /\ ReportOf(P)
    BY ReportPacket DEF TypeInv, ReportOf, Report
  <2> HIDE DEF P
  <2>3. iov' = [iov EXCEPT ![<<s, "tx">>] = Rest(P, 0)]
    BY <2>1, <2>2, WriterOf, BeginTypes DEF TypeInv
  <2>4. /\ iov'[<<s, "tx">>] = Rest(P, 0) /\ iov'[<<s, "handler">>] = iov[<<s, "handler">>]
        /\ Rest(P, 0) # << >> /\ Head(Rest(P, 0)).pkt = P
    <3>1. 0 \in Nat /\ 0 < Socket!Length(P)
      BY <2>2, PacketLength
    <3>2. Rest(P, 0) # << >> /\ Head(Rest(P, 0)).pkt = P
      BY <2>2, <3>1, RestSome
    <3> QED  BY <1>0, <2>3, <3>2, WriterOf
  <2>5. /\ Leaving(s)' = {P} /\ Sent(s)' = Sent(s) /\ Replies(s)' = Replies(s)
        /\ Queued(s)' = Queued(s)
    BY <1>1, <2>4 DEF Leaving, Sent, Replies, Queued
  <2>6. P.seqnum \notin Direct /\ P.seqnum \notin Direct'
    <3>1. P.seqnum \in Asked \cup {NoSeq}
      BY <2>2 DEF Reportable, Interrupts
    <3>2. P.seqnum \notin Direct
      BY <2>2, KindsApart
    <3> QED  BY <3>1, <3>2, KindsStay
  <2>7. \A x \in Queued(s) : x.seqnum \in Direct
    BY <1>0 DEF MatchedIn, ReplyTo
  <2>8. DistinctIn(s)'
    <3>1. \A i, j \in DOMAIN tx_queue'[s] : tx_queue'[s][i].seqnum = tx_queue'[s][j].seqnum => i = j
      BY <1>0, <1>1 DEF DistinctIn
    <3>2. \A p \in Queued(s)', r \in Leaving(s)' \cup Sent(s)' : p.seqnum # r.seqnum
      BY <1>0, <2>5, <2>6, <2>7 DEF DistinctIn
    <3>3. \A p \in Leaving(s)' : p.seqnum \notin Direct'
      BY <2>5, <2>6
    <3>4. \A i, j \in Replies(s)' :
            wire'[s][i].pkt.seqnum \in Direct' /\ wire'[s][i].pkt.seqnum = wire'[s][j].pkt.seqnum => i = j
      BY <1>0, <1>1, <2>5, SentAsked DEF DistinctIn
    <3> QED  BY <3>1, <3>2, <3>3, <3>4 DEF DistinctIn
  <2>9. MatchedIn(s)'
    <3>1. iov'[<<s, "handler">>] # << >> => ImportReply(Head(iov[<<s, "handler">>]).pkt)'
      BY <1>0, <2>4 DEF MatchedIn, ImportReply
    <3> QED  BY <1>0, <2>2, <2>5, <3>1, KindsStay DEF MatchedIn
  <2>10. Elsewhere(s)
    BY <1>0, <1>1, <2>3, WriterOf DEF Elsewhere
  <2> QED  BY <2>8, <2>9, <2>10
<1> QED  BY <1>2, <1>3

\* A command that is answered at once takes a sequence number no packet has, and its reply
\* goes to the end of the queue.
LEMMA AskAnswers ==
  ASSUME AnswerInv, AskedKept, NEW s \in Sessions, NEW cmd \in Commands, NEW to, Recv(s, cmd, to),
         NEW x, x = NextSeq(s), UNCHANGED <<wire, iov>>, NEW pkt \in Packets, Enqueue(s, pkt),
         pkt.seqnum = x, cmd.command \in {"CONTROL", "UNLINK"},
         (pkt.command = "RET_UNLINK") = (cmd.command = "UNLINK"),
         cmd.command = "CONTROL" => pkt.length <= cmd.request.wLength
  PROVE  Elsewhere(s) /\ MatchedIn(s)' /\ DistinctIn(s)'
<1> USE DEF AnswerInv
<1>0. /\ tx_queue \in [Sessions -> Seq(Packets)] /\ tx_queue[s] \in Seq(Packets)
      /\ MatchedIn(s) /\ DistinctIn(s)
  BY DEF TypeInv, SessionTypes, Answers
<1>1. /\ Asked' = Asked \cup {x}
      /\ x \notin Asked /\ x \in Seqnums /\ x[1] = s
      /\ Command(x)' = cmd
  <2>1. SessionTypes
    BY DEF TypeInv
  <2> QED  BY <2>1, AskStep
<1>2. \A p \in Queued(s) \cup Leaving(s) \cup Sent(s) : p.seqnum # x
  <2>1. x # NoSeq
    BY <1>1, NoSeqAssumption
  <2> QED  BY <1>0, <1>1, <2>1, SentAsked
<1>3. /\ Leaving(s)' = Leaving(s) /\ Sent(s)' = Sent(s) /\ Replies(s)' = Replies(s)
  BY DEF Leaving, Sent, Replies
<1> DEFINE q == tx_queue[s]
<1>4. /\ Queued(s)' = Queued(s) \cup {pkt}
      /\ \A i, j \in DOMAIN tx_queue'[s] : tx_queue'[s][i].seqnum = tx_queue'[s][j].seqnum => i = j
  <2>0. /\ \A i, j \in DOMAIN q : q[i].seqnum = q[j].seqnum => i = j
        /\ \A i \in DOMAIN q : q[i].seqnum # x
    <3>1. \A i \in DOMAIN q : q[i] \in Queued(s)
      BY DEF Queued
    <3> QED  BY <1>0, <1>2, <3>1 DEF DistinctIn
  <2>1. tx_queue'[s] = Append(q, pkt)
    BY <1>0 DEF Enqueue
  <2>2. /\ DOMAIN q = 1..Len(q) /\ Len(q) \in Nat /\ DOMAIN tx_queue'[s] = 1..(Len(q) + 1)
        /\ \A i \in 1..Len(q) : tx_queue'[s][i] = q[i]
        /\ tx_queue'[s][Len(q) + 1] = pkt
    <3>1. /\ Len(Append(q, pkt)) = Len(q) + 1 /\ Append(q, pkt) \in Seq(Packets)
          /\ \A i \in 1..Len(q) : Append(q, pkt)[i] = q[i]
          /\ Append(q, pkt)[Len(q) + 1] = pkt
      BY <1>0, AppendProperties
    <3> DEFINE a == Append(q, pkt)
    <3>2. DOMAIN a = 1..Len(a)
      <4> HIDE DEF a
      <4>1. a \in Seq(Packets)
        BY <3>1 DEF a
      <4> QED  BY <4>1, LenProperties
    <3>3. DOMAIN q = 1..Len(q) /\ Len(q) \in Nat
      BY <1>0, LenProperties
    <3> QED  BY <2>1, <3>1, <3>2, <3>3
  <2> DEFINE m == Len(q)
  <2>3. \A i \in 1..(m + 1) : i \in 1..m \/ i = m + 1
    BY <2>2
  <2>4. m + 1 \in 1..(m + 1) /\ 1..m \subseteq 1..(m + 1)
    BY <2>2
  <2> HIDE DEF m
  <2>5. Queued(s)' = Queued(s) \cup {pkt}
    BY <2>2, <2>3, <2>4 DEF Queued, m
  <2>6. \A i, j \in DOMAIN tx_queue'[s] : tx_queue'[s][i].seqnum = tx_queue'[s][j].seqnum => i = j
    <3> SUFFICES ASSUME NEW i \in 1..(m + 1), NEW j \in 1..(m + 1),
                        tx_queue'[s][i].seqnum = tx_queue'[s][j].seqnum
                 PROVE  i = j
      BY <2>2 DEF m
    <3>1. /\ \A k \in 1..m : tx_queue'[s][k] = q[k] /\ k \in DOMAIN q
          /\ tx_queue'[s][m + 1].seqnum = x
      BY <2>2 DEF m
    <3> HIDE DEF q
    <3> QED  BY <2>0, <2>3, <3>1
  <2> QED  BY <2>5, <2>6
<1>5. ReplyTo(s, pkt)'
  <2>1. Command(pkt.seqnum)' = cmd
    BY <1>1
  <2>2. x \in Direct'
    BY <1>1 DEF Direct
  <2> QED  BY <1>1, <2>1, <2>2 DEF ReplyTo
<1>6. MatchedIn(s)'
  <2>1. iov'[<<s, "handler">>] # << >> => ImportReply(Head(iov[<<s, "handler">>]).pkt)'
    BY <1>0 DEF MatchedIn, ImportReply
  <2> QED  BY <1>0, <1>3, <1>4, <1>5, <2>1, KindsStay DEF MatchedIn
<1>7. DistinctIn(s)'
  <2>1. \A p \in Queued(s)', r \in Leaving(s)' \cup Sent(s)' : p.seqnum # r.seqnum
    <3>1. \A p \in Queued(s), r \in Leaving(s) \cup Sent(s) : p.seqnum # r.seqnum
      BY <1>0 DEF DistinctIn
    <3> QED  BY <1>2, <1>3, <1>4, <3>1
  <2>2. iov'[<<s, "tx">>] # << >> /\ Head(iov'[<<s, "tx">>]).from = 1 =>
          \A p \in Leaving(s)', r \in Sent(s)' : p.seqnum \in Direct' => p.seqnum # r.seqnum
    BY <1>0, <1>3, SentAsked DEF DistinctIn
  <2>3. \A i, j \in Replies(s)' :
          wire'[s][i].pkt.seqnum \in Direct' /\ wire'[s][i].pkt.seqnum = wire'[s][j].pkt.seqnum => i = j
    BY <1>0, <1>3, SentAsked DEF DistinctIn
  <2> QED  BY <1>4, <2>1, <2>2, <2>3 DEF DistinctIn
<1>8. Elsewhere(s)
  BY <1>0 DEF Elsewhere, Enqueue
<1> QED  BY <1>6, <1>7, <1>8

LEMMA CommandAnswers ==
  ASSUME AnswerInv, AskedKept, NEW s \in Sessions,
         (\E req \in Requests : ControlSubmit(s, req)) \/ (\E t \in Seqnums : RecvUnlink(s, t))
  PROVE  Elsewhere(s) /\ MatchedIn(s)' /\ DistinctIn(s)'
<1> DEFINE y == NextSeq(s)
<1>1. PICK x : x = y
  OBVIOUS
<1>2. UNCHANGED <<wire, iov>>
  BY DEF ControlSubmit, RecvUnlink, socketVars
<1>3. ASSUME NEW req \in Requests, ControlSubmit(s, req)
      PROVE  Elsewhere(s) /\ MatchedIn(s)' /\ DistinctIn(s)'
  <2> DEFINE cmd == [command |-> "CONTROL", request |-> req]
             pkt == ControlReply(x, req)
  <2>1. cmd \in Commands /\ cmd.command = "CONTROL" /\ cmd.request = req
    BY DEF Commands
  <2>2. Recv(s, cmd, AfterData(req.out)) /\ Enqueue(s, pkt)
    BY <1>1, <1>3 DEF ControlSubmit
  <2>3. x \in Seqnums
    BY <1>1, <1>3, NextSeqType DEF ControlSubmit, Recv, AnswerInv, TypeInv
  <2>4. pkt \in Packets /\ pkt.command = "RET_SUBMIT" /\ pkt.seqnum = x /\ pkt.length <= req.wLength
    BY <2>3, ControlReplyType
  <2> HIDE DEF cmd, pkt
  <2> QED  BY <1>1, <1>2, <2>1, <2>2, <2>4, AskAnswers
<1>4. ASSUME NEW t \in Seqnums, RecvUnlink(s, t)
      PROVE  Elsewhere(s) /\ MatchedIn(s)' /\ DistinctIn(s)'
  <2> DEFINE cmd == [command |-> "UNLINK", target |-> t]
             pkt == Packet("RET_UNLINK", x, 0, 0)
  <2>1. cmd \in Commands /\ cmd.command = "UNLINK"
    BY DEF Commands
  <2>2. Recv(s, cmd, "loop") /\ Enqueue(s, pkt)
    BY <1>1, <1>4 DEF RecvUnlink
  <2>3. x \in Seqnums
    BY <1>1, <1>4, NextSeqType DEF RecvUnlink, Recv, AnswerInv, TypeInv
  <2>4. pkt \in Packets /\ pkt.command = "RET_UNLINK" /\ pkt.seqnum = x
    BY <2>3, PacketType
  <2> HIDE DEF cmd, pkt
  <2> QED  BY <1>1, <1>2, <2>1, <2>2, <2>4, AskAnswers
<1> QED  BY <1>3, <1>4

LEMMA NextAnswers ==
  ASSUME AnswerInv, [Next]_vars
  PROVE  Answers'
<1>0. AskedKept /\ Answers
  BY AskedStays DEF AnswerInv
<1>1. ASSUME NEW s \in Sessions, Elsewhere(s), MatchedIn(s)', DistinctIn(s)'
      PROVE  Answers'
  <2>1. ASSUME NEW t \in Sessions \ {s}
        PROVE  MatchedIn(t)' /\ DistinctIn(t)'
    BY <1>0, <1>1, SameAnswers DEF Answers, Elsewhere
  <2> QED  BY <1>1, <2>1 DEF Answers
<1>2. CASE UNCHANGED <<tx_queue, socketVars>>
  <2>1. UNCHANGED <<tx_queue, wire, iov>>
    BY <1>2 DEF socketVars
  <2> QED  BY <1>0, <2>1, SameAnswers DEF Answers
<1>3. ASSUME NEW s \in Sessions, SocketStep(s)
      PROVE  Answers'
  BY <1>0, <1>1, <1>3, ResetAnswers, ImportAnswers, TakeAnswers, SendAnswers, FailAnswers,
     TranslateAnswers DEF SocketStep
<1>4. ASSUME NEW s \in Sessions,
             \/ TxExit(s) \/ \E req \in Requests : ControlSubmit(s, req)
             \/ \E t \in Seqnums : RecvUnlink(s, t)
      PROVE  Answers'
  BY <1>0, <1>1, <1>4, ExitAnswers, CommandAnswers
<1>5. \/ UNCHANGED <<tx_queue, socketVars>>
      \/ \E s \in Sessions :
           \/ SocketStep(s) \/ TxExit(s) \/ \E req \in Requests : ControlSubmit(s, req)
           \/ \E t \in Seqnums : RecvUnlink(s, t)
  BY DEF Next, vars, SocketStep, UiPush, HandleSyntheticSubmit, SubmitElsewhere, Handle, Leave,
         Transmit, LoopTest, Activate, TxIdle, PollParked, PollPop, Unpark, Repark, sessionVars
<1> QED  BY <1>2, <1>3, <1>4, <1>5

\* What is parked is an interrupt URB, or nothing.
LEMMA NextParked ==
  ASSUME AnswerInv, [Next]_vars
  PROVE  seqnum' \in Reportable'
<1>1. Reportable \subseteq Reportable'
  BY AskedStays, KindsStay DEF AnswerInv
<1>2. ASSUME NEW s \in Sessions, HandleSyntheticSubmit(s)
      PROVE  seqnum' \in Reportable'
  <2> DEFINE cmd == [command |-> "INTERRUPT"]
  <2>1. cmd \in Commands /\ cmd.command = "INTERRUPT"
    BY DEF Commands
  <2>2. Recv(s, cmd, "activate") /\ seqnum' = NextSeq(s)
    BY <1>2 DEF HandleSyntheticSubmit
  <2> HIDE DEF cmd
  <2>3. PICK x : x = NextSeq(s)
    OBVIOUS
  <2>4. x \in Asked' /\ Command(x)' = cmd
    BY <2>1, <2>2, <2>3, AskStep DEF AnswerInv, TypeInv
  <2> QED  BY <2>1, <2>2, <2>3, <2>4 DEF Reportable, Interrupts
<1>3. seqnum' = NoSeq \/ seqnum' = seqnum \/ \E s \in Sessions : HandleSyntheticSubmit(s)
  BY DEF Next, vars, parkedVars, UiPush, ResetSyntheticState, SubmitElsewhere, Handle, SendImport,
         LoopTest, Activate, Leave, ControlSubmit, RecvUnlink, Transmit, TxFails, TxTake, TxIdle,
         TxExit, TxSend, PollParked, PollPop, Unpark, Translate, Repark
<1> QED  BY <1>1, <1>2, <1>3 DEF AnswerInv, Reportable

LEMMA NextWriting ==
  ASSUME TypeInv, Writing, [Next]_vars
  PROVE  Writing'
<1>0. tpc \in [Sessions -> TxStates] /\ iov \in [Socket!Writers -> Leftovers]
  BY DEF TypeInv, SessionTypes, SocketTypes
<1>1. ASSUME NEW s \in Sessions, ResetSyntheticState(s) \/ SendImport(s)
      PROVE  Writing'
  <2>1. \E x : iov' = [iov EXCEPT ![<<s, "handler">>] = x]
    BY <1>1, WriterOf, TakesStep
    DEF ResetSyntheticState, SendImport, Socket!Begin, Socket!SendFails, TypeInv, Replying
  <2>2. \A t \in Sessions : iov'[<<t, "tx">>] = iov[<<t, "tx">>]
    BY <1>0, <2>1, WriterOf
  <2>3. tpc' = tpc
    BY <1>1 DEF ResetSyntheticState, SendImport
  <2> QED  BY <2>2, <2>3 DEF Writing
<1>2. ASSUME NEW s \in Sessions, TxTake(s) \/ TxSend(s) \/ TxFails(s) \/ (Translate(s) /\ ~UNCHANGED iov)
      PROVE  Writing'
  <2>1. \E x : iov' = [iov EXCEPT ![<<s, "tx">>] = x]
    BY <1>2, WriterOf, TakesStep
    DEF TxTake, TxSend, TxFails, Translate, Socket!Begin, Socket!SendFails, TypeInv
  <2>2. \A t \in Sessions \ {s} : iov'[<<t, "tx">>] = iov[<<t, "tx">>]
    BY <1>0, <2>1, WriterOf
  <2>3. iov'[<<s, "tx">>] # << >> => tpc'[s] \in {"send", "send_report"}
    <3>1. TxFails(s) => iov'[<<s, "tx">>] = << >>
      BY <1>0, WriterOf DEF TxFails, Socket!SendFails
    <3> QED  BY <1>0, <1>2, <3>1 DEF TxTake, TxSend, Translate, TxGoes
  <2>4. \A t \in Sessions \ {s} : tpc'[t] = tpc[t]
    BY <1>0, <1>2 DEF TxTake, TxSend, TxFails, Translate, TxGoes
  <2> QED  BY <2>2, <2>3, <2>4 DEF Writing
<1>3. ASSUME UNCHANGED iov, \A t \in Sessions : tpc[t] \in {"send", "send_report"} => tpc'[t] = tpc[t]
      PROVE  Writing'
  BY <1>3 DEF Writing
<1>4. ASSUME NEW s \in Sessions, Translate(s), UNCHANGED iov
      PROVE  Writing'
  BY <1>0, <1>3, <1>4 DEF Translate, TxGoes
<1>5. CASE UNCHANGED socketVars /\ UNCHANGED tpc
  BY <1>3, <1>5 DEF socketVars
<1>6. ASSUME NEW s \in Sessions,
             TxIdle(s) \/ TxExit(s) \/ PollParked(s) \/ PollPop(s) \/ Unpark(s) \/ Repark(s)
      PROVE  Writing'
  <2>1. UNCHANGED iov /\ \A t \in Sessions : tpc[t] \in {"send", "send_report"} => tpc'[t] = tpc[t]
    BY <1>0, <1>6 DEF TxIdle, TxExit, PollParked, PollPop, Unpark, Repark, TxGoes, socketVars
  <2> QED  BY <1>3, <2>1
<1>7. \/ UNCHANGED socketVars /\ UNCHANGED tpc
      \/ \E s \in Sessions : \/ SocketStep(s) \/ TxIdle(s) \/ TxExit(s) \/ PollParked(s)
                             \/ PollPop(s) \/ Unpark(s) \/ Repark(s)
  BY DEF Next, vars, SocketStep, UiPush, HandleSyntheticSubmit, SubmitElsewhere, ControlSubmit,
         RecvUnlink, Handle, Leave, Transmit, LoopTest, Activate
<1> QED  BY <1>1, <1>2, <1>4, <1>5, <1>6, <1>7 DEF SocketStep

LEMMA InitAnswers == Init => Writing /\ seqnum \in Reportable /\ Answers
<1> SUFFICES ASSUME Init PROVE Writing /\ seqnum \in Reportable /\ Answers
  OBVIOUS
<1>1. /\ \A s \in Sessions : wire[s] = << >> /\ tx_queue[s] = << >> /\ seqnum = NoSeq
      /\ \A s \in Sessions : iov[<<s, "handler">>] = << >> /\ iov[<<s, "tx">>] = << >>
  BY WriterOf DEF Init, Socket!Init
<1>2. DOMAIN << >> = {}
  OBVIOUS
<1>3. \A s \in Sessions : DOMAIN wire[s] = {} /\ DOMAIN tx_queue[s] = {}
  BY <1>1, <1>2
<1>4. \A s \in Sessions : Sent(s) = {} /\ Replies(s) = {} /\ Queued(s) = {} /\ Leaving(s) = {}
  BY <1>1, <1>3 DEF Replies, Queued, Leaving, Sent
<1>5. Answers
  BY <1>1, <1>3, <1>4 DEF Answers, MatchedIn, DistinctIn
<1>6. seqnum \in Reportable
  BY DEF Init, Reportable
<1> QED  BY <1>1, <1>5, <1>6 DEF Writing

LEMMA AnswersAsk == AnswerInv => AnswersAsker
<1> SUFFICES ASSUME AnswerInv PROVE AnswersAsker
  OBVIOUS
<1>1. ASSUME NEW s \in Sessions, NEW i \in Replies(s), NEW pkt, pkt = wire[s][i].pkt
      PROVE  \/ pkt = Report(pkt.seqnum) /\ pkt.seqnum \in Interrupts \cup {NoSeq}
             \/ /\ pkt.seqnum \in Asked /\ pkt.seqnum[1] = s
                /\ Command(pkt.seqnum).command \in {"CONTROL", "UNLINK"}
                /\ (pkt.command = "RET_UNLINK") = (Command(pkt.seqnum).command = "UNLINK")
                /\ Command(pkt.seqnum).command = "CONTROL" =>
                     pkt.length <= Command(pkt.seqnum).request.wLength
                /\ \A j \in Replies(s) : wire[s][j].pkt.seqnum = pkt.seqnum => i = j
  <2>1. pkt \in Sent(s) /\ pkt.command # "REP_IMPORT"
    BY <1>1 DEF Replies, Sent
  <2>2. ReplyTo(s, pkt) \/ ReportOf(pkt)
    BY <2>1 DEF AnswerInv, Answers, MatchedIn, ImportReply
  <2>3. \A j \in Replies(s) : pkt.seqnum \in Direct /\ wire[s][j].pkt.seqnum = pkt.seqnum => i = j
    BY <1>1 DEF AnswerInv, Answers, DistinctIn
  <2> QED  BY <2>2, <2>3 DEF ReplyTo, ReportOf, Direct, Reportable
<1> QED  BY <1>1 DEF AnswersAsker

\* For any number of sessions, however their clients submit and unlink and whichever TX
\* threads poll: a control request or unlink is answered on its own session, once, by the
\* right kind of packet with no more data than was asked for, and a report never takes its
\* sequence number.
THEOREM AnswersMatch == Spec => []AnswersAsker
<1>1. Init => AnswerInv
  BY InitTypes, InitAnswers DEF AnswerInv
<1>2. AnswerInv /\ [Next]_vars => AnswerInv'
  BY NextTypes, NextWriting, NextParked, NextAnswers DEF AnswerInv
<1>3. AnswerInv => AnswersAsker
  BY AnswersAsk
<1> QED  BY <1>1, <1>2, <1>3, PTL DEF Spec
=============================================================================

------------------------ MODULE ControlStreamProofs ------------------------
(***************************************************************************)
(* Proofs about ControlStream, for every number of byte values, every size *)
(* of the messages, any number of other branches and any cut of the stream.*)
(***************************************************************************)
EXTENDS ControlStream, TLAPS

Stream == Seq([msg : Message, at : Nat, to : Nat])

(* Messages lie one behind the other, without a gap.                       *)
LaidOut(q) ==
    /\ \A i \in 1 .. Len(q) : q[i].to = q[i].at + Prefix + Size[q[i].msg.kind]
    /\ \A i, j \in 1 .. Len(q) : i < j => q[i].to <= q[j].at
    /\ \A b \in 0 .. EndOf(q) - 1 : \E i \in 1 .. Len(q) : q[i].at <= b /\ b < q[i].to

(* A body has at least one byte and fewer than Base.                       *)
LEMMA Sizes ==
    ASSUME NEW m \in Message
    PROVE  m.kind \in Kinds /\ Size[m.kind] \in 1 .. Base - 1
BY BytesAssumption DEF Message

(* What a stream is made of.                                               *)
LEMMA Item ==
    ASSUME NEW q \in Stream, NEW i \in 1 .. Len(q)
    PROVE  q[i].at \in Nat /\ q[i].to \in Nat /\ q[i].msg \in Message
<1> DEFINE S == [msg : Message, at : Nat, to : Nat]
<1>1. q[i] \in S
  <2>1. q \in Seq(S)
    BY DEF Stream
  <2> HIDE DEF S
  <2> QED BY <2>1
<1> QED BY <1>1

LEMMA EndOfType == ASSUME NEW q \in Stream PROVE EndOf(q) \in Nat
<1>1. CASE q = <<>>
  BY <1>1 DEF EndOf
<1>2. CASE q # <<>>
  <2>1. Len(q) \in 1 .. Len(q)
    BY <1>2 DEF Stream
  <2> QED BY <1>2, <2>1, Item DEF EndOf
<1> QED BY <1>1, <1>2

(* The same with its layout.                                               *)
LEMMA LaidOutItem ==
    ASSUME NEW q \in Stream, LaidOut(q), NEW i \in 1 .. Len(q)
    PROVE  /\ Size[q[i].msg.kind] \in 1 .. Base - 1
           /\ q[i].to = q[i].at + Prefix + Size[q[i].msg.kind]
BY Item, Sizes DEF LaidOut

(* A message is longer than its length.                                    *)
LEMMA LongEnough ==
    ASSUME NEW q \in Stream, LaidOut(q), NEW i \in 1 .. Len(q)
    PROVE  q[i].at \in Nat /\ q[i].to \in Nat /\ q[i].at + 2 < q[i].to
<1> DEFINE at == q[i].at
           to == q[i].to
           z == Size[q[i].msg.kind]
<1>1. at \in Nat /\ to \in Nat
  BY Item
<1>2. z \in 1 .. Base - 1 /\ to = at + 2 + z
  BY LaidOutItem DEF Prefix
<1> HIDE DEF at, to, z
<1>3. z \in Nat /\ z >= 1
  BY <1>2, BytesAssumption
<1>4. at + 2 < to
  BY <1>1, <1>2, <1>3
<1> QED BY <1>1, <1>4 DEF at, to

(* Writing a message keeps the layout of the stream.                       *)
LEMMA WritingLaysOut ==
    ASSUME NEW q \in Stream, LaidOut(q), NEW m \in Message
    PROVE  LET r == Append(q, Written(m, EndOf(q))) IN
           /\ r \in Stream /\ LaidOut(r)
           /\ EndOf(q) <= EndOf(r)
<1> DEFINE w == Written(m, EndOf(q))
           r == Append(q, w)
<1>1. EndOf(q) \in Nat /\ Size[m.kind] \in Nat
  BY EndOfType, Sizes, BytesAssumption
<1>2. w \in [msg : Message, at : Nat, to : Nat] /\ w.msg = m /\ w.at = EndOf(q)
      /\ w.to = EndOf(q) + Prefix + Size[m.kind]
  BY <1>1 DEF Written, Prefix
<1> HIDE DEF w
<1>3. /\ r \in Stream /\ Len(r) = Len(q) + 1 /\ Len(q) \in Nat
      /\ r[Len(q) + 1] = w /\ \A i \in 1 .. Len(q) : r[i] = q[i]
  BY <1>2 DEF Stream
<1>4. EndOf(r) = w.to
  BY <1>3 DEF EndOf
<1>5. \A i \in 1 .. Len(q) : q[i].to <= EndOf(q) /\ q[i].at \in Nat /\ q[i].to \in Nat
  <2> TAKE i \in 1 .. Len(q)
  <2>1. q[i].at \in Nat /\ q[i].to \in Nat
    BY Item
  <2>2. CASE i = Len(q)
    BY <2>1, <2>2 DEF EndOf
  <2>3. CASE i < Len(q)
    <3>1. /\ Len(q) \in 1 .. Len(q) /\ q[i].to <= q[Len(q)].at /\ q # <<>>
          /\ q[Len(q)].to = q[Len(q)].at + Prefix + Size[q[Len(q)].msg.kind]
      BY <2>3, <1>3 DEF LaidOut
    <3>2. q[Len(q)].at \in Nat /\ q[Len(q)].msg \in Message
      BY <3>1, Item
    <3>3. Size[q[Len(q)].msg.kind] \in Nat
      BY <3>2, Sizes, BytesAssumption
    <3> QED BY <2>1, <3>1, <3>2, <3>3 DEF EndOf, Prefix
  <2> QED BY <2>2, <2>3, <1>3
<1>6. \A i \in 1 .. Len(r) : r[i].to = r[i].at + Prefix + Size[r[i].msg.kind]
  <2> TAKE i \in 1 .. Len(r)
  <2>1. CASE i = Len(q) + 1
    BY <2>1, <1>2, <1>3
  <2>2. CASE i \in 1 .. Len(q)
    BY <2>2, <1>3 DEF LaidOut
  <2> QED BY <2>1, <2>2, <1>3
<1>7. \A i, j \in 1 .. Len(r) : i < j => r[i].to <= r[j].at
  <2> SUFFICES ASSUME NEW i \in 1 .. Len(r), NEW j \in 1 .. Len(r), i < j
               PROVE  r[i].to <= r[j].at
    OBVIOUS
  <2>1. CASE j = Len(q) + 1
    BY <2>1, <1>2, <1>3, <1>5
  <2>2. CASE j \in 1 .. Len(q)
    BY <2>2, <1>3 DEF LaidOut
  <2> QED BY <2>1, <2>2, <1>3
<1>8. \A b \in 0 .. EndOf(r) - 1 : \E i \in 1 .. Len(r) : r[i].at <= b /\ b < r[i].to
  <2> TAKE b \in 0 .. EndOf(r) - 1
  <2>1. CASE b < EndOf(q)
    <3>1. b \in 0 .. EndOf(q) - 1
      BY <2>1, <1>1
    <3>2. PICK i \in 1 .. Len(q) : q[i].at <= b /\ b < q[i].to
      BY <3>1 DEF LaidOut
    <3> QED BY <3>2, <1>3
  <2>2. CASE b >= EndOf(q)
    <3>1. Len(q) + 1 \in 1 .. Len(r)
      BY <1>3
    <3>2. r[Len(q) + 1].at <= b /\ b < r[Len(q) + 1].to
      BY <2>2, <1>1, <1>2, <1>3, <1>4
    <3> QED BY <3>1, <3>2
  <2>3. EndOf(r) \in Int
    BY <1>1, <1>2, <1>4 DEF Prefix
  <2> QED BY <2>1, <2>2, <2>3, <1>1
<1>9. EndOf(q) <= EndOf(r)
  <2>1. EndOf(r) = EndOf(q) + 2 + Size[m.kind]
    BY <1>2, <1>4 DEF Prefix
  <2> HIDE DEF r
  <2> QED BY <2>1, <1>1
<1> QED BY <1>3, <1>6, <1>7, <1>8, <1>9 DEF LaidOut, w

-----------------------------------------------------------------------------
(* The offset b belongs to message i alone, so its byte is one of i's.     *)
LEMMA ByteOf ==
    ASSUME NEW n, sent[n] \in Stream, LaidOut(sent[n]),
           NEW i \in 1 .. Len(sent[n]), NEW b \in Nat,
           sent[n][i].at <= b, b < sent[n][i].to
    PROVE  Byte(n, b) = IF b = sent[n][i].at THEN Size[sent[n][i].msg.kind]
                        ELSE IF b = sent[n][i].at + 1 THEN 0 ELSE Letter
<1> DEFINE Covers(j) == sent[n][j].at <= b /\ b < sent[n][j].to
<1>1. \A j \in 1 .. Len(sent[n]) : sent[n][j].at \in Nat /\ sent[n][j].to \in Nat
                                   /\ sent[n][j].msg \in Message
  BY Item
<1>2. \A j \in 1 .. Len(sent[n]) : Covers(j) => j = i
  <2> SUFFICES ASSUME NEW j \in 1 .. Len(sent[n]), Covers(j), j # i
               PROVE  FALSE
    OBVIOUS
  <2>0. i \in Int /\ j \in Int
    OBVIOUS
  <2>1. CASE j < i
    BY <2>1, <1>1 DEF LaidOut
  <2>2. CASE i < j
    BY <2>2, <1>1 DEF LaidOut
  <2> QED BY <2>0, <2>1, <2>2
<1>3. (CHOOSE j \in 1 .. Len(sent[n]) : Covers(j)) = i
  BY <1>2
<1>4. sent[n][i].to - sent[n][i].at - Prefix = Size[sent[n][i].msg.kind]
  <2>1. Size[sent[n][i].msg.kind] \in Nat
    BY <1>1, Sizes, BytesAssumption
  <2>2. sent[n][i].to = sent[n][i].at + Prefix + Size[sent[n][i].msg.kind]
    BY DEF LaidOut
  <2>3. sent[n][i].at \in Nat
    BY <1>1
  <2> QED BY <2>1, <2>2, <2>3 DEF Prefix
<1> HIDE DEF Covers
<1> QED BY <1>3, <1>4 DEF Byte, Covers

(* At a wrong place the bytes of a length say Base or more.                *)
LEMMA WrongClaim ==
    ASSUME NEW n, sent[n] \in Stream, LaidOut(sent[n]),
           NEW b \in Nat, b + Prefix <= EndOf(sent[n]),
           NEW i \in 1 .. Len(sent[n]), sent[n][i].at < b, b < sent[n][i].to
    PROVE  Claim(n, b) \in Nat /\ Claim(n, b) >= Base
<1> DEFINE s == sent[n]
<1>1. \A j \in 1 .. Len(s) : /\ s[j].at \in Nat /\ s[j].to \in Nat
                             /\ Size[s[j].msg.kind] \in 1 .. Base - 1
                             /\ s[j].to = s[j].at + Prefix + Size[s[j].msg.kind]
  BY Item, LaidOutItem
<1>2. Base \in Nat /\ Letter \in 1 .. Base - 1
  BY BytesAssumption
<1>3. Byte(n, b) = (IF b = s[i].at + 1 THEN 0 ELSE Letter)
  <2>1. s[i].at <= b /\ b # s[i].at
    BY <1>1
  <2>2. Byte(n, b) = IF b = s[i].at THEN Size[s[i].msg.kind]
                     ELSE IF b = s[i].at + 1 THEN 0 ELSE Letter
    BY <2>1, ByteOf
  <2> QED BY <2>1, <2>2
<1>4. Byte(n, b + 1) \in Nat /\ Byte(n, b + 1) >= 1
  <2>1. CASE b + 1 < s[i].to
    <3>1. Byte(n, b + 1) = IF b + 1 = s[i].at THEN Size[s[i].msg.kind]
                           ELSE IF b + 1 = s[i].at + 1 THEN 0 ELSE Letter
      BY <2>1, <1>1, ByteOf
    <3> QED BY <3>1, <1>1, <1>2
  <2>2. CASE b + 1 = s[i].to
    <3>0. EndOf(s) \in Nat /\ b + 1 \in 0 .. EndOf(s) - 1
      BY EndOfType DEF Prefix
    <3>1. PICK j \in 1 .. Len(s) : s[j].at <= b + 1 /\ b + 1 < s[j].to
      BY <3>0 DEF LaidOut
    <3>2. i < j
      <4>1. CASE j < i
        <5>1. s[j].to <= s[i].at
          BY <4>1 DEF LaidOut
        <5> QED BY <5>1, <3>1, <1>1
      <4>2. CASE j = i
        BY <4>2, <3>1, <2>2, <1>1
      <4> QED BY <4>1, <4>2
    <3>3. s[i].to <= s[j].at
      BY <3>2 DEF LaidOut
    <3>4. s[j].at = b + 1
      BY <3>1, <3>3, <2>2, <1>1
    <3>5. Byte(n, b + 1) = Size[s[j].msg.kind]
      BY <3>1, <3>4, ByteOf
    <3> QED BY <3>5, <1>1, <1>2
  <2> QED BY <2>1, <2>2, <1>1
<1>5. Byte(n, b) \in Nat
  BY <1>2, <1>3
<1>6. \A x, y \in Nat : y >= 1 => x + Base * y \in Nat /\ x + Base * y >= Base
  BY <1>2, SMTT(30)
<1> QED BY <1>4, <1>5, <1>6 DEF Claim

(* Of the frames that recv_control can find, the ones that decode are the  *)
(* bodies that were sent: a frame taken at a wrong place runs over the     *)
(* high byte of the next length.                                           *)
LEMMA WholeTextIsBody ==
    ASSUME NEW n, sent[n] \in Stream, LaidOut(sent[n]), start[n] \in Nat,
           Whole(n), IsText(n, start[n] + Prefix, FrameEnd(n))
    PROVE  \E i \in 1 .. Len(sent[n]) : sent[n][i].at = start[n]
                                        /\ sent[n][i].to = FrameEnd(n)
<1> DEFINE s == sent[n]
           b == start[n]
<1>1. \A j \in 1 .. Len(s) : /\ s[j].at \in Nat /\ s[j].to \in Nat
                             /\ Size[s[j].msg.kind] \in 1 .. Base - 1
                             /\ s[j].to = s[j].at + Prefix + Size[s[j].msg.kind]
  BY Item, LaidOutItem
<1>2. Base \in Nat /\ Letter \in 1 .. Base - 1
  BY BytesAssumption
<1>3. EndOf(s) \in Nat /\ b \in 0 .. EndOf(s) - 1 /\ b + Prefix <= EndOf(s)
  BY EndOfType DEF Whole, Prefix
<1>4. PICK i \in 1 .. Len(s) : s[i].at <= b /\ b < s[i].to
  BY <1>3 DEF LaidOut
<1>5. CASE s[i].at = b
  <2>1. Byte(n, b) = Size[s[i].msg.kind]
    BY <1>4, <1>5, ByteOf
  <2>2. s[i].at <= b + 1 /\ b + 1 < s[i].to
    <3>1. s[i].at \in Nat /\ s[i].to \in Nat /\ s[i].at + 2 < s[i].to
      BY LongEnough
    <3> QED BY <3>1, <1>5
  <2>3. Byte(n, b + 1) = 0
    <3>1. Byte(n, b + 1) = IF b + 1 = s[i].at THEN Size[s[i].msg.kind]
                           ELSE IF b + 1 = s[i].at + 1 THEN 0 ELSE Letter
      BY <2>2, ByteOf
    <3> QED BY <3>1, <1>5
  <2>4. Claim(n, b) = Size[s[i].msg.kind]
    BY <2>1, <2>3, <1>1, <1>2 DEF Claim
  <2> QED BY <2>4, <1>1, <1>5 DEF FrameEnd
<1>6. CASE s[i].at < b
  <2>1. Claim(n, b) \in Nat /\ Claim(n, b) >= Base
    BY <1>3, <1>4, <1>6, WrongClaim
  <2>2. FrameEnd(n) = b + Prefix + Claim(n, b) /\ FrameEnd(n) <= EndOf(s)
    BY DEF FrameEnd, Whole
  <2>3. s[i].to \in 0 .. EndOf(s) - 1 /\ b + Prefix <= s[i].to + 1
        /\ s[i].to + 1 <= FrameEnd(n) - 1 /\ FrameEnd(n) \in Nat
    <3> DEFINE z == Size[s[i].msg.kind]
               c == Claim(n, b)
               e == FrameEnd(n)
    <3>1. /\ z \in 1 .. Base - 1 /\ s[i].to = s[i].at + 2 + z
          /\ s[i].at \in Nat /\ s[i].to \in Nat
      BY <1>1 DEF Prefix
    <3>2. c \in Nat /\ c >= Base /\ e = b + 2 + c /\ e <= EndOf(s)
      BY <2>1, <2>2 DEF Prefix
    <3> HIDE DEF z, c, e
    <3>3. /\ b \in Nat /\ s[i].at < b /\ b < s[i].to /\ EndOf(s) \in Nat
      BY <1>3, <1>4, <1>6
    <3> DEFINE x == s[i].at
               y == s[i].to
               l == EndOf(s)
    <3>4. /\ x \in Nat /\ y \in Nat /\ b \in Nat /\ l \in Nat /\ c \in Nat
          /\ z \in Nat /\ Base \in Nat /\ z <= Base - 1 /\ y = x + 2 + z
          /\ c >= Base /\ e = b + 2 + c /\ e <= l /\ x < b /\ b < y
      BY <3>1, <3>2, <3>3, <1>2
    <3> HIDE DEF s, b, x, y, l
    <3>5. e \in Nat /\ b + 2 <= y + 1
      BY <3>4
    <3>6. y + 1 <= e - 1
      BY <3>4
    <3>7. y \in 0 .. l - 1
      BY <3>4, <3>5, <3>6
    <3> QED BY <3>5, <3>6, <3>7 DEF e, s, b, y, l, Prefix
  <2>4. PICK j \in 1 .. Len(s) : s[j].at <= s[i].to /\ s[i].to < s[j].to
    BY <2>3 DEF LaidOut
  <2>5. i < j
    <3>1. CASE j < i
      <4>1. s[j].to <= s[i].at
        BY <3>1 DEF LaidOut
      <4> QED BY <4>1, <2>4, <1>1, <1>4
    <3>2. CASE j = i
      BY <3>2, <2>4, <1>1
    <3> QED BY <3>1, <3>2
  <2>6. s[j].at = s[i].to
    <3>1. s[i].to <= s[j].at
      BY <2>5 DEF LaidOut
    <3> QED BY <3>1, <2>4, <1>1
  <2>7. s[j].at <= s[i].to + 1 /\ s[i].to + 1 < s[j].to
    <3> DEFINE x == s[j].at
               y == s[j].to
    <3>1. x \in Nat /\ y \in Nat /\ x + 2 < y
      BY LongEnough
    <3>2. x = s[i].to
      BY <2>6
    <3> HIDE DEF x, y, s
    <3>3. x <= x + 1 /\ x + 1 < y
      BY <3>1
    <3> QED BY <3>2, <3>3 DEF x, y
  <2>8. Byte(n, s[i].to + 1) = 0
    <3>1. Byte(n, s[i].to + 1) = IF s[i].to + 1 = s[j].at THEN Size[s[j].msg.kind]
                                 ELSE IF s[i].to + 1 = s[j].at + 1 THEN 0 ELSE Letter
      <4>1. s[i].to + 1 \in Nat
        BY <1>1
      <4> QED BY <4>1, <2>7, ByteOf
    <3> QED BY <3>1, <2>6, <1>1
  <2>9. s[i].to + 1 \in b + Prefix .. FrameEnd(n) - 1
    BY <2>3, <1>1, <1>3 DEF Prefix
  <2> QED BY <2>8, <2>9 DEF IsText
<1> QED BY <1>1, <1>3, <1>4, <1>5, <1>6

-----------------------------------------------------------------------------
(* The streams only grow, and stay laid out.                               *)
Grows ==
    /\ sent' \in [Nodes -> Stream]
    /\ \A k \in Nodes :
          /\ LaidOut(sent'[k]) /\ EndOf(sent[k]) <= EndOf(sent'[k])
          /\ \A j \in 1 .. Len(sent[k]) : /\ j \in 1 .. Len(sent'[k])
                                         /\ sent'[k][j] = sent[k][j]

(* How far reading is, and what was heard is behind it.                    *)
Layout == \A n \in Nodes : LaidOut(sent[n]) /\ start[n] <= EndOf(sent[n])

HeardBehind ==
    \A n \in Nodes : \A i \in 1 .. Len(heard[n]) : heard[n][i].to <= start[n]

Inv == TypeOK /\ Layout /\ HeardBehind /\ HeardIsSent

LEMMA PeerOf == \A n \in Nodes : Peer(n) \in Nodes /\ Peer(n) # n
BY NodesAssumption DEF Nodes, Peer

LEMMA SameGrows ==
    ASSUME TypeOK, Layout, UNCHANGED sent
    PROVE  Grows
<1>1. sent \in [Nodes -> Stream]
  BY DEF TypeOK, Stream
<1>2. \A k \in Nodes : EndOf(sent[k]) \in Nat
  BY <1>1, EndOfType
<1> QED BY <1>1, <1>2 DEF Grows, Layout

LEMMA SendGrows ==
    ASSUME TypeOK, Layout, NEW n \in Nodes, NEW m \in Message, SendControl(n, m)
    PROVE  Grows
<1>1. sent \in [Nodes -> Stream] /\ Peer(n) \in Nodes
  BY PeerOf DEF TypeOK, Stream
<1>2. CASE ~up
  BY <1>2, SameGrows DEF SendControl
<1>3. CASE up
  <2> DEFINE q == sent[Peer(n)]
             r == Append(q, Written(m, EndOf(q)))
  <2>1. sent' = [sent EXCEPT ![Peer(n)] = r]
    BY <1>3 DEF SendControl
  <2>2. q \in Stream /\ LaidOut(q)
    BY <1>1 DEF Layout
  <2>3. r \in Stream /\ LaidOut(r) /\ EndOf(q) <= EndOf(r)
    BY <2>2, WritingLaysOut
  <2>4. \A j \in 1 .. Len(q) : j \in 1 .. Len(r) /\ r[j] = q[j]
    BY <2>2 DEF Stream
  <2>5. \A k \in Nodes : sent'[k] = IF k = Peer(n) THEN r ELSE sent[k]
    BY <2>1, <1>1
  <2>6. sent' \in [Nodes -> Stream]
    BY <2>1, <2>3, <1>1
  <2> HIDE DEF r
  <2>7. ASSUME NEW k \in Nodes
        PROVE  /\ LaidOut(sent'[k]) /\ EndOf(sent[k]) <= EndOf(sent'[k])
               /\ \A j \in 1 .. Len(sent[k]) : /\ j \in 1 .. Len(sent'[k])
                                              /\ sent'[k][j] = sent[k][j]
    <3>1. CASE k = Peer(n)
      BY <3>1, <2>3, <2>4, <2>5
    <3>2. CASE k # Peer(n)
      <4>1. sent'[k] = sent[k] /\ EndOf(sent[k]) \in Nat
        BY <3>2, <2>5, <1>1, EndOfType
      <4> QED BY <4>1 DEF Layout
    <3> QED BY <3>1, <3>2
  <2> QED BY <2>6, <2>7 DEF Grows
<1> QED BY <1>2, <1>3

(* The messages that are sent are messages.                                *)
LEMMA InferType ==
    ASSUME TypeOK, NEW n \in Nodes, NEW m \in Message
    PROVE  Infer(n, m) \in Edges
<1>1. m.edge \in Edges \cup {NoEdge} /\ edge[n] \in Edges
  BY DEF TypeOK, Message
<1>2. \A e \in Edges : Opposite[e] \in Edges
  BY DEF Opposite, Edges
<1> QED BY <1>1, <1>2 DEF Infer

LEMMA SentAreMessages ==
    ASSUME TypeOK, NEW n \in Nodes
    PROVE  /\ [kind |-> "Handshake", version |-> version[n], edge |-> configured[n]] \in Message
           /\ \A m \in Message : [kind |-> "HandshakeAck", version |-> version[n],
                                  edge |-> Infer(n, m)] \in Message
           /\ \A k \in {"SwitchFocus", "ReleaseFocus"} :
                 [kind |-> k, version |-> version[n], edge |-> NoEdge] \in Message
<1>1. version[n] \in Versions /\ configured[n] \in Edges \cup {NoEdge}
  BY DEF TypeOK
<1> QED BY <1>1, InferType DEF Message, Kinds

LEMMA MeaningsAreMessages ==
    ASSUME TypeOK, NEW n \in Nodes, NEW from, NEW to, NEW m \in Meanings(n, from, to)
    PROVE  m \in Message
<1>1. sent[n] \in Stream
  BY DEF TypeOK, Stream
<1> QED BY <1>1, Item DEF Meanings

(* What decodes is the message that begins where recv_control began.       *)
LEMMA HearsAMessage ==
    ASSUME TypeOK, Layout, NEW n \in Nodes, Whole(n),
           IsText(n, start[n] + Prefix, FrameEnd(n))
    PROVE  \E j \in 1 .. Len(sent[n]) :
              /\ sent[n][j].at = start[n] /\ sent[n][j].to = FrameEnd(n)
              /\ Meanings(n, start[n] + Prefix, FrameEnd(n)) = {sent[n][j].msg}
              /\ FrameEnd(n) \in Nat /\ start[n] < FrameEnd(n)
              /\ FrameEnd(n) <= EndOf(sent[n])
<1>1. sent[n] \in Stream /\ LaidOut(sent[n]) /\ start[n] \in Nat
  BY DEF TypeOK, Layout, Stream
<1>2. PICK j \in 1 .. Len(sent[n]) : sent[n][j].at = start[n] /\ sent[n][j].to = FrameEnd(n)
  BY <1>1, WholeTextIsBody
<1>3. \A i \in 1 .. Len(sent[n]) : /\ sent[n][i].at \in Nat /\ sent[n][i].to \in Nat
                                  /\ sent[n][i].at < sent[n][i].to
  <2> TAKE i \in 1 .. Len(sent[n])
  <2>1. /\ sent[n][i].at \in Nat /\ sent[n][i].to \in Nat
        /\ sent[n][i].at + 2 < sent[n][i].to
    BY <1>1, LongEnough
  <2> QED BY <2>1
<1>4. \A i \in 1 .. Len(sent[n]) :
         sent[n][i].at + Prefix = start[n] + Prefix /\ sent[n][i].to = FrameEnd(n) => i = j
  <2> SUFFICES ASSUME NEW i \in 1 .. Len(sent[n]), sent[n][i].at = start[n], i # j
               PROVE  FALSE
    <3>1. start[n] + Prefix \in Int /\ start[n] \in Int
      BY <1>1 DEF Prefix
    <3>2. ASSUME NEW i \in 1 .. Len(sent[n]),
                 sent[n][i].at + Prefix = start[n] + Prefix
          PROVE  sent[n][i].at = start[n]
      <4>1. sent[n][i].at \in Nat
        BY <1>3
      <4> QED BY <4>1, <3>1, <3>2 DEF Prefix
    <3> QED BY <3>2
  <2>1. CASE i < j
    BY <2>1, <1>1, <1>2, <1>3 DEF LaidOut
  <2>2. CASE j < i
    BY <2>2, <1>1, <1>2, <1>3 DEF LaidOut
  <2> QED BY <2>1, <2>2
<1>5. {i \in 1 .. Len(sent[n]) : /\ sent[n][i].at + Prefix = start[n] + Prefix
                               /\ sent[n][i].to = FrameEnd(n)} = {j}
  BY <1>2, <1>4
<1>6. Meanings(n, start[n] + Prefix, FrameEnd(n)) = {sent[n][j].msg}
  BY <1>5 DEF Meanings
<1> QED BY <1>1, <1>2, <1>3, <1>6 DEF Whole

LEMMA StepGrows ==
    ASSUME TypeOK, Layout, [Next]_vars
    PROVE  Grows
<1>1. ASSUME NEW n \in Nodes, Greet(n) PROVE Grows
  BY <1>1, SendGrows, SentAreMessages DEF Greet
<1>2. ASSUME NEW n \in Nodes, Hear(n) PROVE Grows
  <2>1. PICK m \in Meanings(n, start[n] + Prefix, FrameEnd(n)) :
           \/ phase[n] = "greeting" /\ (Welcome(n, m) \/ Reject(n, m))
           \/ phase[n] = "active" /\ UNCHANGED <<edge, phase, sent, finished>>
    BY <1>2 DEF Hear
  <2>2. m \in Message
    BY MeaningsAreMessages
  <2>3. CASE Welcome(n, m)
    <3>1. \/ UNCHANGED sent
          \/ SendControl(n, [kind |-> "HandshakeAck", version |-> version[n],
                             edge |-> Infer(n, m)])
      BY <2>3 DEF Welcome
    <3>2. [kind |-> "HandshakeAck", version |-> version[n], edge |-> Infer(n, m)] \in Message
      BY <2>2, SentAreMessages
    <3> QED BY <3>1, <3>2, SendGrows, SameGrows
  <2>4. CASE UNCHANGED sent
    BY <2>4, SameGrows
  <2> QED BY <2>1, <2>3, <2>4 DEF Reject
<1>3. ASSUME NEW n \in Nodes, RecvError(n) \/ Leave(n) \/ Return(n) PROVE Grows
  BY <1>3, SameGrows DEF RecvError, Leave, Return
<1>4. ASSUME NEW n \in Nodes, OtherBranch(n) PROVE Grows
  <2>1. \/ UNCHANGED sent
        \/ \E k \in {"SwitchFocus", "ReleaseFocus"} :
              SendControl(n, [kind |-> k, version |-> version[n], edge |-> NoEdge])
    BY <1>4 DEF OtherBranch
  <2> QED BY <2>1, SendGrows, SameGrows, SentAreMessages
<1>5. CASE ConnectionLost
  BY <1>5, SameGrows DEF ConnectionLost
<1>6. CASE UNCHANGED vars
  BY <1>6, SameGrows DEF vars
<1> QED BY <1>1, <1>2, <1>3, <1>4, <1>5, <1>6 DEF Next, Task

-----------------------------------------------------------------------------
(* The steps that leave what was heard and the place of reading alone.     *)
LEMMA InitInv == Init => Inv
<1> SUFFICES ASSUME Init PROVE Inv
  OBVIOUS
<1>1. TypeOK
  BY BytesAssumption DEF Init, TypeOK, Edges
<1>2. Layout
  BY DEF Init, Layout, LaidOut, EndOf
<1>3. HeardBehind /\ HeardIsSent
  BY DEF Init, HeardBehind, HeardIsSent
<1> QED BY <1>1, <1>2, <1>3 DEF Inv

LEMMA HearEnds ==
    ASSUME TypeOK, Layout, NEW n \in Nodes, Hear(n)
    PROVE  FrameEnd(n) \in Nat /\ start[n] \in Nat /\ start[n] < FrameEnd(n)
BY HearsAMessage DEF Hear, TypeOK

LEMMA HeardItem ==
    ASSUME TypeOK, NEW n \in Nodes, NEW i \in 1 .. Len(heard[n])
    PROVE  heard[n][i].from \in Nat /\ heard[n][i].to \in Nat
<1> DEFINE S == [from : Nat, to : Nat]
<1>1. heard[n] \in Seq(S)
  BY DEF TypeOK
<1> HIDE DEF S
<1>2. heard[n][i] \in S
  BY <1>1
<1> QED BY <1>2 DEF S

(* The type invariant.                                                     *)
LEMMA TypeStep ==
    ASSUME TypeOK, Layout, [Next]_vars
    PROVE  TypeOK'
<1>7. \A n \in Nodes : Hear(n) => FrameEnd(n) \in Nat /\ start[n] + Prefix \in Nat
  BY HearEnds DEF Prefix
<1> USE DEF TypeOK
<1>0. sent' \in [Nodes -> Seq([msg : Message, at : Nat, to : Nat])]
  BY StepGrows DEF Grows, Stream
<1> DEFINE S == [Nodes -> Seq([msg : Message, at : Nat, to : Nat])]
<1>1. ASSUME NEW n \in Nodes, Greet(n) PROVE TypeOK'
  BY <1>0, <1>1 DEF Greet, ends
<1>2. ASSUME NEW n \in Nodes, Hear(n) PROVE TypeOK'
  <2>1. PICK m \in Meanings(n, start[n] + Prefix, FrameEnd(n)) :
           \/ phase[n] = "greeting" /\ (Welcome(n, m) \/ Reject(n, m))
           \/ phase[n] = "active" /\ UNCHANGED <<edge, phase, sent, finished>>
    BY <1>2 DEF Hear
  <2>2. m \in Message /\ Infer(n, m) \in Edges
    BY MeaningsAreMessages, InferType
  <2>3. FrameEnd(n) \in Nat /\ start[n] + Prefix \in Nat
    BY <1>2, <1>7
  <2>4. /\ start' \in [Nodes -> Nat]
        /\ heard' \in [Nodes -> Seq([from : Nat, to : Nat])]
        /\ UNCHANGED <<version, configured, turns, up>>
    BY <1>2, <2>3 DEF Hear, NextCall, ends
  <2>5. /\ edge' \in [Nodes -> Edges]
        /\ phase' \in [Nodes -> {"opening", "greeting", "active", "draining", "ended"}]
        /\ finished' \in [Nodes -> BOOLEAN]
    <3>1. CASE Welcome(n, m)
      <4>1. /\ edge' = [edge EXCEPT ![n] = Infer(n, m)]
            /\ phase' = [phase EXCEPT ![n] = "active"] /\ UNCHANGED finished
        BY <3>1 DEF Welcome
      <4> QED BY <4>1, <2>2
    <3>2. CASE Reject(n, m)
      <4>1. /\ phase' = [phase EXCEPT ![n] = "ended"] /\ UNCHANGED edge
            /\ finished' = [finished EXCEPT ![Peer(n)] = TRUE]
        BY <3>2 DEF Reject, End
      <4> QED BY <4>1
    <3>3. CASE UNCHANGED <<edge, phase, sent, finished>>
      BY <3>3
    <3> QED BY <2>1, <3>1, <3>2, <3>3
  <2> QED BY <1>0, <2>4, <2>5
<1>3. ASSUME NEW n \in Nodes, RecvError(n) \/ Leave(n) \/ Return(n) PROVE TypeOK'
  <2>1. /\ phase' \in [Nodes -> {"opening", "greeting", "active", "draining", "ended"}]
        /\ finished' \in [Nodes -> BOOLEAN]
    BY <1>3 DEF RecvError, Leave, Return, Break, End
  <2> QED BY <1>0, <1>3, <2>1 DEF RecvError, Leave, Return, ends
<1>4. ASSUME NEW n \in Nodes, OtherBranch(n) PROVE TypeOK'
  <2>1. EndOf(sent[n]) \in Nat
    BY EndOfType DEF Stream
  <2>2. start' \in [Nodes -> Nat]
    BY <2>1, <1>4 DEF OtherBranch
  <2>3. turns' \in [Nodes -> Nat]
    BY <1>4 DEF OtherBranch
  <2> QED BY <1>0, <1>4, <2>2, <2>3 DEF OtherBranch, ends
<1>5. CASE ConnectionLost
  BY <1>0, <1>5 DEF ConnectionLost, ends
<1>6. CASE UNCHANGED vars
  BY <1>6 DEF vars
<1> QED BY <1>1, <1>2, <1>3, <1>4, <1>5, <1>6 DEF Next, Task

(* Every step reads on inside the stream or stays where it is.             *)
LEMMA ReadingStep ==
    ASSUME TypeOK, Layout, [Next]_vars, NEW n \in Nodes
    PROVE  start'[n] >= start[n] /\ start'[n] <= EndOf(sent[n])
<1>0. start[n] \in Nat /\ EndOf(sent[n]) \in Nat /\ start[n] <= EndOf(sent[n])
  BY EndOfType DEF TypeOK, Layout, Stream
<1>1. CASE UNCHANGED start
  BY <1>0, <1>1
<1>2. ASSUME NEW k \in Nodes, Hear(k)
      PROVE  start'[n] >= start[n] /\ start'[n] <= EndOf(sent[n])
  <2>1. /\ FrameEnd(k) \in Nat /\ start[k] < FrameEnd(k) /\ FrameEnd(k) <= EndOf(sent[k])
        /\ start' = [start EXCEPT ![k] = FrameEnd(k)]
    BY <1>2, HearsAMessage DEF Hear, NextCall
  <2> QED BY <2>1, <1>0 DEF TypeOK
<1>3. ASSUME NEW k \in Nodes, OtherBranch(k)
      PROVE  start'[n] >= start[n] /\ start'[n] <= EndOf(sent[n])
  <2>1. PICK b \in start[k] .. EndOf(sent[k]) : start' = [start EXCEPT ![k] = b]
    BY <1>3 DEF OtherBranch
  <2> QED BY <2>1, <1>0 DEF TypeOK
<1>4. ASSUME NEW k \in Nodes, Greet(k) \/ RecvError(k) \/ Leave(k) \/ Return(k)
      PROVE  UNCHANGED start
  BY <1>4 DEF Greet, RecvError, Leave, Return
<1>5. CASE ConnectionLost \/ UNCHANGED vars
  BY <1>5, <1>1 DEF ConnectionLost, vars
<1> QED BY <1>1, <1>2, <1>3, <1>4, <1>5 DEF Next, Task

LEMMA LayoutStep ==
    ASSUME TypeOK, Layout, [Next]_vars
    PROVE  Layout'
<1> SUFFICES ASSUME NEW n \in Nodes
             PROVE  LaidOut(sent'[n]) /\ start'[n] <= EndOf(sent'[n])
  BY DEF Layout, LaidOut, EndOf
<1>1. LaidOut(sent'[n]) /\ EndOf(sent[n]) <= EndOf(sent'[n]) /\ sent'[n] \in Stream
  BY StepGrows DEF Grows
<1>2. start'[n] <= EndOf(sent[n]) /\ start'[n] \in Nat
  BY ReadingStep, TypeStep DEF TypeOK
<1>3. EndOf(sent[n]) \in Nat /\ EndOf(sent'[n]) \in Nat
  BY <1>1, EndOfType DEF TypeOK, Stream
<1> QED BY <1>1, <1>2, <1>3

(* A step hears nothing, or the message that recv_control began with.      *)
LEMMA HeardStep ==
    ASSUME Inv, [Next]_vars
    PROVE  HeardBehind' /\ HeardIsSent'
<1> USE DEF Inv
<1>1. Grows /\ TypeOK'
  BY StepGrows, TypeStep
<1>2. CASE UNCHANGED heard
  <2>1. HeardBehind'
    <3> SUFFICES ASSUME NEW n \in Nodes, NEW i \in 1 .. Len(heard[n])
                 PROVE  heard[n][i].to <= start'[n]
      BY <1>2 DEF HeardBehind
    <3>0. start'[n] >= start[n]
      BY ReadingStep
    <3>1. heard[n][i].to <= start[n]
      BY DEF HeardBehind
    <3>2. heard[n][i].to \in Nat /\ start[n] \in Nat /\ start'[n] \in Nat
      BY HeardItem, <1>1 DEF TypeOK
    <3> QED BY <3>0, <3>1, <3>2
  <2>2. HeardIsSent'
    <3> SUFFICES ASSUME NEW n \in Nodes, NEW i \in 1 .. Len(heard[n])
                 PROVE  \E j \in 1 .. Len(sent'[n]) :
                    heard[n][i] = [from |-> sent'[n][j].at + Prefix, to |-> sent'[n][j].to]
      BY <1>2 DEF HeardIsSent
    <3>1. PICK j \in 1 .. Len(sent[n]) :
             heard[n][i] = [from |-> sent[n][j].at + Prefix, to |-> sent[n][j].to]
      BY DEF HeardIsSent
    <3> QED BY <3>1, <1>1 DEF Grows
  <2> QED BY <2>1, <2>2
<1>3. ASSUME NEW k \in Nodes, Hear(k) PROVE HeardBehind' /\ HeardIsSent'
  <2> DEFINE body == [from |-> start[k] + Prefix, to |-> FrameEnd(k)]
  <2>1. heard' = [heard EXCEPT ![k] = Append(@, body)]
        /\ start' = [start EXCEPT ![k] = FrameEnd(k)]
    BY <1>3 DEF Hear, NextCall
  <2>2. PICK j \in 1 .. Len(sent[k]) : /\ sent[k][j].at = start[k]
                                       /\ sent[k][j].to = FrameEnd(k)
    BY <1>3, HearsAMessage DEF Hear
  <2>3. FrameEnd(k) \in Nat /\ start[k] \in Nat /\ start[k] < FrameEnd(k)
    BY <1>3, HearsAMessage DEF Hear, TypeOK
  <2>4. \A n \in Nodes : n # k => heard'[n] = heard[n] /\ start'[n] = start[n]
    BY <2>1 DEF TypeOK
  <2>5. /\ Len(heard'[k]) = Len(heard[k]) + 1 /\ Len(heard[k]) \in Nat
        /\ heard'[k][Len(heard[k]) + 1] = body /\ start'[k] = FrameEnd(k)
        /\ \A i \in 1 .. Len(heard[k]) : heard'[k][i] = heard[k][i]
    BY <2>1 DEF TypeOK
  <2>6. \A i \in 1 .. Len(heard[k]) : heard[k][i].to \in Nat /\ heard[k][i].to <= start[k]
    <3> TAKE i \in 1 .. Len(heard[k])
    <3> QED BY HeardItem DEF HeardBehind
  <2>7. HeardBehind'
    <3> SUFFICES ASSUME NEW n \in Nodes, NEW i \in 1 .. Len(heard'[n])
                 PROVE  heard'[n][i].to <= start'[n]
      BY DEF HeardBehind
    <3>1. CASE n # k
      BY <3>1, <2>4 DEF HeardBehind
    <3>2. CASE n = k /\ i = Len(heard[k]) + 1
      BY <3>2, <2>3, <2>5
    <3>3. CASE n = k /\ i \in 1 .. Len(heard[k])
      <4>1. heard[k][i].to \in Nat /\ heard[k][i].to <= start[k]
        BY <3>3, <2>6
      <4>2. heard'[n][i].to = heard[k][i].to /\ start'[n] = FrameEnd(k)
        BY <3>3, <2>5
      <4> QED BY <4>1, <4>2, <2>3
    <3> QED BY <3>1, <3>2, <3>3, <2>5
  <2>8. ASSUME NEW n \in Nodes, NEW i \in 1 .. Len(heard'[n])
        PROVE  \E l \in 1 .. Len(sent'[n]) :
                  heard'[n][i] = [from |-> sent'[n][l].at + Prefix, to |-> sent'[n][l].to]
    <3>1. CASE n = k /\ i = Len(heard[k]) + 1
      BY <3>1, <2>2, <2>5, <1>1 DEF Grows
    <3>2. CASE n # k \/ i \in 1 .. Len(heard[k])
      <4>1. i \in 1 .. Len(heard[n]) /\ heard'[n][i] = heard[n][i]
        BY <3>2, <2>4, <2>5
      <4>2. PICK l \in 1 .. Len(sent[n]) :
               heard[n][i] = [from |-> sent[n][l].at + Prefix, to |-> sent[n][l].to]
        BY <4>1 DEF HeardIsSent
      <4> QED BY <4>1, <4>2, <1>1 DEF Grows
    <3>3. n = k => i \in 1 .. Len(heard[k]) + 1
      BY <2>5
    <3>4. n = k => i = Len(heard[k]) + 1 \/ i \in 1 .. Len(heard[k])
      BY <3>3, <2>5
    <3> QED BY <3>1, <3>2, <3>4
  <2>9. ASSUME NEW n \in Nodes, NEW i \in 1 .. Len(heard'[n]),
               NEW l \in 1 .. Len(heard'[n]), i < l
        PROVE  heard'[n][i].to < heard'[n][l].from
    <3>1. CASE n # k
      BY <3>1, <2>9, <2>4 DEF HeardIsSent
    <3>2. CASE n = k /\ l \in 1 .. Len(heard[k])
      <4>1. i \in 1 .. Len(heard[k])
        BY <3>2, <2>5, <2>9
      <4> QED BY <4>1, <3>2, <2>5, <2>9 DEF HeardIsSent
    <3>3. CASE n = k /\ l = Len(heard[k]) + 1
      <4>1. i \in 1 .. Len(heard[k])
        BY <3>3, <2>5, <2>9
      <4>2. heard'[k][l].from = start[k] + 2 /\ start[k] \in Nat
        BY <3>3, <2>3, <2>5 DEF Prefix
      <4>3. heard'[k][i].to \in Nat /\ heard'[k][i].to <= start[k]
        BY <4>1, <2>5, <2>6
      <4>4. heard'[k][i].to < heard'[k][l].from
        BY <4>2, <4>3
      <4> QED BY <4>4, <3>3
    <3> QED BY <3>1, <3>2, <3>3, <2>5
  <2> QED BY <2>7, <2>8, <2>9 DEF HeardIsSent
<1>4. ASSUME NEW k \in Nodes,
             Greet(k) \/ RecvError(k) \/ OtherBranch(k) \/ Leave(k) \/ Return(k)
      PROVE  UNCHANGED heard
  BY <1>4 DEF Greet, RecvError, OtherBranch, Leave, Return
<1>5. CASE ConnectionLost \/ UNCHANGED vars
  BY <1>5, <1>2 DEF ConnectionLost, vars
<1> QED BY <1>2, <1>3, <1>4, <1>5 DEF Next, Task

LEMMA InvStep == Inv /\ [Next]_vars => Inv'
BY TypeStep, LayoutStep, HeardStep DEF Inv

(* Every variable keeps its type; the offsets are natural numbers.         *)
THEOREM TypeCorrect == Spec => []TypeOK
<1>1. Inv => TypeOK
  BY DEF Inv
<1> QED BY <1>1, InitInv, InvStep, PTL DEF Spec

(* Whatever is dropped half way, a session handles whole messages of its   *)
(* peer, in order and once.                                                *)
THEOREM HeardIsWhole == Spec => []HeardIsSent
<1>1. Inv => HeardIsSent
  BY DEF Inv
<1> QED BY <1>1, InitInv, InvStep, PTL DEF Spec

-----------------------------------------------------------------------------
(* The handshake.  Default: the edge before the peer was heard.            *)
Default(n) == IF configured[n] = NoEdge THEN "Right" ELSE configured[n]

(* The first message of a direction is the greeting, and carries what the  *)
(* sender was configured with, or has chosen; it is read from offset 0.    *)
Greetings ==
    /\ phase[Acceptor] # "opening"
    /\ sent[Acceptor] # <<>> => sent[Acceptor][1].msg.edge = configured[Initiator]
    /\ sent[Initiator] # <<>> => /\ phase[Acceptor] \in {"active", "draining", "ended"}
                                /\ sent[Initiator][1].msg.edge = edge[Acceptor]
    /\ phase[Initiator] = "opening" => sent[Acceptor] = <<>>
    /\ phase[Initiator] = "active" => sent[Initiator] # <<>>
    /\ up => /\ phase[Initiator] \in {"greeting", "active"} => sent[Acceptor] # <<>>
             /\ phase[Acceptor] = "active" => sent[Initiator] # <<>>
    /\ \A n \in Nodes : phase[n] \in {"opening", "greeting"} =>
          start[n] = 0 /\ edge[n] = Default(n)

(* What the two of them have chosen.                                       *)
Choices ==
    /\ phase[Acceptor] = "active" =>
          edge[Acceptor] = IF configured[Acceptor] = NoEdge /\ configured[Initiator] # NoEdge
                           THEN Opposite[configured[Initiator]]
                           ELSE Default(Acceptor)
    /\ phase[Initiator] = "active" =>
          edge[Initiator] = IF configured[Initiator] = NoEdge
                            THEN Opposite[edge[Acceptor]] ELSE configured[Initiator]

LEMMA OppositeTwice ==
    \A e \in Edges : Opposite[e] \in Edges /\ Opposite[Opposite[e]] = e
BY DEF Opposite, Edges

LEMMA ChoicesAgree == TypeOK /\ Choices => EdgesAgree
<1> SUFFICES ASSUME TypeOK, Choices, \A n \in Nodes : phase[n] = "active"
             PROVE  /\ \A n \in Nodes : configured[n] # NoEdge => edge[n] = configured[n]
                    /\ (\E n \in Nodes : configured[n] = NoEdge) =>
                           edge[Initiator] = Opposite[edge[Acceptor]]
  BY DEF EdgesAgree
<1>1. Initiator \in Nodes /\ Acceptor \in Nodes
  BY DEF Nodes
<1>2. /\ edge \in [Nodes -> Edges] /\ configured \in [Nodes -> Edges \cup {NoEdge}]
      /\ phase[Initiator] = "active" /\ phase[Acceptor] = "active"
  BY <1>1 DEF TypeOK
<1>3. \A n \in Nodes : configured[n] # NoEdge => edge[n] = configured[n]
  BY <1>1, <1>2 DEF Choices, Default, Nodes
<1>4. ASSUME configured[Initiator] = NoEdge
      PROVE  edge[Initiator] = Opposite[edge[Acceptor]]
  BY <1>2, <1>4 DEF Choices
<1>5. ASSUME configured[Initiator] # NoEdge, configured[Acceptor] = NoEdge
      PROVE  edge[Initiator] = Opposite[edge[Acceptor]]
  <2>1. configured[Initiator] \in Edges /\ edge[Initiator] = configured[Initiator]
        /\ edge[Acceptor] = Opposite[configured[Initiator]]
    BY <1>1, <1>2, <1>5 DEF Choices
  <2> QED BY <2>1, OppositeTwice
<1> QED BY <1>3, <1>4, <1>5 DEF Nodes

(* A session that greets hears the first message of its stream.            *)
LEMMA HearsTheGreeting ==
    ASSUME TypeOK, Layout, NEW n \in Nodes, start[n] = 0, Whole(n),
           IsText(n, start[n] + Prefix, FrameEnd(n)),
           NEW m \in Meanings(n, start[n] + Prefix, FrameEnd(n))
    PROVE  sent[n] # <<>> /\ m = sent[n][1].msg
<1>1. PICK j \in 1 .. Len(sent[n]) :
         /\ sent[n][j].at = 0
         /\ Meanings(n, start[n] + Prefix, FrameEnd(n)) = {sent[n][j].msg}
  BY HearsAMessage
<1>2. sent[n] \in Stream /\ LaidOut(sent[n])
  BY DEF TypeOK, Layout, Stream
<1>3. Len(sent[n]) \in Nat /\ 1 \in 1 .. Len(sent[n]) /\ sent[n] # <<>>
  BY <1>1, <1>2 DEF Stream
<1>4. ASSUME 1 < j PROVE FALSE
  <2>1. sent[n][1].to <= sent[n][j].at
    BY <1>3, <1>4, <1>2 DEF LaidOut
  <2>2. /\ sent[n][1].at \in Nat /\ sent[n][1].to \in Nat
        /\ sent[n][1].at + 2 < sent[n][1].to
    BY <1>2, <1>3, LongEnough
  <2>3. sent[n][1].to <= 0
    BY <2>1, <1>1
  <2> QED BY <2>2, <2>3
<1> QED BY <1>1, <1>3, <1>4

HInv == TypeOK /\ Layout /\ Greetings /\ Choices

LEMMA HInit == Init => HInv
<1> SUFFICES ASSUME Init PROVE HInv
  OBVIOUS
<1>1. TypeOK /\ Layout
  BY InitInv DEF Inv
<1>2. Initiator \in Nodes /\ Acceptor \in Nodes
  BY DEF Nodes
<1> QED BY <1>1, <1>2, NodesAssumption DEF Init, HInv, Greetings, Choices, Default

(* The first message of a stream stays what it is.                         *)
LEMMA FirstStays ==
    ASSUME TypeOK, Grows, NEW n \in Nodes, sent[n] # <<>>
    PROVE  sent'[n] # <<>> /\ sent'[n][1] = sent[n][1]
<1>1. 1 \in 1 .. Len(sent[n])
  BY DEF TypeOK
<1>2. 1 \in 1 .. Len(sent'[n]) /\ sent'[n][1] = sent[n][1] /\ sent'[n] \in Stream
  BY <1>1 DEF Grows
<1> QED BY <1>2 DEF Stream

LEMMA HandshakeStep ==
    ASSUME HInv, [Next]_vars
    PROVE  Greetings' /\ Choices'
<1>0. /\ TypeOK /\ Layout /\ Greetings /\ Choices /\ Grows /\ TypeOK'
      /\ Initiator \in Nodes /\ Acceptor \in Nodes
      /\ Peer(Initiator) = Acceptor /\ Peer(Acceptor) = Initiator
  BY StepGrows, TypeStep, NodesAssumption DEF HInv, Nodes, Peer
<1>1. ASSUME UNCHANGED <<configured, edge, sent, start>>, up' => up,
             \A n \in Nodes : phase'[n] \in {phase[n], "draining", "ended"}
      PROVE  Greetings' /\ Choices'
  <2>1. phase'[Acceptor] \in {phase[Acceptor], "draining", "ended"}
        /\ phase'[Initiator] \in {phase[Initiator], "draining", "ended"}
    BY <1>0, <1>1
  <2>2. Greetings'
    BY <1>0, <1>1, <2>1 DEF Greetings, Default
  <2>3. Choices'
    BY <1>0, <1>1, <2>1 DEF Choices, Default
  <2> QED BY <2>2, <2>3
<1>2. ASSUME NEW n \in Nodes, Greet(n) PROVE Greetings' /\ Choices'
  <2>1. n = Initiator /\ phase[n] = "opening" /\ sent[Acceptor] = <<>>
    BY <1>0, <1>2 DEF Greet, Greetings, Nodes
  <2>2. /\ UNCHANGED <<configured, edge, start, up>> /\ phase'[Acceptor] = phase[Acceptor]
        /\ phase'[Initiator] = "greeting"
    BY <1>0, <1>2, <2>1, NodesAssumption DEF Greet, ends, TypeOK
  <2>3. sent'[Initiator] = sent[Initiator] /\ (up => sent'[Acceptor] # <<>>)
        /\ (sent'[Acceptor] # <<>> => sent'[Acceptor][1].msg.edge = configured[Initiator])
    <3> DEFINE m == [kind |-> "Handshake", version |-> version[n], edge |-> configured[n]]
    <3>1. CASE ~up
      BY <3>1, <1>2, <2>1 DEF Greet, SendControl
    <3>2. CASE up
      <4>1. sent' = [sent EXCEPT ![Acceptor] = Append(@, Written(m, EndOf(@)))]
        BY <3>2, <1>0, <1>2, <2>1 DEF Greet, SendControl
      <4>2. /\ sent'[Initiator] = sent[Initiator]
            /\ sent'[Acceptor] = Append(<<>>, Written(m, EndOf(<<>>)))
        BY <4>1, <2>1, <1>0, NodesAssumption DEF TypeOK
      <4>3. sent'[Acceptor][1] = Written(m, EndOf(<<>>))
        BY <4>2
      <4> QED BY <4>2, <4>3, <2>1 DEF Written
    <3> QED BY <3>1, <3>2
  <2>4. Greetings'
    BY <1>0, <2>1, <2>2, <2>3 DEF Greetings, Default, Nodes
  <2>5. Choices'
    BY <1>0, <2>1, <2>2 DEF Choices, Default
  <2> QED BY <2>4, <2>5
<1>3. ASSUME NEW n \in Nodes, Hear(n) PROVE Greetings' /\ Choices'
  <2>1. PICK m \in Meanings(n, start[n] + Prefix, FrameEnd(n)) :
           \/ phase[n] = "greeting" /\ (Welcome(n, m) \/ Reject(n, m))
           \/ phase[n] = "active" /\ UNCHANGED <<edge, phase, sent, finished>>
    BY <1>3 DEF Hear
  <2>2. /\ UNCHANGED <<configured, up>> /\ phase[n] \in {"greeting", "active"}
        /\ \A k \in Nodes : k # n => start'[k] = start[k]
        /\ Whole(n) /\ IsText(n, start[n] + Prefix, FrameEnd(n))
    BY <1>3 DEF Hear, NextCall, ends, TypeOK
  <2>3. CASE phase[n] = "active" /\ UNCHANGED <<edge, phase, sent, finished>>
    <3>1. Greetings'
      BY <2>2, <2>3, <1>0 DEF Greetings, Default
    <3>2. Choices'
      BY <2>2, <2>3, <1>0 DEF Choices, Default
    <3> QED BY <3>1, <3>2
  <2>4. CASE Reject(n, m)
    <3>1. /\ UNCHANGED <<edge, sent>> /\ phase'[n] = "ended"
          /\ \A k \in Nodes : k # n => phase'[k] = phase[k]
      BY <2>4, <1>0 DEF Reject, End, TypeOK
    <3>2. Greetings'
      BY <3>1, <2>2, <1>0 DEF Greetings, Default
    <3>3. Choices'
      BY <3>1, <2>2, <1>0, NodesAssumption DEF Choices, Default
    <3> QED BY <3>2, <3>3
  <2>5. CASE phase[n] = "greeting" /\ Welcome(n, m)
    <3>1. sent[n] # <<>> /\ m = sent[n][1].msg
      <4>1. start[n] = 0
        BY <2>5, <1>0 DEF Greetings
      <4> QED BY <4>1, <2>2, <1>0, HearsTheGreeting
    <3>2. /\ edge' = [edge EXCEPT ![n] = Infer(n, m)]
          /\ phase' = [phase EXCEPT ![n] = "active"]
          /\ edge[n] = Default(n)
      BY <2>5, <1>0 DEF Welcome, Greetings
    <3>3. CASE n = Acceptor
      <4>1. /\ edge'[Acceptor] = Infer(n, m) /\ edge'[Initiator] = edge[Initiator]
            /\ phase'[Acceptor] = "active" /\ phase'[Initiator] = phase[Initiator]
            /\ sent[Initiator] = <<>> /\ m.edge = configured[Initiator]
            /\ phase[Initiator] # "opening"
        BY <3>1, <3>2, <3>3, <2>5, <1>0, NodesAssumption DEF Greetings, TypeOK
      <4>2. /\ sent'[Acceptor] = sent[Acceptor] /\ (up => sent'[Initiator] # <<>>)
            /\ sent'[Initiator] # <<>> => sent'[Initiator][1].msg.edge = Infer(n, m)
        <5> DEFINE a == [kind |-> "HandshakeAck", version |-> version[n], edge |-> Infer(n, m)]
        <5>1. SendControl(n, a)
          BY <2>5, <3>3, NodesAssumption DEF Welcome
        <5>2. CASE ~up
          BY <5>1, <5>2, <4>1 DEF SendControl
        <5>3. CASE up
          <6>1. sent' = [sent EXCEPT ![Initiator] = Append(@, Written(a, EndOf(@)))]
            BY <5>1, <5>3, <1>0, <3>3 DEF SendControl
          <6>2. /\ sent'[Acceptor] = sent[Acceptor]
                /\ sent'[Initiator] = Append(<<>>, Written(a, EndOf(<<>>)))
            BY <6>1, <4>1, <1>0, NodesAssumption DEF TypeOK
          <6>3. sent'[Initiator][1] = Written(a, EndOf(<<>>))
            BY <6>2
          <6> QED BY <6>2, <6>3 DEF Written
        <5> QED BY <5>2, <5>3
      <4>3. Greetings'
        BY <4>1, <4>2, <3>1, <2>2, <3>2, <3>3, <1>0 DEF Greetings, Default, Nodes
      <4>4. edge'[Acceptor] = IF configured[Acceptor] = NoEdge /\ configured[Initiator] # NoEdge
                              THEN Opposite[configured[Initiator]]
                              ELSE Default(Acceptor)
        BY <4>1, <3>2, <3>3 DEF Infer
      <4>5. phase'[Initiator] # "active"
        BY <4>1, <1>0 DEF Greetings
      <4>6. Choices'
        BY <4>4, <4>5, <2>2 DEF Choices, Default
      <4> QED BY <4>3, <4>6
    <3>4. CASE n = Initiator
      <4>1. /\ edge'[Initiator] = Infer(n, m) /\ edge'[Acceptor] = edge[Acceptor]
            /\ phase'[Initiator] = "active" /\ phase'[Acceptor] = phase[Acceptor]
            /\ m.edge = edge[Acceptor]
        BY <3>1, <3>2, <3>4, <1>0, NodesAssumption DEF Greetings, TypeOK
      <4>2. UNCHANGED sent
        BY <2>5, <3>4, NodesAssumption DEF Welcome
      <4>3. edge[Acceptor] # NoEdge
        BY <1>0, NodesAssumption DEF TypeOK
      <4>4. Greetings'
        BY <4>1, <4>2, <3>1, <2>2, <3>2, <3>4, <1>0 DEF Greetings, Default, Nodes
      <4>5. Choices'
        BY <4>1, <4>3, <2>2, <3>2, <3>4, <1>0 DEF Choices, Default, Infer
      <4> QED BY <4>4, <4>5
    <3> QED BY <3>3, <3>4 DEF Nodes
  <2> QED BY <2>1, <2>3, <2>4, <2>5
<1>4. ASSUME NEW n \in Nodes, RecvError(n) \/ Leave(n) \/ Return(n)
      PROVE  Greetings' /\ Choices'
  <2>1. UNCHANGED <<configured, edge, sent, start, up>>
    BY <1>4 DEF RecvError, Leave, Return, ends
  <2>2. \A k \in Nodes : phase'[k] \in {phase[k], "draining", "ended"}
    BY <1>0, <1>4 DEF RecvError, Leave, Return, Break, End, TypeOK
  <2> QED BY <1>1, <2>1, <2>2
<1>5. ASSUME NEW n \in Nodes, OtherBranch(n) PROVE Greetings' /\ Choices'
  <2>0. \/ UNCHANGED sent
        \/ up /\ \E w : sent' = [sent EXCEPT ![Peer(n)] = Append(@, w)]
    <3>1. \/ UNCHANGED sent
          \/ \E k \in {"SwitchFocus", "ReleaseFocus"} :
                SendControl(n, [kind |-> k, version |-> version[n], edge |-> NoEdge])
      BY <1>5 DEF OtherBranch
    <3> QED BY <3>1 DEF SendControl
  <2>1. /\ UNCHANGED <<configured, edge, phase, up>> /\ phase[n] = "active"
        /\ \A k \in Nodes : k # n => start'[k] = start[k]
    BY <1>5, <1>0 DEF OtherBranch, ends, TypeOK
  <2>2. Choices'
    BY <2>1, <1>0 DEF Choices, Default
  <2>3. \A k \in Nodes : phase'[k] \in {"opening", "greeting"} =>
           start'[k] = 0 /\ edge'[k] = Default(k)'
    BY <2>1, <1>0 DEF Greetings, Default
  <2>4. sent'[Acceptor] # <<>> => sent[Acceptor] # <<>>
    <3>1. CASE n = Initiator
      BY <3>1, <2>1, <2>0, <1>0 DEF Greetings
    <3>2. CASE n = Acceptor
      BY <3>2, <2>0, <1>0, NodesAssumption DEF TypeOK
    <3> QED BY <3>1, <3>2 DEF Nodes
  <2>5. sent'[Initiator] # <<>> => sent[Initiator] # <<>>
    <3>1. CASE n = Acceptor
      BY <3>1, <2>1, <2>0, <1>0 DEF Greetings
    <3>2. CASE n = Initiator
      BY <3>2, <2>0, <1>0, NodesAssumption DEF TypeOK
    <3> QED BY <3>1, <3>2 DEF Nodes
  <2>6. \A k \in Nodes : sent[k] # <<>> => sent'[k] # <<>> /\ sent'[k][1] = sent[k][1]
    BY <1>0, FirstStays
  <2>7. Greetings'
    BY <2>1, <2>3, <2>4, <2>5, <2>6, <1>0 DEF Greetings
  <2> QED BY <2>2, <2>7
<1>6. CASE ConnectionLost \/ UNCHANGED vars
  BY <1>0, <1>1, <1>6 DEF ConnectionLost, vars, ends
<1> QED BY <1>2, <1>3, <1>4, <1>5, <1>6 DEF Next, Task

LEMMA HInvStep == HInv /\ [Next]_vars => HInv'
BY HandshakeStep, StepGrows, TypeStep, LayoutStep DEF HInv

(* Between builds of any versions, cut off wherever it may be, a handshake *)
(* that both sides finish keeps each configured edge, and gives a machine  *)
(* without one the edge that faces its peer's.  Of two configured edges it *)
(* says only that both are kept.                                           *)
THEOREM InferredEdgesFace == Spec => []EdgesAgree
<1>1. HInv => EdgesAgree
  BY ChoicesAgree DEF HInv
<1> QED BY HInit, HInvStep, <1>1, PTL DEF Spec

=============================================================================

--------------------------- MODULE InputPathProofs ---------------------------
(***************************************************************************)
(* What arrives of an input, for every set of paths, screens, devices,     *)
(* gestures and keys and any number of inputs: all motion, all notches,    *)
(* and every button and key as it is.                                      *)
(*                                                                         *)
(* Each of these is a chain.  From what the emulated device reports one    *)
(* goes over the wire, the queue of the X server and the buffers of the    *)
(* devices, adding what every event says, and comes out at what the user   *)
(* did.  An action takes an event from the front of one queue, puts one at *)
(* the end of another or adds some at the far end, and the chain still     *)
(* holds.  When nothing is under way its two ends meet.                    *)
(***************************************************************************)
EXTENDS InputPath, EdgeDetectorProofs, SequenceTheorems, WellFoundedInduction, TLAPS

-----------------------------------------------------------------------------
(* What a queue of events leads to, and what several queues add up to.     *)

(* A set of naturals that is not empty has a least element: where a proof  *)
(* needs induction, it takes the least counterexample.                     *)
LEMMA Least ==
    ASSUME NEW T \in SUBSET Nat, T # {}
    PROVE  \E x \in T : \A y \in T : x <= y
<1>. DEFINE R == OpToRel(<, Nat)
<1>1. IsWellFoundedOn(R, Nat)
  BY NatLessThanWellFounded
<1>2. \A x, y \in Nat : y < x => <<y, x>> \in R
  BY DEF OpToRel
<1>. HIDE DEF R
<1>3. PICK x \in T : \A y \in T : ~(<<y, x>> \in R)
  BY <1>1, WFMin
<1>4. T \subseteq Nat
  OBVIOUS
<1>5. \A y \in T : ~(y < x)
  BY <1>2, <1>3, <1>4
<1>. QED  BY <1>4, <1>5

(* What no step changes is at the end as it was at the start.              *)
LEMMA Constant ==
    ASSUME NEW n \in Nat, NEW f, \A i \in 1 .. n : f[i] = f[i - 1]
    PROVE  f[n] = f[0]
<1>. DEFINE T == {i \in 0 .. n : f[i] # f[0]}
<1>. SUFFICES ASSUME T # {} PROVE FALSE
  <2>1. n \in 0 .. n
    OBVIOUS
  <2>. QED  BY <2>1
<1>1. T \in SUBSET Nat
  OBVIOUS
<1>. HIDE DEF T
<1>2. PICK x \in T : \A y \in T : x <= y
  BY <1>1, Least
<1>3. x \in 1 .. n /\ f[x] # f[0]
  BY <1>2 DEF T
<1>4. x - 1 \in 0 .. n /\ ~(x <= x - 1)
  BY <1>3
<1>5. f[x - 1] = f[0]
  BY <1>2, <1>4 DEF T
<1>. QED  BY <1>3, <1>5

(* The events of q take the state s to the state t, one after the other:   *)
(* effect[e][x] is the state after the event e in the state x.             *)
Leads(S, effect, q, s, t) ==
    \E f \in [0 .. Len(q) -> S] :
       /\ f[0] = s /\ f[Len(q)] = t
       /\ \A i \in 1 .. Len(q) : f[i] = effect[q[i]][f[i - 1]]

(* No events change nothing.                                               *)
LEMMA LeadsEmpty ==
    ASSUME NEW S, NEW effect, NEW s \in S
    PROVE  /\ Leads(S, effect, <<>>, s, s)
           /\ \A t : Leads(S, effect, <<>>, s, t) => s = t
<1>. DEFINE f == [i \in 0 .. 0 |-> s]
<1>1. Len(<<>>) = 0 /\ f \in [0 .. 0 -> S] /\ f[0] = s
  OBVIOUS
<1>2. \A i \in 1 .. 0 : FALSE
  OBVIOUS
<1>. HIDE DEF f
<1>3. Leads(S, effect, <<>>, s, s)
  BY <1>1, <1>2 DEF Leads
<1>4. \A t : Leads(S, effect, <<>>, s, t) => s = t
  BY DEF Leads
<1>. QED  BY <1>3, <1>4

(* Two queues in a row.                                                    *)
LEMMA LeadsConcat ==
    ASSUME NEW S, NEW E, NEW effect, NEW p \in Seq(E), NEW q \in Seq(E), NEW s, NEW t, NEW u,
           Leads(S, effect, p, s, t), Leads(S, effect, q, t, u)
    PROVE  Leads(S, effect, p \o q, s, u)
<1>1. PICK f \in [0 .. Len(p) -> S] :
         /\ f[0] = s /\ f[Len(p)] = t
         /\ \A i \in 1 .. Len(p) : f[i] = effect[p[i]][f[i - 1]]
  BY DEF Leads
<1>2. PICK g \in [0 .. Len(q) -> S] :
         /\ g[0] = t /\ g[Len(q)] = u
         /\ \A i \in 1 .. Len(q) : g[i] = effect[q[i]][g[i - 1]]
  BY DEF Leads
<1>. DEFINE n == Len(p)
            r == p \o q
            h == [i \in 0 .. Len(r) |-> IF i <= n THEN f[i] ELSE g[i - n]]
<1>3. /\ n \in Nat /\ Len(q) \in Nat /\ Len(r) = n + Len(q)
      /\ \A i \in 1 .. Len(r) : r[i] = IF i <= n THEN p[i] ELSE q[i - n]
  BY ConcatProperties, LenProperties
<1>. HIDE DEF r, n
<1>4. h \in [0 .. Len(r) -> S]
  BY <1>1, <1>2, <1>3 DEF n
<1>5. h[0] = s
  BY <1>1, <1>3
<1>6. h[Len(r)] = u
  <2>1. CASE Len(q) = 0
    BY <2>1, <1>1, <1>2, <1>3 DEF n
  <2>2. CASE Len(q) # 0
    BY <2>2, <1>2, <1>3 DEF n
  <2>. QED  BY <2>1, <2>2
<1>7. ASSUME NEW i \in 1 .. Len(r) PROVE h[i] = effect[r[i]][h[i - 1]]
  <2>1. CASE i <= n
    <3>1. i \in 1 .. Len(p) /\ i \in 0 .. Len(r) /\ i - 1 \in 0 .. Len(r) /\ i - 1 <= n
      BY <2>1, <1>3 DEF n
    <3>2. h[i] = f[i] /\ h[i - 1] = f[i - 1]
      BY <2>1, <3>1
    <3>3. r[i] = p[i]
      BY <2>1, <1>3
    <3>. HIDE DEF h
    <3>. QED  BY <1>1, <3>1, <3>2, <3>3
  <2>2. CASE i = n + 1
    <3>1. h[i - 1] = t
      BY <2>2, <1>1, <1>3 DEF n
    <3>2. r[i] = q[1] /\ h[i] = g[1] /\ 1 \in 1 .. Len(q)
      BY <2>2, <1>3
    <3>3. g[1] = effect[q[1]][t]
      BY <3>2, <1>2
    <3>. HIDE DEF h
    <3>. QED  BY <3>1, <3>2, <3>3
  <2>3. CASE i > n + 1
    <3>1. /\ h[i - 1] = g[i - n - 1] /\ h[i] = g[i - n] /\ r[i] = q[i - n]
          /\ i - n \in 1 .. Len(q)
      BY <2>3, <1>3
    <3>. QED  BY <3>1, <1>2
  <2>. QED  BY <2>1, <2>2, <2>3, <1>3
<1>. HIDE DEF h
<1>. QED  BY <1>4, <1>5, <1>6, <1>7 DEF Leads, r

(* A queue of one event.                                                   *)
LEMMA LeadsOne ==
    ASSUME NEW S, NEW effect, NEW e, NEW s \in S, effect[e][s] \in S
    PROVE  Leads(S, effect, <<e>>, s, effect[e][s])
<1>. DEFINE f == [i \in 0 .. 1 |-> IF i = 0 THEN s ELSE effect[e][s]]
<1>1. f \in [0 .. 1 -> S] /\ f[0] = s /\ f[1] = effect[e][s]
  OBVIOUS
<1>2. Len(<<e>>) = 1 /\ <<e>>[1] = e
  OBVIOUS
<1>3. \A i \in 1 .. 1 : f[i] = effect[<<e>>[i]][f[i - 1]]
  BY <1>2
<1>. HIDE DEF f
<1>. QED  BY <1>1, <1>2, <1>3 DEF Leads

(* One more event at the end.                                              *)
LEMMA LeadsAppend ==
    ASSUME NEW S, NEW E, NEW effect \in [E -> [S -> S]], NEW q \in Seq(E), NEW e \in E,
           NEW s, NEW t, Leads(S, effect, q, s, t)
    PROVE  Leads(S, effect, Append(q, e), s, effect[e][t])
<1>1. t \in S
  BY LenProperties DEF Leads
<1>2. Leads(S, effect, <<e>>, t, effect[e][t])
  BY <1>1, LeadsOne
<1>3. Append(q, e) = q \o <<e>> /\ <<e>> \in Seq(E)
  BY AppendIsConcat
<1>4. Leads(S, effect, q \o <<e>>, s, effect[e][t])
  BY <1>2, <1>3, LeadsConcat
<1>. QED  BY <1>3, <1>4

(* The first event is taken off.                                           *)
LEMMA LeadsTail ==
    ASSUME NEW S, NEW E, NEW effect \in [E -> [S -> S]], NEW q \in Seq(E), q # <<>>,
           NEW s, NEW t, Leads(S, effect, q, s, t)
    PROVE  Leads(S, effect, Tail(q), effect[Head(q)][s], t)
<1>1. PICK f \in [0 .. Len(q) -> S] :
         /\ f[0] = s /\ f[Len(q)] = t
         /\ \A i \in 1 .. Len(q) : f[i] = effect[q[i]][f[i - 1]]
  BY DEF Leads
<1>2. /\ Len(q) \in Nat \ {0} /\ Len(Tail(q)) = Len(q) - 1 /\ Head(q) = q[1]
      /\ \A i \in 1 .. Len(Tail(q)) : Tail(q)[i] = q[i + 1]
  BY HeadTailProperties, EmptySeq, LenProperties
<1>. DEFINE r == Tail(q)
            g == [i \in 0 .. Len(r) |-> f[i + 1]]
<1>. HIDE DEF r
<1>3. g \in [0 .. Len(r) -> S] /\ g[0] = effect[Head(q)][s] /\ g[Len(r)] = t
  BY <1>1, <1>2 DEF r
<1>4. \A i \in 1 .. Len(r) : g[i] = effect[r[i]][g[i - 1]]
  BY <1>1, <1>2 DEF r
<1>. HIDE DEF g
<1>. QED  BY <1>3, <1>4 DEF Leads, r

(* Events that leave a state as it is lead nowhere else.                   *)
LEMMA LeadsIdle ==
    ASSUME NEW S, NEW E, NEW effect, NEW q \in Seq(E), NEW s \in S,
           \A i \in 1 .. Len(q) : effect[q[i]][s] = s
    PROVE  Leads(S, effect, q, s, s)
<1>. DEFINE f == [i \in 0 .. Len(q) |-> s]
<1>1. Len(q) \in Nat
  BY LenProperties
<1>2. f \in [0 .. Len(q) -> S] /\ f[0] = s /\ f[Len(q)] = s
  BY <1>1
<1>3. \A i \in 1 .. Len(q) : f[i] = effect[q[i]][f[i - 1]]
  BY <1>1
<1>. HIDE DEF f
<1>. QED  BY <1>2, <1>3 DEF Leads

(* Events that leave every state as it is lead nowhere else.               *)
LEMMA IdleStays ==
    ASSUME NEW S, NEW E, NEW effect, NEW q \in Seq(E), NEW s, NEW t,
           \A i \in 1 .. Len(q), x \in S : effect[q[i]][x] = x,
           Leads(S, effect, q, s, t)
    PROVE  s = t
<1>1. PICK f \in [0 .. Len(q) -> S] :
         /\ f[0] = s /\ f[Len(q)] = t
         /\ \A i \in 1 .. Len(q) : f[i] = effect[q[i]][f[i - 1]]
  BY DEF Leads
<1>2. Len(q) \in Nat
  BY LenProperties
<1>3. \A i \in 1 .. Len(q) : f[i] = f[i - 1]
  BY <1>1, <1>2
<1>. QED  BY <1>1, <1>2, <1>3, Constant

(* The sum of the shares of the members of D, of which finitely many have  *)
(* one: T is what they add up to in some order, each of them once.         *)
Adding(D, share) == [d \in D |-> [n \in Int |-> n + share[d]]]

Total(D, share, T) ==
    \E e \in Seq(D) :
       /\ \A i, j \in 1 .. Len(e) : e[i] = e[j] => i = j
       /\ \A d \in D : share[d] # 0 => \E i \in 1 .. Len(e) : e[i] = d
       /\ Leads(Int, Adding(D, share), e, 0, T)

(* One share is added.                                                     *)
LEMMA AddingAdds ==
    ASSUME NEW D, NEW share, NEW d \in D, NEW n \in Int
    PROVE  Adding(D, share)[d][n] = n + share[d]
BY DEF Adding

(* No shares add up to nothing.                                            *)
LEMMA TotalNone ==
    ASSUME NEW D, NEW share \in [D -> Int], \A d \in D : share[d] = 0
    PROVE  /\ Total(D, share, 0)
           /\ \A T : Total(D, share, T) => T = 0
<1>1. Total(D, share, 0)
  <2>1. <<>> \in Seq(D) /\ Len(<<>>) = 0
    OBVIOUS
  <2>2. Leads(Int, Adding(D, share), <<>>, 0, 0)
    BY LeadsEmpty
  <2>3. \A i, j \in 1 .. Len(<<>>) : <<>>[i] = <<>>[j] => i = j
    BY <2>1
  <2>. QED  BY <2>1, <2>2, <2>3 DEF Total
<1>2. ASSUME NEW T, Total(D, share, T) PROVE T = 0
  <2>1. PICK e \in Seq(D) : Leads(Int, Adding(D, share), e, 0, T)
    BY <1>2 DEF Total
  <2>2. ASSUME NEW i \in 1 .. Len(e), NEW x \in Int PROVE Adding(D, share)[e[i]][x] = x
    <3>1. e[i] \in D
      BY ElementOfSeq
    <3>2. Adding(D, share)[e[i]][x] = x + share[e[i]]
      BY <3>1, AddingAdds
    <3>. QED  BY <3>1, <3>2
  <2>. QED  BY <2>1, <2>2, IdleStays
<1>. QED  BY <1>1, <1>2

(* A share that grows by v makes the total grow by v.                      *)
LEMMA TotalUpdate ==
    ASSUME NEW D, NEW share \in [D -> Int], NEW d \in D, NEW v \in Int, NEW T \in Int,
           Total(D, share, T)
    PROVE  Total(D, [share EXCEPT ![d] = @ + v], T + v)
<1>. DEFINE new == [share EXCEPT ![d] = @ + v]
<1>1. PICK e \in Seq(D) :
         /\ \A i, j \in 1 .. Len(e) : e[i] = e[j] => i = j
         /\ \A c \in D : share[c] # 0 => \E i \in 1 .. Len(e) : e[i] = c
         /\ Leads(Int, Adding(D, share), e, 0, T)
  BY DEF Total
<1>2. PICK f \in [0 .. Len(e) -> Int] :
         /\ f[0] = 0 /\ f[Len(e)] = T
         /\ \A i \in 1 .. Len(e) : f[i] = Adding(D, share)[e[i]][f[i - 1]]
  BY <1>1 DEF Leads
<1>. DEFINE n == Len(e)
<1>3. n \in Nat /\ \A i \in 1 .. n : e[i] \in D
  BY LenProperties, ElementOfSeq
<1>4. /\ new \in [D -> Int] /\ new[d] = share[d] + v
      /\ \A c \in D \ {d} : new[c] = share[c]
  OBVIOUS
<1>. HIDE DEF new
<1>5. ASSUME NEW i \in 1 .. n
      PROVE  /\ f[i] \in Int /\ f[i - 1] \in Int
             /\ f[i] = f[i - 1] + share[e[i]]
  <2>1. i - 1 \in 0 .. n /\ i \in 0 .. n
    BY <1>3
  <2>2. f[i] \in Int /\ f[i - 1] \in Int
    BY <1>2, <2>1
  <2>3. Adding(D, share)[e[i]][f[i - 1]] = f[i - 1] + share[e[i]]
    <3>. DEFINE c == e[i]
                x == f[i - 1]
    <3>1. c \in D /\ x \in Int
      BY <1>3, <2>2
    <3>. HIDE DEF c, x
    <3>2. Adding(D, share)[c][x] = x + share[c]
      BY <3>1 DEF Adding
    <3>. QED  BY <3>2 DEF c, x
  <2>4. f[i] = Adding(D, share)[e[i]][f[i - 1]]
    BY <1>2
  <2>. QED  BY <2>2, <2>3, <2>4
<1>6. CASE \E k \in 1 .. n : e[k] = d
  <2>1. PICK k \in 1 .. n : e[k] = d
    BY <1>6
  <2>. DEFINE g == [i \in 0 .. n |-> IF i < k THEN f[i] ELSE f[i] + v]
  <2>2. g \in [0 .. n -> Int] /\ g[0] = 0 /\ g[n] = T + v
    BY <1>2, <1>3, <2>1
  <2>3. ASSUME NEW i \in 1 .. n PROVE g[i] = g[i - 1] + new[e[i]]
    <3>0. share[e[i]] \in Int /\ i - 1 \in 0 .. n /\ i \in 0 .. n
      BY <1>3
    <3>1. CASE i = k
      <4>1. g[i] = f[i] + v /\ g[i - 1] = f[i - 1] /\ new[e[i]] = share[e[i]] + v
        BY <3>0, <3>1, <1>4, <2>1
      <4>2. /\ f[i] \in Int /\ f[i - 1] \in Int
            /\ f[i] = f[i - 1] + share[e[i]]
        BY <1>5
      <4>. DEFINE x == f[i - 1]
                  y == f[i]
                  z == share[e[i]]
      <4>3. x \in Int /\ y \in Int /\ z \in Int /\ y = x + z
        BY <3>0, <4>2
      <4>4. g[i] = y + v /\ g[i - 1] = x /\ new[e[i]] = z + v
        BY <4>1
      <4>. HIDE DEF g, x, y, z
      <4>. QED  BY <4>3, <4>4
    <3>2. CASE i # k
      <4>1. e[i] \in D \ {d}
        BY <3>2, <1>1, <1>3, <2>1
      <4>2. new[e[i]] = share[e[i]]
        BY <4>1, <1>4
      <4>3. \/ g[i] = f[i] /\ g[i - 1] = f[i - 1]
            \/ g[i] = f[i] + v /\ g[i - 1] = f[i - 1] + v
        BY <3>0, <3>2, <2>1
      <4>4. /\ f[i] \in Int /\ f[i - 1] \in Int
            /\ f[i] = f[i - 1] + share[e[i]]
        BY <1>5
      <4>. DEFINE x == f[i - 1]
                  y == f[i]
                  z == share[e[i]]
      <4>5. x \in Int /\ y \in Int /\ z \in Int /\ y = x + z
        BY <3>0, <4>4
      <4>6. \/ g[i] = y /\ g[i - 1] = x
            \/ g[i] = y + v /\ g[i - 1] = x + v
        BY <4>3
      <4>7. new[e[i]] = z
        BY <4>2
      <4>. HIDE DEF g, x, y, z
      <4>8. CASE g[i] = y /\ g[i - 1] = x
        BY <4>8, <4>5, <4>7
      <4>9. CASE g[i] = y + v /\ g[i - 1] = x + v
        BY <4>9, <4>5, <4>7
      <4>. QED  BY <4>6, <4>8, <4>9
    <3>. QED  BY <3>1, <3>2
  <2>4. ASSUME NEW i \in 1 .. n PROVE g[i] = Adding(D, new)[e[i]][g[i - 1]]
    <3>1. i - 1 \in 0 .. n
      BY <1>3
    <3>2. g[i - 1] \in Int
      BY <3>1, <2>2
    <3>3. e[i] \in D
      BY <1>3
    <3>4. g[i] = g[i - 1] + new[e[i]]
      BY <2>3
    <3>. HIDE DEF g
    <3>5. Adding(D, new)[e[i]][g[i - 1]] = g[i - 1] + new[e[i]]
      BY <3>2, <3>3, AddingAdds
    <3>. QED  BY <3>4, <3>5
  <2>5. Leads(Int, Adding(D, new), e, 0, T + v)
    <3>. HIDE DEF g
    <3>. QED  BY <2>2, <2>4 DEF Leads
  <2>6. \A c \in D : new[c] # 0 => \E i \in 1 .. Len(e) : e[i] = c
    BY <1>1, <1>4, <1>6
  <2>. QED  BY <1>1, <2>5, <2>6 DEF Total, new
<1>7. CASE \A k \in 1 .. n : e[k] # d
  <2>1. share[d] = 0
    BY <1>1, <1>7
  <2>2. ASSUME NEW i \in 1 .. n PROVE f[i] = Adding(D, new)[e[i]][f[i - 1]]
    <3>1. e[i] \in D \ {d}
      BY <1>3, <1>7
    <3>2. new[e[i]] = share[e[i]]
      BY <3>1, <1>4
    <3>. DEFINE c == e[i]
                x == f[i - 1]
    <3>4. c \in D /\ x \in Int
      BY <3>1, <1>5
    <3>3. Adding(D, new)[c][x] = x + new[c]
      <4>. HIDE DEF c, x
      <4>. QED  BY <3>4, AddingAdds
    <3>. QED  BY <3>2, <3>3, <1>5
  <2>3. Leads(Int, Adding(D, new), e, 0, T)
    BY <1>2, <2>2 DEF Leads
  <2>4. Adding(D, new) \in [D -> [Int -> Int]]
    BY <1>4 DEF Adding
  <2>5. Leads(Int, Adding(D, new), Append(e, d), 0, Adding(D, new)[d][T])
    BY <2>3, <2>4, LeadsAppend
  <2>6. Adding(D, new)[d][T] = T + v
    BY <2>1, <1>4 DEF Adding
  <2>. DEFINE a == Append(e, d)
  <2>7. /\ a \in Seq(D) /\ Len(a) = n + 1
        /\ \A i \in 1 .. n + 1 : a[i] = IF i <= n THEN e[i] ELSE d
    BY AppendProperties, <1>3
  <2>. HIDE DEF a
  <2>8. ASSUME NEW i \in 1 .. Len(a), NEW j \in 1 .. Len(a), a[i] = a[j] PROVE i = j
    <3>1. i \in 1 .. n \/ i = n + 1
      BY <2>7, <1>3
    <3>2. j \in 1 .. n \/ j = n + 1
      BY <2>7, <1>3
    <3>3. /\ i \in 1 .. n => a[i] = e[i]
          /\ j \in 1 .. n => a[j] = e[j]
          /\ i = n + 1 => a[i] = d
          /\ j = n + 1 => a[j] = d
      BY <2>7, <1>3
    <3>. QED  BY <3>1, <3>2, <3>3, <2>8, <1>1, <1>7
  <2>9. \A c \in D : new[c] # 0 => \E i \in 1 .. Len(a) : a[i] = c
    <3>1. a[n + 1] = d /\ n + 1 \in 1 .. Len(a)
      BY <2>7, <1>3
    <3>2. ASSUME NEW c \in D \ {d}, new[c] # 0 PROVE \E i \in 1 .. Len(a) : a[i] = c
      <4>1. PICK i \in 1 .. n : e[i] = c
        BY <3>2, <1>1, <1>4
      <4>2. i \in 1 .. Len(a) /\ a[i] = c
        <5>1. i \in 1 .. n + 1 /\ i <= n
          BY <1>3
        <5>. QED  BY <5>1, <4>1, <2>7
      <4>. QED  BY <4>2
    <3>. QED  BY <3>1, <3>2
  <2>10. Leads(Int, Adding(D, new), a, 0, T + v)
    BY <2>5, <2>6 DEF a
  <2>. QED  BY <2>7, <2>8, <2>9, <2>10 DEF Total, new
<1>. QED  BY <1>6, <1>7

-----------------------------------------------------------------------------
(* The edge.                                                               *)

(* The places do not change, and after a hit the cursor stays in the       *)
(* centre, because nothing is received any more.                           *)
Recentred == /\ screen \in Screens /\ edge \in Edges
             /\ over \in BOOLEAN
             /\ over => cursor = Centre(screen)

(* The path starts with the cursor in the centre and no hit.               *)
LEMMA StartsRecentred == Init => Recentred
BY DEF Init, Start, Recentred

(* Only Receive touches the cursor, and it takes nothing after a hit.      *)
LEMMA RecentredStep == Recentred /\ [Next]_vars => Recentred'
<1>. SUFFICES ASSUME Recentred, [Next]_vars PROVE Recentred'
  OBVIOUS
<1>. USE DEF Recentred
<1>1. ASSUME NEW d \in Mice, NEW g \in Gestures, UseMouse(d, g) PROVE Recentred'
  BY <1>1 DEF UseMouse, places, replayVars
<1>2. ASSUME NEW k \in Codes, NEW v \in 0 .. 2, UseKeyboard(k, v) PROVE Recentred'
  BY <1>2 DEF UseKeyboard, places, replayVars
<1>3. ASSUME NEW d \in Devices, ReadEvdev(d) PROVE Recentred'
  BY <1>3 DEF ReadEvdev, places, replayVars
<1>4. CASE ReadKeyboard
  BY <1>4 DEF ReadKeyboard, places, replayVars
<1>5. CASE ReadServer
  BY <1>5 DEF ReadServer, places, replayVars
<1>6. CASE Receive
  <2>. DEFINE ev == Head(wire)
              p == IF ev.kind = "move" THEN MoveCursor(screen, cursor, Moved(ev)) ELSE cursor
  <2>1. ~over /\ UNCHANGED places
    BY <1>6 DEF Receive
  <2>2. CASE HitEdge(p)
    BY <2>1, <2>2 DEF HitEdge, places
  <2>3. CASE Replay(ev)
    BY <2>1, <2>3 DEF Replay, places
  <2>4. HitEdge(p) \/ Replay(ev)
    BY <1>6 DEF Receive
  <2>. QED  BY <2>2, <2>3, <2>4
<1>7. CASE UNCHANGED vars
  BY <1>7 DEF vars, places, replayVars
<1>. QED  BY <1>1, <1>2, <1>3, <1>4, <1>5, <1>6, <1>7 DEF Next

(* Re-centring disarms the detector on every screen of at least three      *)
(* pixels a side, whatever was captured and however it was cut off         *)
(* (lib.rs:671 "so next switch requires reaching edge again").             *)
THEOREM HitIsQuiet == Spec => []RecentredIsQuiet
<1>1. Recentred => RecentredIsQuiet
  BY PathAssumption, CentreIsQuiet DEF Recentred, RecentredIsQuiet
<1>. QED  BY StartsRecentred, RecentredStep, <1>1, PTL DEF Spec

(* The target edge of a session keeps a stretch that hands focus over,     *)
(* unless two dead zones are longer than the edge (edge.rs:70-82).         *)
THEOREM EdgeIsReachable == Spec => []EdgeStaysReachable
<1>1. Recentred => EdgeStaysReachable
  <2>. SUFFICES ASSUME Recentred, Side(screen, edge) >= 2 * screen.dz
                PROVE  \E p \in Positions(screen) : Hits(screen, edge, p)
    BY DEF EdgeStaysReachable
  <2>1. IsScreen(screen) /\ edge \in Edges
    BY PathAssumption DEF Recentred
  <2>2. /\ edge \in {"Left", "Right"} => screen.h >= 2 * screen.dz
        /\ edge \in {"Top", "Bottom"} => screen.w >= 2 * screen.dz
    BY <2>1 DEF Side, Edges
  <2>. QED  BY <2>1, <2>2, LongEdgeIsReachable
<1>. QED  BY StartsRecentred, RecentredStep, <1>1, PTL DEF Spec

-----------------------------------------------------------------------------
(* The types.                                                              *)

(* Short sequences.                                                        *)
LEMMA OneOf ==
    ASSUME NEW S, NEW e \in S
    PROVE  <<e>> \in Seq(S)
OBVIOUS

(* An optional part of what a device reports.                              *)
LEMMA UnlessType ==
    ASSUME NEW S, NEW zero, NEW v, NEW raw, v # zero => raw \in S
    PROVE  Unless(zero, v, raw) \in Seq(S)
<1>1. CASE v = zero
  BY <1>1 DEF Unless
<1>2. CASE v # zero
  BY <1>2, OneOf DEF Unless
<1>. QED  BY <1>1, <1>2

(* Sequences over a set, one after the other.                              *)
LEMMA ConcatType ==
    ASSUME NEW S, NEW p \in Seq(S), NEW q \in Seq(S)
    PROVE  p \o q \in Seq(S)
BY ConcatProperties

(* Integer division.                                                       *)
LEMMA PixelsType ==
    ASSUME NEW v \in Int
    PROVE  v \div Unit \in Int
BY PathAssumption

(* What a mouse reports, to the kernel or to the X server.                 *)
MouseRaw == {e \in RawEvent : e.type = "KEY" => e.code \in Buttons /\ e.value # 2}

(* What a mouse reports through the X server.                              *)
MouseX == {e \in ServerEvent : e.type # "RawKey"}

(* These are raw events and events of the server.                          *)
LEMMA MouseEvents ==
    Seq(MouseRaw) \subseteq Seq(RawEvent) /\ Seq(MouseX) \subseteq Seq(ServerEvent)
BY DEF MouseRaw, MouseX

(* A report ends with a SYN.                                               *)
LEMMA PacketType ==
    ASSUME NEW g \in Gesture, NEW down \in BOOLEAN
    PROVE  \E p \in Seq(MouseRaw) : /\ Packet(g, down) = p \o <<Raw("SYN", 0, 0)>>
                                    /\ Packet(g, down) \in Seq(MouseRaw)
<1>1. g.dx \in Int /\ g.dy \in Int /\ g.wheel \in Int /\ g.tilt \in Int
  BY DEF Gesture
<1>2. g.button # 0 => g.button \in Buttons /\ g.button \in Nat
  BY DEF Gesture, Buttons
<1>. DEFINE key == Raw("KEY", g.button, IF down THEN 1 ELSE 0)
<1>3. /\ Raw("REL", REL_X, g.dx) \in MouseRaw /\ Raw("REL", REL_Y, g.dy) \in MouseRaw
      /\ Raw("REL", REL_WHEEL, g.wheel) \in MouseRaw
      /\ Raw("REL", REL_HWHEEL, g.tilt) \in MouseRaw
      /\ Raw("SYN", 0, 0) \in MouseRaw
  BY <1>1 DEF Raw, RawEvent, MouseRaw, REL_X, REL_Y, REL_WHEEL, REL_HWHEEL
<1>4. g.button # 0 => key \in MouseRaw
  BY <1>2 DEF Raw, RawEvent, MouseRaw
<1>. DEFINE a == Unless(0, g.dx, Raw("REL", REL_X, g.dx))
            b == Unless(0, g.dy, Raw("REL", REL_Y, g.dy))
            c == Unless(0, g.button, key)
            d == Unless(0, g.wheel, Raw("REL", REL_WHEEL, g.wheel))
            e == Unless(0, g.tilt, Raw("REL", REL_HWHEEL, g.tilt))
            f == <<Raw("SYN", 0, 0)>>
<1>5. /\ a \in Seq(MouseRaw) /\ b \in Seq(MouseRaw) /\ c \in Seq(MouseRaw)
      /\ d \in Seq(MouseRaw) /\ e \in Seq(MouseRaw) /\ f \in Seq(MouseRaw)
  BY <1>3, <1>4, UnlessType, OneOf
<1>6. Packet(g, down) = a \o b \o c \o d \o e \o f
  BY DEF Packet
<1>. HIDE DEF a, b, c, d, e
<1>7. a \o b \o c \o d \o e \in Seq(MouseRaw)
  BY <1>5, ConcatType
<1>8. a \o b \o c \o d \o e \o f \in Seq(MouseRaw)
  <2>. HIDE DEF f
  <2>. QED  BY <1>5, <1>7, ConcatType
<1>. QED  BY <1>6, <1>7, <1>8

(* Clicks are events of a mouse.                                           *)
LEMMA ClicksType ==
    ASSUME NEW n \in Int, NEW back \in 1 .. 9, NEW forth \in 1 .. 9
    PROVE  Clicks(n, back, forth) \in Seq(MouseX)
<1>. DEFINE click(i) == [type |-> "RawButton", detail |-> IF n < 0 THEN back ELSE forth,
                         down |-> i % 2 = 1]
<1>1. 2 * Size(n) \in Nat
  BY DEF Size
<1>2. \A i \in 1 .. 2 * Size(n) : click(i) \in MouseX
  BY DEF ServerEvent, MouseX
<1>3. [i \in 1 .. 2 * Size(n) |-> click(i)] \in Seq(MouseX)
  BY <1>1, <1>2, IsASeq
<1>. QED  BY <1>3 DEF Clicks

(* The five buttons have numbers that no wheel has.                        *)
LEMMA XNumberType ==
    ASSUME NEW b \in Buttons
    PROVE  XNumber[b] \in {1, 2, 3, 8, 9}
BY DEF XNumber, Buttons

(* A gesture on the X server.                                              *)
LEMMA XEventsType ==
    ASSUME NEW g \in Gesture, NEW down \in BOOLEAN
    PROVE  XEvents(g, down) \in Seq(MouseX)
<1>1. /\ g.dx \in Int /\ g.dy \in Int /\ g.wheel \in Int /\ g.tilt \in Int
      /\ g.button \in Buttons \cup {0}
  BY DEF Gesture
<1>. DEFINE motion == [type |-> "RawMotion", dx |-> g.dx, dy |-> g.dy]
            click == [type |-> "RawButton",
                      detail |-> IF g.button = 0 THEN 0 ELSE XNumber[g.button], down |-> down]
<1>2. motion \in MouseX
  BY <1>1 DEF ServerEvent, MouseX
<1>3. g.button # 0 => click \in MouseX
  BY <1>1, XNumberType DEF ServerEvent, MouseX
<1>. DEFINE a == Unless(<<0, 0>>, <<g.dx, g.dy>>, motion)
            b == Unless(0, g.button, click)
            c == Clicks(g.wheel, 5, 4)
            d == Clicks(g.tilt, 6, 7)
<1>4. a \in Seq(MouseX) /\ b \in Seq(MouseX)
  <2>1. ASSUME NEW m \in MouseX PROVE Unless(<<0, 0>>, <<g.dx, g.dy>>, m) \in Seq(MouseX)
    BY UnlessType
  <2>2. ASSUME NEW e, g.button # 0 => e \in MouseX
        PROVE  Unless(0, g.button, e) \in Seq(MouseX)
    BY <2>2, UnlessType
  <2>3. a \in Seq(MouseX)
    BY <1>2, <2>1
  <2>4. b \in Seq(MouseX)
    BY <1>3, <2>2
  <2>. QED  BY <2>3, <2>4
<1>5. c \in Seq(MouseX) /\ d \in Seq(MouseX)
  <2>1. 4 \in 1 .. 9 /\ 5 \in 1 .. 9 /\ 6 \in 1 .. 9 /\ 7 \in 1 .. 9
    OBVIOUS
  <2>2. c \in Seq(MouseX)
    BY <1>1, <2>1, ClicksType
  <2>3. d \in Seq(MouseX)
    BY <1>1, <2>1, ClicksType
  <2>. QED  BY <2>2, <2>3
<1>6. XEvents(g, down) = a \o b \o c \o d
  BY DEF XEvents
<1>. HIDE DEF a, b, c, d
<1>. QED  BY <1>4, <1>5, <1>6, ConcatType

(* A button or key that goes down or up.                                   *)
LEMMA ToggledType ==
    ASSUME NEW d \in Devices, NEW k \in Codes \cup Buttons,
           phys \in [Devices -> SUBSET (Codes \cup Buttons)]
    PROVE  Toggled(d, k) \in [Devices -> SUBSET (Codes \cup Buttons)]
BY DEF Toggled

LEMMA UseMouseType ==
    ASSUME TypeOK, NEW d \in Mice, NEW g \in Gestures, UseMouse(d, g)
    PROVE  TypeOK'
<1>1. g \in Gesture /\ d \in Devices
  BY PathAssumption DEF Devices
<1>2. /\ g.dx \in Int /\ g.dy \in Int /\ g.wheel \in Int /\ g.tilt \in Int
      /\ g.button \in Buttons \cup {0}
  BY <1>1 DEF Gesture
<1>. DEFINE down == g.button \notin phys[d]
            h == [g EXCEPT !.dx = @ \div Unit, !.dy = @ \div Unit]
<1>3. h \in Gesture
  BY <1>1, <1>2, PixelsType DEF Gesture
<1>4. Packet(h, down) \in Seq(RawEvent) /\ XEvents(g, down) \in Seq(ServerEvent)
  <2>1. down \in BOOLEAN
    OBVIOUS
  <2>2. Packet(h, down) \in Seq(MouseRaw) /\ XEvents(g, down) \in Seq(MouseX)
    <3>. HIDE DEF down, h
    <3>. QED  BY <1>1, <1>3, <2>1, PacketType, XEventsType
  <2>. QED  BY <2>2, MouseEvents
<1>5. made' \in Count
  <2>1. made.x \in Int /\ made.y \in Int /\ made.wheel \in Int /\ made.tilt \in Int
    BY DEF TypeOK, Count
  <2>2. made' = [x |-> made.x + g.dx, y |-> made.y + g.dy,
                 wheel |-> made.wheel + g.wheel, tilt |-> made.tilt + g.tilt]
    BY DEF UseMouse
  <2>. QED  BY <1>2, <2>1, <2>2 DEF Count
<1>6. phys' \in [Devices -> SUBSET (Codes \cup Buttons)]
  BY <1>1, <1>2, ToggledType DEF UseMouse, TypeOK
<1>7. inputs' \in 0 .. Inputs
  BY PathAssumption DEF UseMouse, TypeOK
<1>. HIDE DEF down, h
<1>8. buffer' \in [Devices -> Seq(RawEvent)] /\ server' \in Seq(ServerEvent)
  <2>1. buffer[d] \o Packet(h, down) \in Seq(RawEvent)
    BY <1>1, <1>4, ConcatType DEF TypeOK
  <2>2. server \o XEvents(g, down) \in Seq(ServerEvent)
    BY <1>4, ConcatType DEF TypeOK
  <2>. QED  BY <1>1, <2>1, <2>2 DEF UseMouse, TypeOK, h, down
<1>. QED  BY <1>5, <1>6, <1>7, <1>8 DEF UseMouse, TypeOK, places, replayVars

LEMMA UseKeyboardType ==
    ASSUME TypeOK, NEW k \in Codes, NEW v \in 0 .. 2, UseKeyboard(k, v)
    PROVE  TypeOK'
<1>1. k \in Nat /\ Keyboard \in Devices
  BY PathAssumption DEF Devices
<1>. DEFINE two == <<Raw("KEY", k, v), Raw("SYN", 0, 0)>>
            one == [type |-> "RawKey", detail |-> k + 8, down |-> v = 1]
<1>2. Raw("KEY", k, v) \in RawEvent /\ Raw("SYN", 0, 0) \in RawEvent
  BY <1>1 DEF Raw, RawEvent
<1>3. two \in Seq(RawEvent)
  BY <1>2
<1>4. one \in ServerEvent
  BY <1>1 DEF ServerEvent
<1>5. phys' \in [Devices -> SUBSET (Codes \cup Buttons)]
  BY <1>1, ToggledType DEF UseKeyboard, TypeOK
<1>6. inputs' \in 0 .. Inputs
  BY PathAssumption DEF UseKeyboard, TypeOK
<1>. HIDE DEF two, one
<1>7. buffer' \in [Devices -> Seq(RawEvent)] /\ server' \in Seq(ServerEvent)
  <2>1. buffer[Keyboard] \o two \in Seq(RawEvent)
    BY <1>1, <1>3, ConcatType DEF TypeOK
  <2>2. Append(server, one) \in Seq(ServerEvent)
    BY <1>4, AppendProperties DEF TypeOK
  <2>. QED  BY <1>1, <2>1, <2>2 DEF UseKeyboard, TypeOK, two, one
<1>. QED  BY <1>5, <1>6, <1>7 DEF UseKeyboard, TypeOK, places, replayVars

LEMMA ReturnedType ==
    ASSUME TypeOK, NEW ev \in InputEvent, Returned(ev)
    PROVE  wire' \in Seq(InputEvent) /\ reading' \in Devices \cup {"none"}
BY AppendProperties DEF Returned, TypeOK

LEMMA ReadOnType ==
    ASSUME TypeOK, NEW d \in Devices, ReadOn(d)
    PROVE  wire' \in Seq(InputEvent) /\ reading' \in Devices \cup {"none"}
BY DEF ReadOn, TypeOK

LEMMA MakersType ==
    /\ \A x, y \in Int : Move(x, y) \in InputEvent /\ Scroll(x, y) \in InputEvent
    /\ \A k \in {"button", "key"}, c \in Nat, v \in BOOLEAN : Press(k, c, v) \in InputEvent
BY DEF Move, Scroll, Press, InputEvent

LEMMA ReadEvdevType ==
    ASSUME TypeOK, NEW d \in Devices, ReadEvdev(d)
    PROVE  TypeOK'
<1>. DEFINE raw == Head(buffer[d])
<1>1. buffer[d] \in Seq(RawEvent) /\ buffer[d] # <<>>
  BY DEF TypeOK, ReadEvdev
<1>2. raw \in RawEvent /\ Tail(buffer[d]) \in Seq(RawEvent)
  BY <1>1, HeadTailProperties
<1>3. raw.code \in Nat /\ raw.value \in Int
  BY <1>2 DEF RawEvent
<1>4. pending \in [x : Int, y : Int] /\ pending.x \in Int /\ pending.y \in Int
  BY DEF TypeOK
<1>5. buffer' \in [Devices -> Seq(RawEvent)]
  BY <1>2 DEF TypeOK, ReadEvdev
<1>. DEFINE Good == /\ wire' \in Seq(InputEvent) /\ reading' \in Devices \cup {"none"}
                    /\ pending' \in [x : Int, y : Int]
<1>. HIDE DEF raw
<1>6. ASSUME EndOfReport(d) PROVE Good
  <2>1. Move(pending.x, pending.y) \in InputEvent
    BY <1>4, MakersType
  <2>. QED  BY <1>6, <2>1, ReturnedType, ReadOnType DEF EndOfReport
<1>7. ASSUME Relative(d, raw) PROVE Good
  <2>1. raw.value * Unit \in Int
    BY <1>3, PathAssumption
  <2>2. /\ [pending EXCEPT !.x = @ + raw.value * Unit] \in [x : Int, y : Int]
        /\ [pending EXCEPT !.y = @ + raw.value * Unit] \in [x : Int, y : Int]
    BY <1>4, <2>1
  <2>3. Scroll(0, -raw.value) \in InputEvent /\ Scroll(raw.value, 0) \in InputEvent
    BY <1>3, MakersType
  <2>. QED  BY <1>4, <1>7, <2>2, <2>3, ReturnedType, ReadOnType DEF Relative
<1>8. ASSUME TranslateKey(d, raw) PROVE Good
  <2>1. /\ Press("button", raw.code, raw.value # 0) \in InputEvent
        /\ Press("key", raw.code, raw.value # 0) \in InputEvent
    BY <1>3, MakersType
  <2>2. UNCHANGED pending
    BY <1>8 DEF TranslateKey
  <2>3. \/ Returned(Press("button", raw.code, raw.value # 0)) \/ ReadOn(d)
        \/ Returned(Press("key", raw.code, raw.value # 0))
    BY <1>8 DEF TranslateKey
  <2>. QED  BY <1>4, <2>1, <2>2, <2>3, ReturnedType, ReadOnType
<1>9. Good
  BY <1>6, <1>7, <1>8 DEF ReadEvdev, raw
<1>. QED  BY <1>5, <1>9 DEF TypeOK, ReadEvdev, places, replayVars, userVars

LEMMA ReadKeyboardType ==
    ASSUME TypeOK, ReadKeyboard
    PROVE  TypeOK'
<1>. DEFINE raw == Head(buffer[Keyboard])
<1>0. Keyboard \in Devices
  BY DEF Devices
<1>1. buffer[Keyboard] \in Seq(RawEvent) /\ buffer[Keyboard] # <<>>
  BY <1>0 DEF TypeOK, ReadKeyboard
<1>2. raw \in RawEvent /\ Tail(buffer[Keyboard]) \in Seq(RawEvent)
  BY <1>1, HeadTailProperties
<1>3. Press("key", raw.code, raw.value # 0) \in InputEvent
  BY <1>2, MakersType DEF RawEvent
<1>4. buffer' \in [Devices -> Seq(RawEvent)]
  BY <1>0, <1>2 DEF TypeOK, ReadKeyboard
<1>. HIDE DEF raw
<1>5. Returned(Press("key", raw.code, raw.value # 0)) \/ UNCHANGED <<wire, reading>>
  BY DEF ReadKeyboard, raw
<1>6. wire' \in Seq(InputEvent) /\ reading' \in Devices \cup {"none"}
  BY <1>3, <1>5, ReturnedType DEF TypeOK
<1>. QED  BY <1>4, <1>6 DEF TypeOK, ReadKeyboard, places, replayVars, userVars

(* A button of XInput that is no wheel stands for one of the five.         *)
LEMMA MapButtonType ==
    ASSUME NEW n \in (1 .. 9) \ (4 .. 7)
    PROVE  MapButton(n) \in Buttons /\ XNumber[MapButton(n)] = n
<1>1. \E b \in Buttons : XNumber[b] = n
  <2>1. /\ XNumber[272] = 1 /\ XNumber[273] = 3 /\ XNumber[274] = 2
        /\ XNumber[275] = 8 /\ XNumber[276] = 9
    BY DEF XNumber, Buttons
  <2>2. {272, 273, 274, 275, 276} \subseteq Buttons
    BY DEF Buttons
  <2>3. n \in {1, 2, 3, 8, 9}
    OBVIOUS
  <2>. QED  BY <2>1, <2>2, <2>3
<1>. QED  BY <1>1 DEF MapButton

LEMMA ReadServerType ==
    ASSUME TypeOK, ReadServer
    PROVE  TypeOK'
<1>. DEFINE ev == Head(server)
            notch == [n \in 4 .. 7 |-> CASE n = 4 -> Scroll(0, -1) [] n = 5 -> Scroll(0, 1)
                                         [] n = 6 -> Scroll(-1, 0) [] n = 7 -> Scroll(1, 0)]
<1>1. server \in Seq(ServerEvent) /\ server # <<>>
  BY DEF TypeOK, ReadServer
<1>2. ev \in ServerEvent /\ Tail(server) \in Seq(ServerEvent)
  BY <1>1, HeadTailProperties
<1>3. \A n \in 4 .. 7 : notch[n] \in InputEvent
  <2>1. /\ Scroll(0, -1) \in InputEvent /\ Scroll(0, 1) \in InputEvent
        /\ Scroll(-1, 0) \in InputEvent /\ Scroll(1, 0) \in InputEvent
    BY MakersType
  <2>. QED  BY <2>1
<1>. HIDE DEF ev, notch
<1>4. \/ ev.type = "RawMotion" /\ Returned(Move(ev.dx, ev.dy))
      \/ ev.type = "RawKey" /\ Returned(Press("key", ev.detail - 8, ev.down))
      \/ /\ ev.type = "RawButton" /\ ev.detail \in 4 .. 7
         /\ Returned(notch[ev.detail]) \/ UNCHANGED <<wire, reading>>
      \/ /\ ev.type = "RawButton" /\ ev.detail \in (1 .. 9) \ (4 .. 7)
         /\ Returned(Press("button", MapButton(ev.detail), ev.down))
  BY <1>2 DEF ReadServer, ServerEvent, ev, notch
<1>5. wire' \in Seq(InputEvent) /\ reading' \in Devices \cup {"none"}
  <2>1. ev.type = "RawMotion" => Move(ev.dx, ev.dy) \in InputEvent
    BY <1>2, MakersType DEF ServerEvent
  <2>2. ev.type = "RawKey" => Press("key", ev.detail - 8, ev.down) \in InputEvent
    <3>1. ev.type = "RawKey" => ev.detail - 8 \in Nat /\ ev.down \in BOOLEAN
      BY <1>2 DEF ServerEvent
    <3>. QED  BY <3>1, MakersType
  <2>3. ev.type = "RawButton" /\ ev.detail \in (1 .. 9) \ (4 .. 7)
            => Press("button", MapButton(ev.detail), ev.down) \in InputEvent
    <3>1. ev.type = "RawButton" => ev.down \in BOOLEAN
      BY <1>2 DEF ServerEvent
    <3>2. \A b \in Buttons : b \in Nat
      BY DEF Buttons
    <3>. QED  BY <3>1, <3>2, MapButtonType, MakersType
  <2>. QED  BY <1>3, <1>4, <2>1, <2>2, <2>3, ReturnedType DEF TypeOK
<1>6. server' \in Seq(ServerEvent)
  BY <1>2 DEF ReadServer, ev
<1>. QED  BY <1>5, <1>6 DEF TypeOK, ReadServer, places, replayVars, userVars

LEMMA TruncType ==
    ASSUME NEW v \in Int
    PROVE  Trunc(v) \in Int
BY PathAssumption DEF Trunc

LEMMA CountUpdate ==
    ASSUME NEW c \in Count, NEW v \in Int, NEW w \in Int
    PROVE  /\ [c EXCEPT !.x = @ + v, !.y = @ + w] \in Count
           /\ [c EXCEPT !.wheel = @ + v, !.tilt = @ + w] \in Count
<1>1. c.x \in Int /\ c.y \in Int /\ c.wheel \in Int /\ c.tilt \in Int
  BY DEF Count
<1>. DEFINE d == [c EXCEPT !.x = @ + v]
            e == [c EXCEPT !.wheel = @ + v]
<1>2. d \in Count /\ e \in Count
  BY <1>1 DEF Count
<1>3. [d EXCEPT !.y = c.y + w] \in Count /\ [e EXCEPT !.tilt = c.tilt + w] \in Count
  <2>. HIDE DEF d, e
  <2>. QED  BY <1>1, <1>2 DEF Count
<1>4. /\ [c EXCEPT !.x = @ + v, !.y = @ + w] = [d EXCEPT !.y = c.y + w]
      /\ [c EXCEPT !.wheel = @ + v, !.tilt = @ + w] = [e EXCEPT !.tilt = c.tilt + w]
  OBVIOUS
<1>. QED  BY <1>3, <1>4

LEMMA ReceiveType ==
    ASSUME TypeOK, Receive
    PROVE  TypeOK'
<1>. DEFINE ev == Head(wire)
            p == IF ev.kind = "move" THEN MoveCursor(screen, cursor, Moved(ev)) ELSE cursor
<1>1. wire \in Seq(InputEvent) /\ wire # <<>>
  BY DEF TypeOK, Receive
<1>2. ev \in InputEvent /\ wire' \in Seq(InputEvent)
  BY <1>1, HeadTailProperties DEF Receive
<1>3. ev.kind \in {"move", "scroll"} => ev.dx \in Int /\ ev.dy \in Int
  BY <1>2 DEF InputEvent
<1>4. ev.kind \notin {"move", "scroll"} => ev.code \in Nat
  BY <1>2 DEF InputEvent
<1>5. IsScreen(screen)
  BY PathAssumption DEF TypeOK
<1>. HIDE DEF ev
<1>6. p \in Positions(screen)
  <2>1. CASE ev.kind = "move"
    <3>1. Moved(ev).dx \in Int /\ Moved(ev).dy \in Int
      BY <1>3, <2>1, TruncType DEF Moved
    <3>. QED  BY <1>5, <2>1, <3>1, MoveStaysOnScreen DEF TypeOK
  <2>2. CASE ev.kind # "move"
    BY <2>2 DEF TypeOK
  <2>. QED  BY <2>1, <2>2
<1>. HIDE DEF p
<1>7. HitEdge(p) \/ (cursor' = p /\ Replay(ev))
  BY DEF Receive, ev, p
<1>8. CASE HitEdge(p)
  <2>1. cursor' \in Positions(screen) /\ over' \in BOOLEAN /\ UNCHANGED <<replayed, held>>
    BY <1>5, <1>8, CentreOnScreen DEF HitEdge
  <2>. QED  BY <1>2, <2>1 DEF Receive, TypeOK, places, userVars
<1>9. CASE cursor' = p /\ Replay(ev)
  <2>1. replayed' \in Count
    <3>1. CASE ev.kind = "move"
      <4>1. Trunc(ev.dx) \in Int /\ Trunc(ev.dy) \in Int
        BY <1>3, <3>1, TruncType
      <4>2. replayed' = [replayed EXCEPT !.x = @ + Trunc(ev.dx), !.y = @ + Trunc(ev.dy)]
        BY <1>9, <3>1 DEF Replay
      <4>. QED  BY <4>1, <4>2, CountUpdate DEF TypeOK
    <3>2. CASE ev.kind = "scroll"
      <4>1. ev.dx \in Int /\ Wheel(ev.dy) \in Int
        BY <1>3, <3>2 DEF Wheel
      <4>2. replayed' = [replayed EXCEPT !.wheel = @ + Wheel(ev.dy), !.tilt = @ + ev.dx]
        BY <1>9, <3>2 DEF Replay
      <4>. QED  BY <4>1, <4>2, CountUpdate DEF TypeOK
    <3>3. CASE ev.kind \notin {"move", "scroll"}
      BY <1>9, <3>3 DEF Replay, TypeOK
    <3>. QED  BY <3>1, <3>2, <3>3
  <2>2. held' \subseteq Nat
    <3>. DEFINE codes == CASE ev.kind = "button" -> {ev.code}
                           [] ev.kind = "key" -> KeyReplayed(ev.code)
                           [] OTHER -> {}
    <3>1. codes \subseteq Nat
      BY <1>4, <1>2 DEF KeyReplayed, InputEvent
    <3>2. held' = IF codes # {} /\ ev.down THEN held \cup codes ELSE held \ codes
      BY <1>9 DEF Replay
    <3>. HIDE DEF codes
    <3>. QED  BY <3>1, <3>2 DEF TypeOK
  <2>3. UNCHANGED over /\ cursor' \in Positions(screen)
    BY <1>6, <1>9 DEF Replay
  <2>. QED  BY <1>2, <2>1, <2>2, <2>3 DEF Receive, TypeOK, places, userVars
<1>. QED  BY <1>7, <1>8, <1>9

LEMMA InitType == Init => TypeOK
<1>. SUFFICES ASSUME Init PROVE TypeOK
  OBVIOUS
<1>1. <<>> \in Seq(RawEvent) /\ <<>> \in Seq(ServerEvent) /\ <<>> \in Seq(InputEvent)
  OBVIOUS
<1>2. cursor \in Positions(screen)
  BY PathAssumption, CentreOnScreen DEF Init, Start
<1>3. Nothing \in Count
  BY DEF Nothing, Count
<1>4. inputs \in 0 .. Inputs
  BY PathAssumption DEF Init
<1>5. /\ buffer \in [Devices -> Seq(RawEvent)]
      /\ phys \in [Devices -> SUBSET (Codes \cup Buttons)]
  BY <1>1 DEF Init, Start
<1>6. pending \in [x : Int, y : Int]
  BY DEF Init, Start
<1>7. /\ path \in Paths /\ screen \in Screens /\ edge \in Edges /\ reading = "none"
      /\ server = <<>> /\ wire = <<>> /\ over \in BOOLEAN
      /\ replayed = Nothing /\ made = Nothing /\ held = {} /\ typed = {}
  BY DEF Init, Start
<1>. QED  BY <1>1, <1>2, <1>3, <1>4, <1>5, <1>6, <1>7 DEF TypeOK

LEMMA StepType == TypeOK /\ [Next]_vars => TypeOK'
<1>. SUFFICES ASSUME TypeOK, [Next]_vars PROVE TypeOK'
  OBVIOUS
<1>1. CASE UNCHANGED vars
  BY <1>1 DEF TypeOK, vars, places, replayVars, userVars
<1>. QED  BY <1>1, UseMouseType, UseKeyboardType, ReadEvdevType, ReadKeyboardType,
             ReadServerType, ReceiveType DEF Next

(* Whatever the devices report, what is put on the wire is an event of the *)
(* protocol, every button of XInput has a name there, and the cursor stays *)
(* on the screen.                                                          *)
THEOREM TypeCorrect == Spec => []TypeOK
BY InitType, StepType, PTL DEF Spec

-----------------------------------------------------------------------------
(* Which events a queue can hold.                                          *)

(* A keyboard reports keys that were typed, and the server and the wire    *)
(* carry only keys that were typed and the buttons of a mouse.             *)
KeyboardRaw(keys) == {e \in RawEvent : e.type # "REL" /\ (e.type = "KEY" => e.code \in keys)}

KeyedX(keys) == {e \in ServerEvent : e.type = "RawKey" => e.detail - 8 \in keys}

Named(keys) == {e \in InputEvent : /\ e.kind = "key" => e.code \in keys
                                   /\ e.kind = "button" => e.code \in Buttons}

(* Every queue holds what its source can report.                           *)
Known == /\ \A d \in Mice : buffer[d] \in Seq(MouseRaw) /\ phys[d] \subseteq Buttons
         /\ buffer[Keyboard] \in Seq(KeyboardRaw(typed)) /\ phys[Keyboard] \subseteq typed
         /\ server \in Seq(KeyedX(typed)) /\ wire \in Seq(Named(typed))

(* A capture by evdev leaves the queue of the server empty, one by X11 the *)
(* buffers of the mice and the pending motion; a keyboard goes either way. *)
Apart == /\ path.capture = "evdev" => server = <<>>
         /\ path.capture = "x11" => /\ pending = [x |-> 0, y |-> 0]
                                    /\ \A d \in Mice : buffer[d] = <<>>
         /\ path.capture = "x11" /\ path.kbd => server \in Seq(MouseX)
         /\ ViaServer => buffer[Keyboard] = <<>>

(* The more was typed, the more the queues may hold.                       *)
LEMMA MoreKeys ==
    ASSUME NEW K, NEW L, K \subseteq L
    PROVE  /\ Seq(KeyboardRaw(K)) \subseteq Seq(KeyboardRaw(L))
           /\ Seq(KeyedX(K)) \subseteq Seq(KeyedX(L))
           /\ Seq(Named(K)) \subseteq Seq(Named(L))
<1>1. /\ KeyboardRaw(K) \subseteq KeyboardRaw(L) /\ KeyedX(K) \subseteq KeyedX(L)
      /\ Named(K) \subseteq Named(L)
  BY DEF KeyboardRaw, KeyedX, Named
<1>. QED  BY <1>1

(* What a mouse reports may be in the queue whatever was typed.            *)
LEMMA MouseXKeyed ==
    ASSUME NEW K
    PROVE  Seq(MouseX) \subseteq Seq(KeyedX(K))
BY DEF MouseX, KeyedX

(* At the start all queues are empty.                                      *)
LEMMA InitKnown == Init => Known /\ Apart
<1>. SUFFICES ASSUME Init PROVE Known /\ Apart
  OBVIOUS
<1>1. /\ \A d \in Devices : buffer[d] = <<>> /\ phys[d] = {}
      /\ server = <<>> /\ wire = <<>> /\ pending = [x |-> 0, y |-> 0]
  BY DEF Init, Start
<1>2. \A S : <<>> \in Seq(S)
  OBVIOUS
<1>. QED  BY <1>1, <1>2 DEF Known, Apart, Devices, ViaServer

LEMMA UseMouseKnown ==
    ASSUME TypeOK, Known, Apart, NEW d \in Mice, NEW g \in Gestures, UseMouse(d, g)
    PROVE  Known' /\ Apart'
<1>. DEFINE down == g.button \notin phys[d]
            h == [g EXCEPT !.dx = @ \div Unit, !.dy = @ \div Unit]
<1>1. g \in Gesture /\ d \in Devices /\ Keyboard \in Devices /\ d # Keyboard
      /\ Mice \subseteq Devices
  BY PathAssumption DEF Devices
<1>2. g.dx \div Unit \in Int /\ g.dy \div Unit \in Int
  BY <1>1, PixelsType DEF Gesture
<1>3. h \in Gesture /\ down \in BOOLEAN
  BY <1>1, <1>2 DEF Gesture
<1>. HIDE DEF down, h
<1>4. Packet(h, down) \in Seq(MouseRaw) /\ XEvents(g, down) \in Seq(MouseX)
  BY <1>1, <1>3, PacketType, XEventsType
<1>5. UNCHANGED <<path, pending, wire, typed>>
  BY DEF UseMouse, places, replayVars
<1>6. /\ phys'[Keyboard] = phys[Keyboard]
      /\ \A e \in Mice : phys'[e] \subseteq Buttons
  <2>1. phys' = phys \/ (g.button \in Buttons /\ phys' = Toggled(d, g.button))
    BY <1>1 DEF UseMouse, Gesture
  <2>2. phys \in [Devices -> SUBSET (Codes \cup Buttons)]
    BY DEF TypeOK
  <2>. QED  BY <1>1, <2>1, <2>2 DEF Toggled, Known
<1>7. CASE /\ path.capture = "evdev"
           /\ buffer' = [buffer EXCEPT ![d] = @ \o Packet(h, down)]
           /\ UNCHANGED server
  <2>1. buffer[d] \o Packet(h, down) \in Seq(MouseRaw)
    BY <1>4, ConcatType DEF Known
  <2>2. /\ buffer'[Keyboard] = buffer[Keyboard]
        /\ \A e \in Mice : buffer'[e] \in Seq(MouseRaw)
    BY <1>1, <1>7, <2>1 DEF Known, TypeOK
  <2>. QED  BY <1>5, <1>6, <1>7, <2>2 DEF Known, Apart, ViaServer
<1>8. CASE /\ path.capture = "x11" /\ server' = server \o XEvents(g, down)
           /\ UNCHANGED buffer
  <2>1. server' \in Seq(KeyedX(typed))
    BY <1>4, <1>8, MouseXKeyed, ConcatType DEF Known
  <2>2. path.kbd => server' \in Seq(MouseX)
    BY <1>4, <1>8, ConcatType DEF Apart
  <2>. QED  BY <1>5, <1>6, <1>8, <2>1, <2>2 DEF Known, Apart, ViaServer
<1>. QED  BY <1>7, <1>8 DEF UseMouse, down, h

LEMMA UseKeyboardKnown ==
    ASSUME TypeOK, Known, Apart, NEW k \in Codes, NEW v \in 0 .. 2, UseKeyboard(k, v)
    PROVE  Known' /\ Apart'
<1>. DEFINE q == <<Raw("KEY", k, v), Raw("SYN", 0, 0)>>
            ev == [type |-> "RawKey", detail |-> k + 8, down |-> v = 1]
<1>1. k \in Nat /\ Keyboard \in Devices /\ Mice \subseteq Devices /\ Keyboard \notin Mice
  BY PathAssumption DEF Devices
<1>2. UNCHANGED <<path, pending, wire>> /\ typed' = typed \cup {k} /\ typed \subseteq typed'
  BY DEF UseKeyboard, places, replayVars
<1>3. wire' \in Seq(Named(typed'))
  BY <1>2, MoreKeys DEF Known
<1>4. /\ phys'[Keyboard] \subseteq typed'
      /\ \A e \in Mice : phys'[e] = phys[e]
  <2>1. phys' = phys \/ phys' = Toggled(Keyboard, k)
    BY DEF UseKeyboard
  <2>. QED  BY <1>1, <1>2, <2>1 DEF Toggled, Known, TypeOK
<1>5. CASE ~ViaServer /\ buffer' = [buffer EXCEPT ![Keyboard] = @ \o q] /\ UNCHANGED server
  <2>1. Raw("KEY", k, v) \in KeyboardRaw(typed') /\ Raw("SYN", 0, 0) \in KeyboardRaw(typed')
    BY <1>1, <1>2 DEF Raw, KeyboardRaw, RawEvent
  <2>2. q \in Seq(KeyboardRaw(typed')) /\ buffer[Keyboard] \in Seq(KeyboardRaw(typed'))
    BY <1>2, <2>1, MoreKeys DEF Known
  <2>. HIDE DEF q
  <2>3. buffer[Keyboard] \o q \in Seq(KeyboardRaw(typed'))
    BY <2>2, ConcatType
  <2>4. /\ buffer'[Keyboard] \in Seq(KeyboardRaw(typed'))
        /\ \A e \in Mice : buffer'[e] = buffer[e]
    BY <1>1, <1>5, <2>3 DEF TypeOK
  <2>5. server' \in Seq(KeyedX(typed'))
    BY <1>2, <1>5, MoreKeys DEF Known
  <2>. QED  BY <1>2, <1>3, <1>4, <1>5, <2>4, <2>5 DEF Known, Apart, ViaServer
<1>6. CASE ViaServer /\ server' = Append(server, ev) /\ UNCHANGED buffer
  <2>1. ev \in KeyedX(typed')
    BY <1>1, <1>2 DEF KeyedX, ServerEvent
  <2>2. server \in Seq(KeyedX(typed')) /\ buffer[Keyboard] \in Seq(KeyboardRaw(typed'))
    BY <1>2, MoreKeys DEF Known
  <2>. HIDE DEF ev
  <2>3. server' \in Seq(KeyedX(typed'))
    BY <1>6, <2>1, <2>2, AppendProperties
  <2>. QED  BY <1>2, <1>3, <1>4, <1>6, <2>2, <2>3 DEF Known, Apart, ViaServer
<1>. QED  BY <1>5, <1>6 DEF UseKeyboard

(* An event that is returned is put on the wire.                           *)
LEMMA ReturnedKnown ==
    ASSUME Known, NEW ev \in Named(typed), Returned(ev)
    PROVE  wire' \in Seq(Named(typed))
BY AppendProperties DEF Returned, Known

LEMMA ReadEvdevKnown ==
    ASSUME TypeOK, Known, Apart, NEW d \in Devices, ReadEvdev(d)
    PROVE  Known' /\ Apart'
<1>. DEFINE raw == Head(buffer[d])
<1>1. /\ UNCHANGED <<path, server, phys, typed>> /\ path.capture = "evdev"
      /\ buffer[d] # <<>> /\ buffer' = [buffer EXCEPT ![d] = Tail(@)]
  BY DEF ReadEvdev, places, replayVars, userVars
<1>2. /\ \A e \in Mice : buffer'[e] \in Seq(MouseRaw)
      /\ buffer'[Keyboard] \in Seq(KeyboardRaw(typed))
  BY <1>1, HeadTailProperties DEF Known, TypeOK, Devices
<1>3. raw \in MouseRaw \cup KeyboardRaw(typed)
  BY <1>1, HeadTailProperties DEF Known, Devices
<1>4. raw \in RawEvent /\ (raw.type = "KEY" /\ raw.code \notin Buttons => raw.code \in typed)
  BY <1>3 DEF MouseRaw, KeyboardRaw
<1>5. pending.x \in Int /\ pending.y \in Int
  BY DEF TypeOK
<1>. HIDE DEF raw
<1>6. wire' \in Seq(Named(typed))
  <2>0. raw.code \in Nat /\ raw.value \in Int /\ -raw.value \in Int
    BY <1>4 DEF RawEvent
  <2>1. /\ Move(pending.x, pending.y) \in Named(typed)
        /\ Scroll(0, -raw.value) \in Named(typed) /\ Scroll(raw.value, 0) \in Named(typed)
    <3>1. /\ Move(pending.x, pending.y) \in InputEvent
          /\ Scroll(0, -raw.value) \in InputEvent /\ Scroll(raw.value, 0) \in InputEvent
      BY <1>5, <2>0, MakersType
    <3>. QED  BY <3>1 DEF Named, Move, Scroll
  <2>2. UNCHANGED wire => wire' \in Seq(Named(typed))
    BY DEF Known
  <2>3. CASE raw.type = "SYN" /\ EndOfReport(d)
    BY <2>1, <2>2, <2>3, ReturnedKnown DEF EndOfReport, ReadOn
  <2>4. CASE raw.type = "REL" /\ Relative(d, raw)
    BY <2>1, <2>2, <2>4, ReturnedKnown DEF Relative, ReadOn
  <2>5. CASE raw.type = "KEY" /\ TranslateKey(d, raw)
    <3>1. CASE raw.code \in Buttons
      <4>1. Press("button", raw.code, raw.value # 0) \in Named(typed)
        BY <2>0, <3>1, MakersType DEF Named, Press
      <4>2. Returned(Press("button", raw.code, raw.value # 0))
        BY <2>5, <3>1 DEF TranslateKey
      <4>. QED  BY <4>1, <4>2, ReturnedKnown
    <3>2. CASE raw.code \notin Buttons
      <4>1. Press("key", raw.code, raw.value # 0) \in Named(typed)
        BY <1>4, <2>0, <2>5, <3>2, MakersType DEF Named, Press
      <4>2. Returned(Press("key", raw.code, raw.value # 0)) \/ UNCHANGED wire
        BY <2>5, <3>2 DEF TranslateKey, ReadOn
      <4>. QED  BY <2>2, <4>1, <4>2, ReturnedKnown
    <3>. QED  BY <3>1, <3>2
  <2>. QED  BY <2>3, <2>4, <2>5 DEF ReadEvdev, raw
<1>. QED  BY <1>1, <1>2, <1>6 DEF Known, Apart, ViaServer

LEMMA ReadKeyboardKnown ==
    ASSUME TypeOK, Known, Apart, ReadKeyboard
    PROVE  Known' /\ Apart'
<1>. DEFINE raw == Head(buffer[Keyboard])
<1>1. /\ UNCHANGED <<path, pending, server, phys, typed>> /\ path.capture = "x11" /\ path.kbd
      /\ buffer[Keyboard] # <<>> /\ buffer' = [buffer EXCEPT ![Keyboard] = Tail(@)]
  BY DEF ReadKeyboard, places, replayVars, userVars
<1>2. Keyboard \in Devices /\ Keyboard \notin Mice /\ Mice \subseteq Devices
  BY PathAssumption DEF Devices
<1>3. /\ \A e \in Mice : buffer'[e] = buffer[e]
      /\ buffer'[Keyboard] \in Seq(KeyboardRaw(typed))
  BY <1>1, <1>2, HeadTailProperties DEF Known, TypeOK
<1>4. raw \in KeyboardRaw(typed)
  BY <1>1, HeadTailProperties DEF Known
<1>. HIDE DEF raw
<1>5. raw.code \in Nat /\ (raw.type = "KEY" => raw.code \in typed)
  BY <1>4 DEF KeyboardRaw, RawEvent
<1>6. wire' \in Seq(Named(typed))
  <2>1. \/ raw.type = "KEY" /\ Returned(Press("key", raw.code, raw.value # 0))
        \/ UNCHANGED wire
    BY DEF ReadKeyboard, raw
  <2>2. raw.type = "KEY" => Press("key", raw.code, raw.value # 0) \in Named(typed)
    BY <1>5, MakersType DEF Named, Press
  <2>3. UNCHANGED wire => wire' \in Seq(Named(typed))
    BY DEF Known
  <2>. QED  BY <2>1, <2>2, <2>3, ReturnedKnown
<1>. QED  BY <1>1, <1>3, <1>6 DEF Known, Apart, ViaServer

(* What ReadServer makes of the head of the queue.                         *)
LEMMA ServerArms ==
    ASSUME TypeOK, ReadServer, NEW ev, ev = Head(server)
    PROVE  /\ ev \in ServerEvent
           /\ \/ ev.type = "RawMotion" /\ Returned(Move(ev.dx, ev.dy))
              \/ ev.type = "RawKey" /\ Returned(Press("key", ev.detail - 8, ev.down))
              \/ /\ ev.type = "RawButton" /\ ev.down /\ ev.detail \in 4 .. 7
                 /\ \/ ev.detail = 4 /\ Returned(Scroll(0, -1))
                    \/ ev.detail = 5 /\ Returned(Scroll(0, 1))
                    \/ ev.detail = 6 /\ Returned(Scroll(-1, 0))
                    \/ ev.detail = 7 /\ Returned(Scroll(1, 0))
              \/ /\ ev.type = "RawButton" /\ ~ev.down /\ ev.detail \in 4 .. 7
                 /\ UNCHANGED <<wire, reading>>
              \/ /\ ev.type = "RawButton" /\ ev.detail \in (1 .. 9) \ (4 .. 7)
                 /\ Returned(Press("button", MapButton(ev.detail), ev.down))
<1>. DEFINE notch == [n \in 4 .. 7 |-> CASE n = 4 -> Scroll(0, -1) [] n = 5 -> Scroll(0, 1)
                                         [] n = 6 -> Scroll(-1, 0) [] n = 7 -> Scroll(1, 0)]
<1>1. ev \in ServerEvent
  BY HeadTailProperties DEF TypeOK, ReadServer
<1>2. /\ notch[4] = Scroll(0, -1) /\ notch[5] = Scroll(0, 1)
      /\ notch[6] = Scroll(-1, 0) /\ notch[7] = Scroll(1, 0)
  OBVIOUS
<1>. HIDE DEF notch
<1>3. CASE ev.type = "RawMotion"
  BY <1>1, <1>3 DEF ReadServer
<1>4. CASE ev.type = "RawKey"
  BY <1>1, <1>4 DEF ReadServer
<1>5. CASE ev.type = "RawButton"
  <2>1. ev.detail \in 1 .. 9
    BY <1>1, <1>5 DEF ServerEvent
  <2>2. CASE ev.detail \in 4 .. 7
    <3>1. IF ev.down THEN Returned(notch[ev.detail]) ELSE UNCHANGED <<wire, reading>>
      BY <1>5, <2>2 DEF ReadServer, notch
    <3>2. ev.detail = 4 \/ ev.detail = 5 \/ ev.detail = 6 \/ ev.detail = 7
      BY <2>2
    <3>3. CASE ev.down
      BY <1>1, <1>2, <1>5, <2>2, <3>1, <3>2, <3>3
    <3>4. CASE ~ev.down
      BY <1>1, <1>5, <2>2, <3>1, <3>4
    <3>. QED  BY <3>3, <3>4
  <2>3. CASE ev.detail \notin 4 .. 7
    BY <1>1, <1>5, <2>1, <2>3 DEF ReadServer
  <2>. QED  BY <2>2, <2>3
<1>. QED  BY <1>1, <1>3, <1>4, <1>5 DEF ServerEvent

LEMMA ReadServerKnown ==
    ASSUME TypeOK, Known, Apart, ReadServer
    PROVE  Known' /\ Apart'
<1>. DEFINE ev == Head(server)
<1>1. /\ UNCHANGED <<path, pending, buffer, phys, typed>> /\ path.capture = "x11"
      /\ server # <<>> /\ server' = Tail(server)
  BY DEF ReadServer, places, replayVars, userVars
<1>2. /\ server' \in Seq(KeyedX(typed)) /\ ev \in KeyedX(typed)
      /\ (path.kbd => server' \in Seq(MouseX))
  BY <1>1, HeadTailProperties DEF Known, Apart
<1>3. wire' \in Seq(Named(typed))
  <2>1. ev.type = "RawMotion" => Move(ev.dx, ev.dy) \in Named(typed)
    BY <1>2, MakersType DEF KeyedX, ServerEvent, Named, Move
  <2>2. ev.type = "RawKey" => Press("key", ev.detail - 8, ev.down) \in Named(typed)
    <3>1. ev.type = "RawKey" => /\ ev.detail - 8 \in Nat /\ ev.down \in BOOLEAN
                                /\ ev.detail - 8 \in typed
      BY <1>2 DEF KeyedX, ServerEvent
    <3>. QED  BY <3>1, MakersType DEF Named, Press
  <2>3. ev.type = "RawButton" /\ ev.detail \in (1 .. 9) \ (4 .. 7)
            => Press("button", MapButton(ev.detail), ev.down) \in Named(typed)
    <3>1. ev.type = "RawButton" => ev.down \in BOOLEAN
      BY <1>2 DEF KeyedX, ServerEvent
    <3>2. \A b \in Buttons : b \in Nat
      BY DEF Buttons
    <3>. QED  BY <3>1, <3>2, MapButtonType, MakersType DEF Named, Press
  <2>4. /\ Scroll(0, -1) \in Named(typed) /\ Scroll(0, 1) \in Named(typed)
        /\ Scroll(-1, 0) \in Named(typed) /\ Scroll(1, 0) \in Named(typed)
    BY MakersType DEF Named, Scroll
  <2>5. UNCHANGED wire => wire' \in Seq(Named(typed))
    BY DEF Known
  <2>. HIDE DEF ev
  <2>. QED  BY <2>1, <2>2, <2>3, <2>4, <2>5, ServerArms, ReturnedKnown DEF ev
<1>. QED  BY <1>1, <1>2, <1>3 DEF Known, Apart, ViaServer

LEMMA ReceiveKnown ==
    ASSUME TypeOK, Known, Apart, Receive
    PROVE  Known' /\ Apart'
<1>1. /\ UNCHANGED <<path, pending, buffer, server, phys, typed>>
      /\ wire # <<>> /\ wire' = Tail(wire)
  BY DEF Receive, places, userVars
<1>2. wire' \in Seq(Named(typed))
  BY <1>1, HeadTailProperties DEF Known
<1>. QED  BY <1>1, <1>2 DEF Known, Apart, ViaServer

(* Every step keeps to it.                                                 *)
LEMMA StepKnown == TypeOK /\ Known /\ Apart /\ [Next]_vars => Known' /\ Apart'
<1>. SUFFICES ASSUME TypeOK, Known, Apart, [Next]_vars PROVE Known' /\ Apart'
  OBVIOUS
<1>1. CASE UNCHANGED vars
  BY <1>1 DEF Known, Apart, ViaServer, vars, places, userVars
<1>. QED  BY <1>1, UseMouseKnown, UseKeyboardKnown, ReadEvdevKnown, ReadKeyboardKnown,
             ReadServerKnown, ReceiveKnown DEF Next

-----------------------------------------------------------------------------
(* Motion and notches: the books.                                          *)

(* Four amounts are counted, two of motion and two of notches.  An event   *)
(* in a buffer, in the queue of the server or on the wire carries so much  *)
(* of each.                                                                *)
Axes == {"x", "y", "wheel", "tilt"}

Code == [x |-> REL_X, y |-> REL_Y, wheel |-> REL_WHEEL, tilt |-> REL_HWHEEL]

RawAmount(a, e) == IF e.type = "REL" /\ e.code = Code[a] THEN e.value ELSE 0

Notch(a) == IF a = "wheel" THEN [up |-> 4, down |-> 5] ELSE [up |-> 7, down |-> 6]

ServerAmount(a, e) ==
    IF e.type = "RawButton" /\ e.down /\ a \in {"wheel", "tilt"}
       THEN IF e.detail = Notch(a).up THEN 1 ELSE IF e.detail = Notch(a).down THEN -1 ELSE 0
       ELSE 0

WireAmount(a, e) ==
    CASE e.kind = "move" /\ a = "x" -> Trunc(e.dx)
      [] e.kind = "move" /\ a = "y" -> Trunc(e.dy)
      [] e.kind = "scroll" /\ a = "wheel" -> -e.dy
      [] e.kind = "scroll" /\ a = "tilt" -> e.dx
      [] OTHER -> 0

RawAdds(a)    == [e \in RawEvent |-> [n \in Int |-> n + RawAmount(a, e)]]
ServerAdds(a) == [e \in ServerEvent |-> [n \in Int |-> n + ServerAmount(a, e)]]
WireAdds(a)   == [e \in InputEvent |-> [n \in Int |-> n + WireAmount(a, e)]]

(* Amounts are integers.                                                   *)
LEMMA AmountType ==
    ASSUME NEW a \in Axes
    PROVE  /\ \A e \in RawEvent : RawAmount(a, e) \in Int
           /\ \A e \in ServerEvent : ServerAmount(a, e) \in Int
           /\ \A e \in InputEvent : WireAmount(a, e) \in Int
<1>1. ASSUME NEW e \in RawEvent PROVE RawAmount(a, e) \in Int
  BY DEF RawEvent, RawAmount
<1>2. ASSUME NEW e \in ServerEvent PROVE ServerAmount(a, e) \in Int
  BY DEF ServerAmount
<1>3. ASSUME NEW e \in InputEvent PROVE WireAmount(a, e) \in Int
  <2>1. CASE e.kind = "move"
    <3>1. e.dx \in Int /\ e.dy \in Int
      BY <2>1 DEF InputEvent
    <3>2. Trunc(e.dx) \in Int /\ Trunc(e.dy) \in Int
      BY <3>1, TruncType
    <3>. QED  BY <2>1, <3>2 DEF WireAmount, Axes
  <2>2. CASE e.kind = "scroll"
    <3>1. e.dx \in Int /\ e.dy \in Int
      BY <2>2 DEF InputEvent
    <3>. QED  BY <2>2, <3>1 DEF WireAmount, Axes
  <2>3. CASE e.kind \notin {"move", "scroll"}
    BY <2>3 DEF WireAmount
  <2>. QED  BY <2>1, <2>2, <2>3
<1>. QED  BY <1>1, <1>2, <1>3

(* What an event adds.                                                     *)
LEMMA AddsType ==
    ASSUME NEW a \in Axes
    PROVE  /\ RawAdds(a) \in [RawEvent -> [Int -> Int]]
           /\ ServerAdds(a) \in [ServerEvent -> [Int -> Int]]
           /\ WireAdds(a) \in [InputEvent -> [Int -> Int]]
BY AmountType DEF RawAdds, ServerAdds, WireAdds

(* What an event adds, spelt out.                                          *)
LEMMA AddsAmount ==
    ASSUME NEW a \in Axes, NEW n \in Int
    PROVE  /\ \A e \in RawEvent : RawAdds(a)[e][n] = n + RawAmount(a, e)
           /\ \A e \in ServerEvent : ServerAdds(a)[e][n] = n + ServerAmount(a, e)
           /\ \A e \in InputEvent : WireAdds(a)[e][n] = n + WireAmount(a, e)
BY DEF RawAdds, ServerAdds, WireAdds

(* What a gesture asks of each axis, in what its device counts.            *)
Offered(g) == [x |-> g.dx, y |-> g.dy, wheel |-> g.wheel, tilt |-> g.tilt]

(* A part of a report that may be missing.                                 *)
LEMMA UnlessAmount ==
    ASSUME NEW a \in Axes, NEW v, NEW e, v # 0 => e \in RawEvent, NEW n \in Int, NEW m,
           m = (IF v = 0 THEN n ELSE n + RawAmount(a, e))
    PROVE  Leads(Int, RawAdds(a), Unless(0, v, e), n, m)
<1>1. CASE v = 0
  BY <1>1, LeadsEmpty DEF Unless
<1>2. CASE v # 0
  <2>1. RawAdds(a)[e][n] = m /\ m \in Int
    BY <1>2, AddsAmount, AmountType
  <2>2. Leads(Int, RawAdds(a), <<e>>, n, m)
    BY <2>1, LeadsOne
  <2>. QED  BY <1>2, <2>2 DEF Unless
<1>. QED  BY <1>1, <1>2

(* A report carries what was done, in the units of the device.             *)
LEMMA PacketAmount ==
    ASSUME NEW a \in Axes, NEW g \in Gesture, NEW down \in BOOLEAN, NEW n \in Int
    PROVE  Leads(Int, RawAdds(a), Packet(g, down), n, n + Offered(g)[a])
<1>1. g.dx \in Int /\ g.dy \in Int /\ g.wheel \in Int /\ g.tilt \in Int
  BY DEF Gesture
<1>2. g.button \in Nat
  BY DEF Gesture, Buttons
<1>. DEFINE key == Raw("KEY", g.button, IF down THEN 1 ELSE 0)
            rx == Raw("REL", REL_X, g.dx)
            ry == Raw("REL", REL_Y, g.dy)
            rw == Raw("REL", REL_WHEEL, g.wheel)
            rt == Raw("REL", REL_HWHEEL, g.tilt)
            syn == Raw("SYN", 0, 0)
<1>3. /\ rx \in RawEvent /\ ry \in RawEvent /\ rw \in RawEvent /\ rt \in RawEvent
      /\ syn \in RawEvent
  BY <1>1 DEF Raw, RawEvent, REL_X, REL_Y, REL_WHEEL, REL_HWHEEL
<1>4. key \in RawEvent
  BY <1>2 DEF Raw, RawEvent
<1>5. /\ RawAmount(a, rx) = IF a = "x" THEN g.dx ELSE 0
      /\ RawAmount(a, ry) = IF a = "y" THEN g.dy ELSE 0
      /\ RawAmount(a, rw) = IF a = "wheel" THEN g.wheel ELSE 0
      /\ RawAmount(a, rt) = IF a = "tilt" THEN g.tilt ELSE 0
      /\ RawAmount(a, key) = 0 /\ RawAmount(a, syn) = 0
  BY DEF RawAmount, Raw, Code, Axes, REL_X, REL_Y, REL_WHEEL, REL_HWHEEL
<1>. HIDE DEF key, rx, ry, rw, rt, syn
<1>. DEFINE p == Unless(0, g.dx, rx)
            q == Unless(0, g.dy, ry)
            r == Unless(0, g.button, key)
            s == Unless(0, g.wheel, rw)
            t == Unless(0, g.tilt, rt)
            u == <<syn>>
            n1 == IF a = "x" THEN n + g.dx ELSE n
            n2 == IF a = "y" THEN n + g.dy ELSE n1
            n3 == IF a = "wheel" THEN n + g.wheel ELSE n2
            n4 == IF a = "tilt" THEN n + g.tilt ELSE n3
<1>6. n1 \in Int /\ n2 \in Int /\ n3 \in Int /\ n4 \in Int
  BY <1>1
<1>7. Leads(Int, RawAdds(a), p, n, n1)
  BY <1>1, <1>3, <1>5, UnlessAmount
<1>8. Leads(Int, RawAdds(a), q, n1, n2)
  <2>1. n2 = IF g.dy = 0 THEN n1 ELSE n1 + RawAmount(a, ry)
    BY <1>1, <1>5
  <2>. QED  BY <1>3, <1>6, <2>1, UnlessAmount
<1>9. Leads(Int, RawAdds(a), r, n2, n2)
  <2>1. n2 = IF g.button = 0 THEN n2 ELSE n2 + RawAmount(a, key)
    BY <1>5, <1>6
  <2>. QED  BY <1>4, <1>6, <2>1, UnlessAmount
<1>10. Leads(Int, RawAdds(a), s, n2, n3)
  <2>1. n3 = IF g.wheel = 0 THEN n2 ELSE n2 + RawAmount(a, rw)
    BY <1>1, <1>5
  <2>. QED  BY <1>3, <1>6, <2>1, UnlessAmount
<1>11. Leads(Int, RawAdds(a), t, n3, n4)
  <2>1. n4 = IF g.tilt = 0 THEN n3 ELSE n3 + RawAmount(a, rt)
    BY <1>1, <1>5
  <2>. QED  BY <1>3, <1>6, <2>1, UnlessAmount
<1>12. Leads(Int, RawAdds(a), u, n4, n4)
  <2>1. RawAdds(a)[syn][n4] = n4
    BY <1>3, <1>5, <1>6, AddsAmount
  <2>. QED  BY <1>6, <2>1, LeadsOne
<1>13. n4 = n + Offered(g)[a]
  BY <1>1 DEF Offered, Axes
<1>14. /\ p \in Seq(RawEvent) /\ q \in Seq(RawEvent) /\ r \in Seq(RawEvent)
       /\ s \in Seq(RawEvent) /\ t \in Seq(RawEvent) /\ u \in Seq(RawEvent)
  BY <1>3, <1>4, UnlessType, OneOf
<1>15. Packet(g, down) = p \o q \o r \o s \o t \o u
  BY DEF Packet, key, rx, ry, rw, rt, syn
<1>. HIDE DEF p, q, r, s, t, u, n1, n2, n3, n4
<1>16. p \o q \in Seq(RawEvent) /\ Leads(Int, RawAdds(a), p \o q, n, n2)
  BY <1>7, <1>8, <1>14, ConcatType, LeadsConcat
<1>17. p \o q \o r \in Seq(RawEvent) /\ Leads(Int, RawAdds(a), p \o q \o r, n, n2)
  BY <1>9, <1>14, <1>16, ConcatType, LeadsConcat
<1>18. p \o q \o r \o s \in Seq(RawEvent) /\ Leads(Int, RawAdds(a), p \o q \o r \o s, n, n3)
  BY <1>10, <1>14, <1>17, ConcatType, LeadsConcat
<1>19. /\ p \o q \o r \o s \o t \in Seq(RawEvent)
       /\ Leads(Int, RawAdds(a), p \o q \o r \o s \o t, n, n4)
  BY <1>11, <1>14, <1>18, ConcatType, LeadsConcat
<1>20. Leads(Int, RawAdds(a), p \o q \o r \o s \o t \o u, n, n4)
  BY <1>12, <1>14, <1>19, LeadsConcat
<1>. QED  BY <1>13, <1>15, <1>20

(* Only a press counts.                                                    *)
LEMMA ReleaseAmount ==
    ASSUME NEW a, NEW e, ~e.down
    PROVE  ServerAmount(a, e) = 0
BY DEF ServerAmount

(* Two events a notch, of which the press counts.                          *)
LEMMA ClicksAmount ==
    ASSUME NEW a \in Axes, NEW n \in Int, NEW back \in 1 .. 9, NEW forth \in 1 .. 9,
           NEW sign \in {-1, 0, 1}, NEW k \in Int,
           ServerAmount(a, [type |-> "RawButton", detail |-> IF n < 0 THEN back ELSE forth,
                            down |-> TRUE]) = sign
    PROVE  Leads(Int, ServerAdds(a), Clicks(n, back, forth), k, k + sign * Size(n))
<1>. DEFINE q == Clicks(n, back, forth)
            m == Size(n)
            detail == IF n < 0 THEN back ELSE forth
            f == [i \in 0 .. 2 * m |-> k + sign * ((i + 1) \div 2)]
<1>1. m \in Nat
  BY DEF Size
<1>2. q \in Seq(ServerEvent) /\ Len(q) = 2 * m
  <2>1. Len(q) = 2 * m
    BY <1>1 DEF Clicks
  <2>. QED  BY <2>1, ClicksType, MouseEvents
<1>3. ASSUME NEW i \in 1 .. 2 * m
      PROVE  q[i] \in ServerEvent /\ ServerAmount(a, q[i]) = IF i % 2 = 1 THEN sign ELSE 0
  <2>1. q[i] = [type |-> "RawButton", detail |-> detail, down |-> i % 2 = 1]
    BY DEF Clicks
  <2>2. q[i] \in ServerEvent
    BY <1>2, ElementOfSeq
  <2>3. CASE i % 2 = 1
    <3>1. q[i] = [type |-> "RawButton", detail |-> detail, down |-> TRUE]
      BY <2>1, <2>3
    <3>. QED  BY <2>2, <2>3, <3>1
  <2>4. CASE i % 2 # 1
    <3>1. (i % 2 = 1) = FALSE
      BY <2>4
    <3>2. q[i].down = (i % 2 = 1)
      BY <2>1
    <3>3. ~q[i].down
      BY <3>1, <3>2
    <3>4. ServerAmount(a, q[i]) = 0
      BY <3>3, ReleaseAmount
    <3>. QED  BY <2>2, <2>4, <3>4
  <2>. QED  BY <2>3, <2>4
<1>. HIDE DEF q, m
<1>4. /\ f \in [0 .. 2 * m -> Int] /\ f[0] = k /\ f[2 * m] = k + sign * m
  <2>1. /\ \A i \in 0 .. 2 * m : sign * ((i + 1) \div 2) \in Int
        /\ (2 * m + 1) \div 2 = m /\ sign * ((0 + 1) \div 2) = 0
    BY <1>1
  <2>2. /\ 0 \in 0 .. 2 * m /\ 2 * m \in 0 .. 2 * m
    BY <1>1
  <2>. QED  BY <2>1, <2>2
<1>5. ASSUME NEW i \in 1 .. 2 * m PROVE f[i] = ServerAdds(a)[q[i]][f[i - 1]]
  <2>. DEFINE x == f[i - 1]
  <2>1. i - 1 \in 0 .. 2 * m /\ i \in 0 .. 2 * m
    BY <1>1
  <2>2. x \in Int
    BY <2>1, <1>4
  <2>3. f[i] = x + IF i % 2 = 1 THEN sign ELSE 0
    <3>1. i % 2 = 1 => (i + 1) \div 2 = i \div 2 + 1
      BY <1>1
    <3>2. i % 2 # 1 => (i + 1) \div 2 = i \div 2
      BY <1>1
    <3>3. i \div 2 \in Int
      BY <1>1
    <3>4. x = k + sign * (i \div 2)
      BY <2>1
    <3>5. f[i] = k + sign * ((i + 1) \div 2)
      BY <2>1
    <3>. HIDE DEF f, x
    <3>. QED  BY <3>1, <3>2, <3>3, <3>4, <3>5
  <2>. HIDE DEF f, x
  <2>4. ServerAdds(a)[q[i]][x] = x + ServerAmount(a, q[i])
    BY <1>3, <2>2, AddsAmount
  <2>5. f[i] = x + ServerAmount(a, q[i])
    BY <1>3, <2>3
  <2>. QED  BY <2>4, <2>5 DEF x
<1>. HIDE DEF f
<1>. QED  BY <1>2, <1>4, <1>5 DEF Leads, q, m

(* As many clicks as notches, in their direction.                          *)
LEMMA WheelClicks ==
    ASSUME NEW n \in Int, NEW k \in Int
    PROVE  /\ Leads(Int, ServerAdds("wheel"), Clicks(n, 5, 4), k, k + n)
           /\ Leads(Int, ServerAdds("wheel"), Clicks(n, 6, 7), k, k)
           /\ Leads(Int, ServerAdds("tilt"), Clicks(n, 6, 7), k, k + n)
           /\ Leads(Int, ServerAdds("tilt"), Clicks(n, 5, 4), k, k)
<1>. DEFINE press(i) == [type |-> "RawButton", detail |-> i, down |-> TRUE]
            sign == IF n < 0 THEN -1 ELSE 1
<1>1. /\ "wheel" \in Axes /\ "tilt" \in Axes
      /\ 4 \in 1 .. 9 /\ 5 \in 1 .. 9 /\ 6 \in 1 .. 9 /\ 7 \in 1 .. 9
      /\ 0 \in {-1, 0, 1} /\ sign \in {-1, 0, 1}
  BY DEF Axes
<1>2. /\ ServerAmount("wheel", press(IF n < 0 THEN 5 ELSE 4)) = sign
      /\ ServerAmount("wheel", press(IF n < 0 THEN 6 ELSE 7)) = 0
      /\ ServerAmount("tilt", press(IF n < 0 THEN 6 ELSE 7)) = sign
      /\ ServerAmount("tilt", press(IF n < 0 THEN 5 ELSE 4)) = 0
  BY DEF ServerAmount, Notch
<1>3. sign * Size(n) = n /\ 0 * Size(n) = 0 /\ k + 0 = k
  BY DEF Size
<1>. HIDE DEF sign
<1>4. Leads(Int, ServerAdds("wheel"), Clicks(n, 5, 4), k, k + n)
  BY <1>1, <1>2, <1>3, ClicksAmount
<1>5. Leads(Int, ServerAdds("wheel"), Clicks(n, 6, 7), k, k)
  BY <1>1, <1>2, <1>3, ClicksAmount
<1>6. Leads(Int, ServerAdds("tilt"), Clicks(n, 6, 7), k, k + n)
  BY <1>1, <1>2, <1>3, ClicksAmount
<1>7. Leads(Int, ServerAdds("tilt"), Clicks(n, 5, 4), k, k)
  BY <1>1, <1>2, <1>3, ClicksAmount
<1>. QED  BY <1>4, <1>5, <1>6, <1>7

(* The server tells of every notch.  (Of motion it tells too, but not in   *)
(* whole pixels.)                                                          *)
LEMMA XEventsAmount ==
    ASSUME NEW a \in {"wheel", "tilt"}, NEW g \in Gesture, NEW down \in BOOLEAN, NEW n \in Int
    PROVE  Leads(Int, ServerAdds(a), XEvents(g, down), n, n + Offered(g)[a])
<1>1. /\ g.dx \in Int /\ g.dy \in Int /\ g.wheel \in Int /\ g.tilt \in Int
      /\ g.button \in Buttons \cup {0} /\ a \in Axes
  BY DEF Gesture, Axes
<1>. DEFINE motion == [type |-> "RawMotion", dx |-> g.dx, dy |-> g.dy]
            click == [type |-> "RawButton",
                      detail |-> IF g.button = 0 THEN 0 ELSE XNumber[g.button], down |-> down]
            p == Unless(<<0, 0>>, <<g.dx, g.dy>>, motion)
            q == Unless(0, g.button, click)
            r == Clicks(g.wheel, 5, 4)
            s == Clicks(g.tilt, 6, 7)
            n1 == IF a = "wheel" THEN n + g.wheel ELSE n
            n2 == IF a = "tilt" THEN n + g.tilt ELSE n1
<1>2. motion \in ServerEvent /\ ServerAmount(a, motion) = 0
  BY <1>1 DEF ServerEvent, ServerAmount
<1>3. g.button # 0 => click \in ServerEvent /\ ServerAmount(a, click) = 0
  <2>. HAVE g.button # 0
  <2>1. XNumber[g.button] \in {1, 2, 3, 8, 9}
    BY <1>1, XNumberType
  <2>. QED  BY <2>1 DEF ServerEvent, ServerAmount, Notch
<1>4. Leads(Int, ServerAdds(a), p, n, n) /\ p \in Seq(ServerEvent)
  <2>. HIDE DEF motion
  <2>1. p = <<>> \/ p = <<motion>>
    BY DEF Unless
  <2>2. ServerAdds(a)[motion][n] = n
    BY <1>1, <1>2, AddsAmount
  <2>3. Leads(Int, ServerAdds(a), <<motion>>, n, n) /\ <<motion>> \in Seq(ServerEvent)
    BY <1>2, <2>2, LeadsOne, OneOf
  <2>4. Leads(Int, ServerAdds(a), <<>>, n, n) /\ <<>> \in Seq(ServerEvent)
    BY LeadsEmpty
  <2>. HIDE DEF p
  <2>. QED  BY <2>1, <2>3, <2>4
<1>5. Leads(Int, ServerAdds(a), q, n, n) /\ q \in Seq(ServerEvent)
  <2>. HIDE DEF click
  <2>1. CASE g.button = 0
    <3>1. q = <<>>
      BY <2>1 DEF Unless
    <3>2. Leads(Int, ServerAdds(a), <<>>, n, n) /\ <<>> \in Seq(ServerEvent)
      BY LeadsEmpty
    <3>. HIDE DEF q
    <3>. QED  BY <3>1, <3>2
  <2>2. CASE g.button # 0
    <3>1. q = <<click>>
      BY <2>2 DEF Unless
    <3>2. ServerAdds(a)[click][n] = n
      BY <1>1, <1>3, <2>2, AddsAmount
    <3>3. Leads(Int, ServerAdds(a), <<click>>, n, n) /\ <<click>> \in Seq(ServerEvent)
      BY <1>3, <2>2, <3>2, LeadsOne, OneOf
    <3>. HIDE DEF q
    <3>. QED  BY <3>1, <3>3
  <2>. QED  BY <2>1, <2>2
<1>6. Leads(Int, ServerAdds(a), r, n, n1) /\ r \in Seq(ServerEvent)
  <2>1. r \in Seq(ServerEvent)
    <3>1. 4 \in 1 .. 9 /\ 5 \in 1 .. 9
      OBVIOUS
    <3>. QED  BY <1>1, <3>1, ClicksType, MouseEvents
  <2>. QED  BY <1>1, <2>1, WheelClicks
<1>7. Leads(Int, ServerAdds(a), s, n1, n2) /\ s \in Seq(ServerEvent)
  <2>1. s \in Seq(ServerEvent)
    <3>1. 6 \in 1 .. 9 /\ 7 \in 1 .. 9
      OBVIOUS
    <3>. QED  BY <1>1, <3>1, ClicksType, MouseEvents
  <2>2. a = "tilt" => n1 = n
    OBVIOUS
  <2>3. a = "wheel" => n2 = n1
    OBVIOUS
  <2>4. n1 \in Int
    BY <1>1
  <2>5. CASE a = "wheel"
    BY <1>1, <2>1, <2>3, <2>4, <2>5, WheelClicks
  <2>6. CASE a = "tilt"
    BY <1>1, <2>1, <2>2, <2>6, WheelClicks
  <2>. QED  BY <2>5, <2>6
<1>8. n2 = n + Offered(g)[a]
  BY <1>1 DEF Offered
<1>9. XEvents(g, down) = p \o q \o r \o s
  BY DEF XEvents
<1>. HIDE DEF p, q, r, s, n1, n2
<1>10. p \o q \in Seq(ServerEvent) /\ Leads(Int, ServerAdds(a), p \o q, n, n)
  BY <1>4, <1>5, ConcatType, LeadsConcat
<1>11. p \o q \o r \in Seq(ServerEvent) /\ Leads(Int, ServerAdds(a), p \o q \o r, n, n1)
  BY <1>6, <1>10, ConcatType, LeadsConcat
<1>12. Leads(Int, ServerAdds(a), p \o q \o r \o s, n, n2)
  BY <1>7, <1>11, LeadsConcat
<1>. QED  BY <1>8, <1>9, <1>12

(* The buffers of all devices together carry T.                            *)
InBuffers(a, b, T) ==
    \E start \in [Devices -> Int], share \in [Devices -> Int] :
       /\ \A d \in Devices : Leads(Int, RawAdds(a), b[d], start[d], start[d] + share[d])
       /\ Total(Devices, share, T)

(* A share that changes.                                                   *)
LEMMA UpdateType ==
    ASSUME NEW D, NEW share \in [D -> Int], NEW d \in D, NEW v \in Int
    PROVE  [share EXCEPT ![d] = @ + v] \in [D -> Int]
OBVIOUS

(* Empty buffers carry nothing.                                            *)
LEMMA BuffersNone ==
    ASSUME NEW a \in Axes, NEW b, \A d \in Devices : b[d] = <<>>
    PROVE  /\ InBuffers(a, b, 0)
           /\ \A T : InBuffers(a, b, T) => T = 0
<1>1. InBuffers(a, b, 0)
  <2>. DEFINE zero == [d \in Devices |-> 0]
  <2>1. zero \in [Devices -> Int] /\ \A d \in Devices : zero[d] = 0
    OBVIOUS
  <2>. HIDE DEF zero
  <2>2. Total(Devices, zero, 0)
    BY <2>1, TotalNone
  <2>3. Leads(Int, RawAdds(a), <<>>, 0, 0)
    BY LeadsEmpty
  <2>4. ASSUME NEW d \in Devices
        PROVE  Leads(Int, RawAdds(a), b[d], zero[d], zero[d] + zero[d])
    <3>1. zero[d] = 0 /\ zero[d] + zero[d] = 0
      BY <2>1
    <3>. QED  BY <3>1, <2>3
  <2>. QED  BY <2>1, <2>2, <2>4 DEF InBuffers
<1>2. ASSUME NEW T, InBuffers(a, b, T) PROVE T = 0
  <2>1. PICK start \in [Devices -> Int], share \in [Devices -> Int] :
          /\ \A d \in Devices : Leads(Int, RawAdds(a), b[d], start[d], start[d] + share[d])
          /\ Total(Devices, share, T)
    BY <1>2 DEF InBuffers
  <2>2. ASSUME NEW d \in Devices PROVE share[d] = 0
    <3>1. Leads(Int, RawAdds(a), <<>>, start[d], start[d] + share[d])
      BY <2>1
    <3>2. start[d] = start[d] + share[d]
      BY <3>1, LeadsEmpty
    <3>3. start[d] \in Int /\ share[d] \in Int
      OBVIOUS
    <3>. QED  BY <3>2, <3>3
  <2>. QED  BY <2>1, <2>2, TotalNone
<1>. QED  BY <1>1, <1>2

(* A buffer with more events at its end carries as much more.              *)
LEMMA BuffersGain ==
    ASSUME NEW a \in Axes, NEW b \in [Devices -> Seq(RawEvent)], NEW d \in Devices,
           NEW q \in Seq(RawEvent), NEW v \in Int, NEW T \in Int,
           \A n \in Int : Leads(Int, RawAdds(a), q, n, n + v),
           InBuffers(a, b, T)
    PROVE  InBuffers(a, [b EXCEPT ![d] = @ \o q], T + v)
<1>1. PICK start \in [Devices -> Int], share \in [Devices -> Int] :
        /\ \A e \in Devices : Leads(Int, RawAdds(a), b[e], start[e], start[e] + share[e])
        /\ Total(Devices, share, T)
  BY DEF InBuffers
<1>. DEFINE c == [b EXCEPT ![d] = @ \o q]
            new == [share EXCEPT ![d] = @ + v]
<1>2. Total(Devices, new, T + v)
  BY <1>1, TotalUpdate
<1>4. new \in [Devices -> Int]
  BY UpdateType
<1>3. ASSUME NEW e \in Devices
      PROVE  Leads(Int, RawAdds(a), c[e], start[e], start[e] + new[e])
  <2>1. CASE e = d
    <3>. DEFINE x == start[d]
                y == share[d]
    <3>0. x \in Int /\ y \in Int
      OBVIOUS
    <3>1. x + y \in Int /\ x + y + v = x + (y + v)
      <4>. HIDE DEF x, y
      <4>. QED  BY <3>0
    <3>2. Leads(Int, RawAdds(a), b[d], x, x + y)
      BY <1>1
    <3>3. Leads(Int, RawAdds(a), q, x + y, x + y + v)
      BY <3>1
    <3>4. b[d] \in Seq(RawEvent)
      OBVIOUS
    <3>5. Leads(Int, RawAdds(a), b[d] \o q, x, x + y + v)
      BY <3>2, <3>3, <3>4, LeadsConcat
    <3>6. c[e] = b[d] \o q /\ start[e] = x /\ new[e] = y + v
      BY <2>1
    <3>. HIDE DEF x, y, c, new
    <3>. QED  BY <3>1, <3>5, <3>6
  <2>2. CASE e # d
    BY <2>2, <1>1
  <2>. QED  BY <2>1, <2>2
<1>. HIDE DEF new
<1>. QED  BY <1>2, <1>3, <1>4 DEF InBuffers

(* Events that carry nothing change nothing.                               *)
LEMMA BuffersKeep ==
    ASSUME NEW a \in Axes, NEW b \in [Devices -> Seq(RawEvent)], NEW d \in Devices,
           NEW q \in Seq(RawEvent), NEW T \in Int,
           \A n \in Int : Leads(Int, RawAdds(a), q, n, n),
           InBuffers(a, b, T)
    PROVE  InBuffers(a, [b EXCEPT ![d] = @ \o q], T)
<1>1. PICK v \in Int : v = 0
  OBVIOUS
<1>2. ASSUME NEW n \in Int PROVE Leads(Int, RawAdds(a), q, n, n + v)
  BY <1>1
<1>3. InBuffers(a, [b EXCEPT ![d] = @ \o q], T + v)
  BY <1>2, BuffersGain
<1>4. T + v = T
  BY <1>1
<1>. QED  BY <1>3, <1>4

(* A buffer whose first event is taken carries so much less.               *)
LEMMA BuffersYield ==
    ASSUME NEW a \in Axes, NEW b \in [Devices -> Seq(RawEvent)], NEW d \in Devices,
           b[d] # <<>>, NEW T \in Int, InBuffers(a, b, T)
    PROVE  InBuffers(a, [b EXCEPT ![d] = Tail(@)], T - RawAmount(a, Head(b[d])))
<1>1. PICK start \in [Devices -> Int], share \in [Devices -> Int] :
        /\ \A e \in Devices : Leads(Int, RawAdds(a), b[e], start[e], start[e] + share[e])
        /\ Total(Devices, share, T)
  BY DEF InBuffers
<1>. DEFINE c == [b EXCEPT ![d] = Tail(@)]
            v == RawAmount(a, Head(b[d]))
            less == [share EXCEPT ![d] = @ + (-v)]
            later == [start EXCEPT ![d] = @ + v]
<1>2. b[d] \in Seq(RawEvent) /\ Head(b[d]) \in RawEvent
  BY HeadTailProperties
<1>3. v \in Int /\ -v \in Int
  BY <1>2, AmountType
<1>. HIDE DEF v
<1>4. Total(Devices, less, T + (-v))
  BY <1>1, <1>3, TotalUpdate
<1>8. less \in [Devices -> Int]
  BY <1>3, UpdateType
<1>5. later \in [Devices -> Int]
  BY <1>3, UpdateType
<1>6. ASSUME NEW e \in Devices
      PROVE  Leads(Int, RawAdds(a), c[e], later[e], later[e] + less[e])
  <2>1. CASE e = d
    <3>. DEFINE x == start[d]
                y == share[d]
    <3>1. x \in Int /\ y \in Int /\ x + v + (y + (-v)) = x + y
      BY <1>3
    <3>2. Leads(Int, RawAdds(a), b[d], x, x + y)
      BY <1>1
    <3>3. RawAdds(a)[Head(b[d])][x] = x + v
      BY <1>2, <3>1, AddsAmount DEF v
    <3>4. Leads(Int, RawAdds(a), Tail(b[d]), x + v, x + y)
      BY <1>2, <3>2, <3>3, AddsType, LeadsTail
    <3>5. c[e] = Tail(b[d]) /\ later[e] = x + v /\ less[e] = y + (-v)
      BY <2>1
    <3>. HIDE DEF x, y, c, less, later
    <3>. QED  BY <3>1, <3>4, <3>5
  <2>2. CASE e # d
    BY <2>2, <1>1
  <2>. QED  BY <2>1, <2>2
<1>7. T + (-v) = T - v
  BY <1>3
<1>. HIDE DEF less, later
<1>. QED  BY <1>4, <1>5, <1>6, <1>7, <1>8 DEF InBuffers, v

(* Units and pixels.                                                       *)
LEMMA TruncExact ==
    ASSUME NEW p \in Int
    PROVE  Trunc(Unit * p) = p
BY PathAssumption DEF Trunc

(* Whole pixels, counted in units.                                         *)
LEMMA WholeDiv ==
    ASSUME NEW v \in Int, v % Unit = 0
    PROVE  v \div Unit \in Int /\ Unit * (v \div Unit) = v
BY PathAssumption

(* The user's motion is counted in units, notches are notches.             *)
Scale(a) == IF a \in {"x", "y"} THEN Unit ELSE 1

(* The scale distributes.                                                  *)
LEMMA ScaleSum ==
    ASSUME NEW a, NEW m \in Int, NEW v \in Int
    PROVE  Scale(a) * (m + v) = Scale(a) * m + Scale(a) * v
BY PathAssumption DEF Scale

(* What next_event keeps back until the SYN: p pixels.                     *)
PendingIs(a, p) == IF a \in {"x", "y"} THEN pending[a] = Unit * p ELSE p = 0

(* The books of one amount: what was replayed and what is on the wire, in  *)
(* the queue of the server, in the buffers and pending makes up what the   *)
(* user did.                                                               *)
Balance(a) ==
    \E wired \in Int, served \in Int, T \in Int, p \in Int :
       /\ Leads(Int, WireAdds(a), wire, replayed[a], wired)
       /\ Leads(Int, ServerAdds(a), server, wired, served)
       /\ InBuffers(a, buffer, T)
       /\ PendingIs(a, p)
       /\ made[a] = Scale(a) * (served + T + p)

(* Motion in fractions of a pixel is not in the books.                     *)
Counted(a) == a \in {"x", "y"} => path.capture = "evdev"

(* All books balance until the edge is hit.                                *)
Books == ~over => \A a \in Axes : Counted(a) => Balance(a)

(* At the start nothing was done and nothing is under way.                 *)
LEMMA InitBooks == Init => Books
<1>. SUFFICES ASSUME Init, NEW a \in Axes PROVE Balance(a)
  BY DEF Books
<1>1. /\ replayed = Nothing /\ made = Nothing /\ pending = [x |-> 0, y |-> 0]
      /\ wire = <<>> /\ server = <<>> /\ \A d \in Devices : buffer[d] = <<>>
  BY DEF Init, Start
<1>2. replayed[a] = 0 /\ made[a] = 0
  BY <1>1 DEF Nothing, Axes
<1>3. /\ Leads(Int, WireAdds(a), <<>>, 0, 0) /\ Leads(Int, ServerAdds(a), <<>>, 0, 0)
      /\ InBuffers(a, buffer, 0)
  BY <1>1, LeadsEmpty, BuffersNone
<1>4. PendingIs(a, 0)
  <2>1. a \in {"x", "y"} => pending[a] = 0
    BY <1>1
  <2>. QED  BY <2>1, PathAssumption DEF PendingIs
<1>5. 0 = Scale(a) * (0 + 0 + 0)
  BY PathAssumption DEF Scale
<1>. QED  BY <1>1, <1>2, <1>3, <1>4, <1>5 DEF Balance

(* A gesture adds to what was done and, on either way, as much to what is  *)
(* under way.                                                              *)
LEMMA UseMouseBooks ==
    ASSUME TypeOK, Apart, NEW a \in Axes, Counted(a), Balance(a),
           NEW d \in Mice, NEW g \in Gestures, UseMouse(d, g)
    PROVE  Balance(a)'
<1>. DEFINE down == g.button \notin phys[d]
            h == [g EXCEPT !.dx = @ \div Unit, !.dy = @ \div Unit]
<1>1. PICK wired \in Int, served \in Int, T \in Int, p \in Int :
        /\ Leads(Int, WireAdds(a), wire, replayed[a], wired)
        /\ Leads(Int, ServerAdds(a), server, wired, served)
        /\ InBuffers(a, buffer, T)
        /\ PendingIs(a, p)
        /\ made[a] = Scale(a) * (served + T + p)
  BY DEF Balance
<1>2. /\ UNCHANGED <<path, pending, wire, replayed>>
      /\ made' = [x |-> made.x + g.dx, y |-> made.y + g.dy,
                  wheel |-> made.wheel + g.wheel, tilt |-> made.tilt + g.tilt]
  BY DEF UseMouse, places, replayVars
<1>3. g \in Gesture /\ d \in Devices
  BY PathAssumption DEF Devices
<1>4. /\ g.dx \in Int /\ g.dy \in Int /\ g.wheel \in Int /\ g.tilt \in Int
  BY <1>3 DEF Gesture
<1>5. made'[a] = made[a] + Offered(g)[a]
  BY <1>2 DEF Offered, Axes
<1>6. PendingIs(a, p)'
  BY <1>1, <1>2 DEF PendingIs
<1>7. CASE /\ path.capture = "evdev" /\ WholePixels(g)
           /\ buffer' = [buffer EXCEPT ![d] = @ \o Packet(h, down)]
           /\ UNCHANGED server
  <2>. DEFINE v == Offered(h)[a]
  <2>1. h \in Gesture /\ down \in BOOLEAN
    <3>1. g.dx \div Unit \in Int /\ g.dy \div Unit \in Int
      BY <1>4, PixelsType
    <3>. QED  BY <1>3, <3>1 DEF Gesture
  <2>2. /\ h.dx = g.dx \div Unit /\ h.dy = g.dy \div Unit
        /\ h.wheel = g.wheel /\ h.tilt = g.tilt
    BY <1>3 DEF Gesture
  <2>. HIDE DEF h, down
  <2>3. v \in Int /\ Offered(g)[a] = Scale(a) * v
    <3>1. /\ g.dx \div Unit \in Int /\ Unit * (g.dx \div Unit) = g.dx
          /\ g.dy \div Unit \in Int /\ Unit * (g.dy \div Unit) = g.dy
      BY <1>4, <1>7, WholeDiv DEF WholePixels
    <3>2. CASE a = "x"
      BY <2>2, <3>1, <3>2 DEF Offered, Scale
    <3>3. CASE a = "y"
      BY <2>2, <3>1, <3>3 DEF Offered, Scale
    <3>4. CASE a = "wheel"
      BY <1>4, <2>2, <3>4 DEF Offered, Scale
    <3>5. CASE a = "tilt"
      BY <1>4, <2>2, <3>5 DEF Offered, Scale
    <3>. QED  BY <3>2, <3>3, <3>4, <3>5 DEF Axes
  <2>4. /\ Packet(h, down) \in Seq(RawEvent)
        /\ \A n \in Int : Leads(Int, RawAdds(a), Packet(h, down), n, n + v)
    BY <2>1, PacketType, MouseEvents, PacketAmount
  <2>5. InBuffers(a, buffer', T + v)
    <3>. HIDE DEF v
    <3>. QED  BY <1>1, <1>3, <1>7, <2>3, <2>4, BuffersGain DEF TypeOK
  <2>6. made'[a] = Scale(a) * (served + (T + v) + p)
    <3>. HIDE DEF v
    <3>1. Scale(a) * (served + T + p + v) = Scale(a) * (served + T + p) + Scale(a) * v
      BY <2>3, ScaleSum
    <3>2. served + (T + v) + p = served + T + p + v
      BY <2>3
    <3>. QED  BY <1>1, <1>5, <2>3, <3>1, <3>2
  <2>7. T + v \in Int
    BY <2>3
  <2>. HIDE DEF v
  <2>. QED  BY <1>1, <1>2, <1>6, <1>7, <2>5, <2>6, <2>7 DEF Balance
<1>8. CASE /\ path.capture = "x11" /\ server' = server \o XEvents(g, down)
           /\ UNCHANGED buffer
  <2>. DEFINE v == Offered(g)[a]
  <2>1. a \in {"wheel", "tilt"}
    BY <1>8 DEF Counted, Axes
  <2>2. v \in Int /\ down \in BOOLEAN
    BY <1>4 DEF Offered, Axes
  <2>. HIDE DEF down
  <2>3. /\ XEvents(g, down) \in Seq(ServerEvent)
        /\ Leads(Int, ServerAdds(a), XEvents(g, down), served, served + v)
    BY <1>3, <2>1, <2>2, XEventsType, MouseEvents, XEventsAmount
  <2>4. server \in Seq(ServerEvent)
    BY DEF TypeOK
  <2>5. Leads(Int, ServerAdds(a), server', wired, served + v)
    BY <1>1, <1>8, <2>3, <2>4, LeadsConcat
  <2>6. made'[a] = Scale(a) * ((served + v) + T + p)
    <3>. HIDE DEF v
    <3>1. Scale(a) * (served + T + p + v) = Scale(a) * (served + T + p) + Scale(a) * v
      BY <2>2, ScaleSum
    <3>2. served + v + T + p = served + T + p + v /\ Scale(a) * v = v
      BY <2>1, <2>2 DEF Scale
    <3>3. made'[a] = made[a] + v
      BY <1>5 DEF v
    <3>. QED  BY <1>1, <3>1, <3>2, <3>3
  <2>7. served + v \in Int
    BY <2>2
  <2>. HIDE DEF v
  <2>. QED  BY <1>1, <1>2, <1>6, <1>8, <2>5, <2>6, <2>7 DEF Balance
<1>. QED  BY <1>7, <1>8 DEF UseMouse

(* Keys carry no motion and no notches.                                    *)
LEMMA UseKeyboardBooks ==
    ASSUME TypeOK, NEW a \in Axes, Balance(a),
           NEW k \in Codes, NEW value \in 0 .. 2, UseKeyboard(k, value)
    PROVE  Balance(a)'
<1>1. PICK wired \in Int, served \in Int, T \in Int, p \in Int :
        /\ Leads(Int, WireAdds(a), wire, replayed[a], wired)
        /\ Leads(Int, ServerAdds(a), server, wired, served)
        /\ InBuffers(a, buffer, T)
        /\ PendingIs(a, p)
        /\ made[a] = Scale(a) * (served + T + p)
  BY DEF Balance
<1>2. UNCHANGED <<pending, wire, replayed, made>>
  BY DEF UseKeyboard, replayVars
<1>3. PendingIs(a, p)'
  BY <1>1, <1>2 DEF PendingIs
<1>4. k \in Nat /\ Keyboard \in Devices
  BY PathAssumption DEF Devices
<1>. DEFINE q == <<Raw("KEY", k, value), Raw("SYN", 0, 0)>>
            ev == [type |-> "RawKey", detail |-> k + 8, down |-> value = 1]
<1>5. CASE buffer' = [buffer EXCEPT ![Keyboard] = @ \o q] /\ UNCHANGED server
  <2>1. Raw("KEY", k, value) \in RawEvent /\ Raw("SYN", 0, 0) \in RawEvent
    BY <1>4 DEF Raw, RawEvent
  <2>2. RawAmount(a, Raw("KEY", k, value)) = 0 /\ RawAmount(a, Raw("SYN", 0, 0)) = 0
    BY DEF RawAmount, Raw
  <2>3. q \in Seq(RawEvent)
    BY <2>1
  <2>4. ASSUME NEW n \in Int PROVE Leads(Int, RawAdds(a), q, n, n)
    <3>1. ASSUME NEW i \in 1 .. Len(q) PROVE RawAdds(a)[q[i]][n] = n
      <4>1. q[i] \in RawEvent /\ RawAmount(a, q[i]) = 0
        BY <2>1, <2>2
      <4>. QED  BY <4>1, AddsAmount
    <3>. QED  BY <2>3, <3>1, LeadsIdle
  <2>. HIDE DEF q
  <2>5. InBuffers(a, buffer', T)
    BY <1>1, <1>4, <1>5, <2>3, <2>4, BuffersKeep DEF TypeOK
  <2>. QED  BY <1>1, <1>2, <1>3, <1>5, <2>5 DEF Balance
<1>6. CASE server' = Append(server, ev) /\ UNCHANGED buffer
  <2>1. ev \in ServerEvent
    BY <1>4 DEF ServerEvent
  <2>2. ServerAmount(a, ev) = 0
    BY DEF ServerAmount
  <2>. HIDE DEF ev
  <2>3. ServerAdds(a)[ev][served] = served
    BY <2>1, <2>2, AddsAmount
  <2>4. Leads(Int, ServerAdds(a), server', wired, served)
    <3>1. server \in Seq(ServerEvent) /\ ServerAdds(a) \in [ServerEvent -> [Int -> Int]]
      BY AddsType DEF TypeOK
    <3>2. Leads(Int, ServerAdds(a), Append(server, ev), wired, ServerAdds(a)[ev][served])
      BY <1>1, <2>1, <3>1, LeadsAppend
    <3>. QED  BY <1>6, <2>3, <3>2
  <2>. QED  BY <1>1, <1>2, <1>3, <1>6, <2>4 DEF Balance
<1>. QED  BY <1>5, <1>6 DEF UseKeyboard

(* The pending motion with one more event.                                 *)
LEMMA SplitProduct ==
    ASSUME NEW m \in Int, NEW n \in Int
    PROVE  Unit * m + n * Unit = Unit * (n + m)
BY PathAssumption

(* What is taken from a buffer goes on the wire or is kept back, and what  *)
(* is kept back goes on the wire as a whole.                               *)
LEMMA ReadEvdevBooks ==
    ASSUME TypeOK, Apart, NEW a \in Axes, Balance(a), NEW d \in Devices, ReadEvdev(d)
    PROVE  Balance(a)'
<1>. DEFINE raw == Head(buffer[d])
            v == RawAmount(a, raw)
            move == Move(pending.x, pending.y)
<1>1. PICK wired \in Int, served \in Int, T \in Int, p \in Int :
        /\ Leads(Int, WireAdds(a), wire, replayed[a], wired)
        /\ Leads(Int, ServerAdds(a), server, wired, served)
        /\ InBuffers(a, buffer, T)
        /\ PendingIs(a, p)
        /\ made[a] = Scale(a) * (served + T + p)
  BY DEF Balance
<1>2. /\ UNCHANGED <<path, server, replayed, made>> /\ server = <<>>
      /\ buffer[d] # <<>> /\ buffer' = [buffer EXCEPT ![d] = Tail(@)]
  BY DEF ReadEvdev, places, replayVars, userVars, Apart
<1>3. wired = served
  <2>1. Leads(Int, ServerAdds(a), <<>>, wired, served)
    BY <1>1, <1>2
  <2>. QED  BY <2>1, LeadsEmpty
<1>4. /\ raw \in RawEvent /\ v \in Int
  <2>1. buffer[d] \in Seq(RawEvent)
    BY DEF TypeOK
  <2>2. raw \in RawEvent
    BY <1>2, <2>1, HeadTailProperties
  <2>. QED  BY <2>2, AmountType
<1>5. InBuffers(a, buffer', T - v)
  BY <1>1, <1>2, BuffersYield DEF TypeOK
<1>6. pending.x \in Int /\ pending.y \in Int /\ pending \in [x : Int, y : Int]
      /\ wire \in Seq(InputEvent)
  BY DEF TypeOK
<1>. HIDE DEF v
(* Whatever arm is taken: what goes on the wire and what is kept back make *)
(* up for the event that was read.                                         *)
<1>7. ASSUME NEW w \in Int, NEW r \in Int, PendingIs(a, r)', w + r = v + p,
             \/ UNCHANGED wire /\ w = 0
             \/ \E ev \in InputEvent : wire' = Append(wire, ev) /\ WireAmount(a, ev) = w
      PROVE  Balance(a)'
  <2>1. Leads(Int, WireAdds(a), wire', replayed'[a], wired + w)
    <3>1. CASE UNCHANGED wire /\ w = 0
      BY <3>1, <1>1, <1>2
    <3>2. ASSUME NEW ev \in InputEvent, wire' = Append(wire, ev), WireAmount(a, ev) = w
          PROVE  Leads(Int, WireAdds(a), wire', replayed'[a], wired + w)
      <4>1. WireAdds(a)[ev][wired] = wired + w
        BY <3>2, AddsAmount
      <4>2. WireAdds(a) \in [InputEvent -> [Int -> Int]]
        BY AddsType
      <4>3. Leads(Int, WireAdds(a), Append(wire, ev), replayed[a], WireAdds(a)[ev][wired])
        BY <1>1, <1>6, <4>2, LeadsAppend
      <4>. QED  BY <1>2, <3>2, <4>1, <4>3
    <3>. QED  BY <3>1, <3>2, <1>7
  <2>2. Leads(Int, ServerAdds(a), server', wired + w, wired + w)
    <3>1. wired + w \in Int
      OBVIOUS
    <3>2. Leads(Int, ServerAdds(a), <<>>, wired + w, wired + w)
      BY <3>1, LeadsEmpty
    <3>. QED  BY <1>2, <3>2
  <2>3. wired + w + (T - v) + r = served + T + p
    BY <1>3, <1>4, <1>7
  <2>4. made'[a] = Scale(a) * (wired + w + (T - v) + r)
    BY <1>1, <1>2, <2>3
  <2>5. wired + w \in Int /\ T - v \in Int
    BY <1>4
  <2>. QED  BY <1>5, <1>7, <2>1, <2>2, <2>4, <2>5 DEF Balance
<1>8. ASSUME v = 0, UNCHANGED pending,
             \/ UNCHANGED wire
             \/ \E ev \in InputEvent : wire' = Append(wire, ev) /\ WireAmount(a, ev) = 0
      PROVE  Balance(a)'
  <2>1. PendingIs(a, p)'
    BY <1>1, <1>2, <1>8 DEF PendingIs
  <2>2. 0 + p = v + p
    BY <1>8
  <2>. QED  BY <1>7, <1>8, <2>1, <2>2
<1>9. CASE raw.type = "SYN" /\ EndOfReport(d)
  <2>1. v = 0
    BY <1>9 DEF RawAmount, v
  <2>2. pending' = [x |-> 0, y |-> 0]
    BY <1>9 DEF EndOfReport
  <2>3. CASE pending = [x |-> 0, y |-> 0]
    <3>1. UNCHANGED <<pending, wire>>
      BY <1>9, <2>2, <2>3 DEF EndOfReport, ReadOn
    <3>. QED  BY <1>8, <2>1, <3>1
  <2>4. CASE pending # [x |-> 0, y |-> 0]
    <3>1. wire' = Append(wire, move)
      BY <1>9, <2>4 DEF EndOfReport, Returned
    <3>2. move \in InputEvent
      BY <1>6 DEF Move, InputEvent
    <3>3. WireAmount(a, move) = p
      <4>1. CASE a = "x"
        <5>1. Trunc(pending.x) = p
          BY <1>1, <4>1, TruncExact DEF PendingIs
        <5>. QED  BY <4>1, <5>1 DEF WireAmount, Move
      <4>2. CASE a = "y"
        <5>1. Trunc(pending.y) = p
          BY <1>1, <4>2, TruncExact DEF PendingIs
        <5>. QED  BY <4>2, <5>1 DEF WireAmount, Move
      <4>3. CASE a \in {"wheel", "tilt"}
        BY <1>1, <4>3 DEF WireAmount, Move, PendingIs
      <4>. QED  BY <4>1, <4>2, <4>3 DEF Axes
    <3>4. PendingIs(a, 0)'
      BY <2>2, PathAssumption DEF PendingIs
    <3>5. p + 0 = v + p
      BY <2>1
    <3>. HIDE DEF move
    <3>. QED  BY <1>7, <3>1, <3>2, <3>3, <3>4, <3>5
  <2>. QED  BY <2>3, <2>4
<1>10. CASE raw.type = "REL" /\ Relative(d, raw)
  <2>0. raw.value \in Int
    BY <1>4 DEF RawEvent
  <2>1. CASE /\ raw.code = REL_X /\ pending' = [pending EXCEPT !.x = @ + raw.value * Unit]
             /\ ReadOn(d)
    <3>1. UNCHANGED wire /\ pending'.y = pending.y /\ pending'.x = pending.x + raw.value * Unit
      BY <1>6, <2>1 DEF ReadOn
    <3>2. CASE a = "x"
      <4>1. v = raw.value
        BY <1>10, <2>1, <3>2 DEF v, RawAmount, Code
      <4>2. PICK r \in Int : r = v + p
        BY <1>4
      <4>3. pending'.x = Unit * p + v * Unit
        BY <1>1, <3>1, <3>2, <4>1 DEF PendingIs
      <4>4. Unit * p + v * Unit = Unit * r
        BY <1>4, <4>2, SplitProduct
      <4>5. PendingIs(a, r)'
        BY <3>2, <4>3, <4>4 DEF PendingIs
      <4>6. 0 + r = v + p
        BY <4>2
      <4>. QED  BY <1>7, <3>1, <4>5, <4>6
    <3>3. CASE a # "x"
      <4>1. v = 0
        BY <2>1, <3>3 DEF v, RawAmount, Code, Axes, REL_X, REL_Y, REL_WHEEL, REL_HWHEEL
      <4>2. PendingIs(a, p)'
        BY <1>1, <3>1, <3>3 DEF PendingIs
      <4>3. 0 + p = v + p
        BY <4>1
      <4>. QED  BY <1>7, <3>1, <4>2, <4>3
    <3>. QED  BY <3>2, <3>3
  <2>2. CASE /\ raw.code = REL_Y /\ pending' = [pending EXCEPT !.y = @ + raw.value * Unit]
             /\ ReadOn(d)
    <3>1. UNCHANGED wire /\ pending'.x = pending.x /\ pending'.y = pending.y + raw.value * Unit
      BY <1>6, <2>2 DEF ReadOn
    <3>2. CASE a = "y"
      <4>1. v = raw.value
        BY <1>10, <2>2, <3>2 DEF v, RawAmount, Code
      <4>2. PICK r \in Int : r = v + p
        BY <1>4
      <4>3. pending'.y = Unit * p + v * Unit
        BY <1>1, <3>1, <3>2, <4>1 DEF PendingIs
      <4>4. Unit * p + v * Unit = Unit * r
        BY <1>4, <4>2, SplitProduct
      <4>5. PendingIs(a, r)'
        BY <3>2, <4>3, <4>4 DEF PendingIs
      <4>6. 0 + r = v + p
        BY <4>2
      <4>. QED  BY <1>7, <3>1, <4>5, <4>6
    <3>3. CASE a # "y"
      <4>1. v = 0
        BY <2>2, <3>3 DEF v, RawAmount, Code, Axes, REL_X, REL_Y, REL_WHEEL, REL_HWHEEL
      <4>2. PendingIs(a, p)'
        BY <1>1, <3>1, <3>3 DEF PendingIs
      <4>3. 0 + p = v + p
        BY <4>1
      <4>. QED  BY <1>7, <3>1, <4>2, <4>3
    <3>. QED  BY <3>2, <3>3
  <2>3. ASSUME NEW ev \in InputEvent, WireAmount(a, ev) = v, wire' = Append(wire, ev),
               UNCHANGED pending
        PROVE  Balance(a)'
    <3>1. PendingIs(a, p)'
      BY <1>1, <2>3 DEF PendingIs
    <3>. QED  BY <1>4, <1>7, <2>3, <3>1
  <2>4. CASE raw.code = REL_WHEEL /\ Returned(Scroll(0, -raw.value)) /\ UNCHANGED pending
    <3>. DEFINE ev == Scroll(0, -raw.value)
    <3>1. ev \in InputEvent
      BY <2>0 DEF Scroll, InputEvent
    <3>2. WireAmount(a, ev) = v
      <4>1. v = IF a = "wheel" THEN raw.value ELSE 0
        BY <1>10, <2>4 DEF v, RawAmount, Code, Axes, REL_X, REL_Y, REL_WHEEL, REL_HWHEEL
      <4>2. WireAmount(a, ev) = IF a = "wheel" THEN -(-raw.value) ELSE 0
        BY DEF WireAmount, Scroll, Axes
      <4>. QED  BY <2>0, <4>1, <4>2
    <3>3. wire' = Append(wire, ev) /\ UNCHANGED pending
      BY <2>4 DEF Returned
    <3>. HIDE DEF ev
    <3>. QED  BY <2>3, <3>1, <3>2, <3>3
  <2>5. CASE raw.code = REL_HWHEEL /\ Returned(Scroll(raw.value, 0)) /\ UNCHANGED pending
    <3>. DEFINE ev == Scroll(raw.value, 0)
    <3>1. ev \in InputEvent
      BY <2>0 DEF Scroll, InputEvent
    <3>2. WireAmount(a, ev) = v
      <4>1. v = IF a = "tilt" THEN raw.value ELSE 0
        BY <1>10, <2>5 DEF v, RawAmount, Code, Axes, REL_X, REL_Y, REL_WHEEL, REL_HWHEEL
      <4>2. WireAmount(a, ev) = IF a = "tilt" THEN raw.value ELSE 0
        BY DEF WireAmount, Scroll, Axes
      <4>. QED  BY <4>1, <4>2
    <3>3. wire' = Append(wire, ev) /\ UNCHANGED pending
      BY <2>5 DEF Returned
    <3>. HIDE DEF ev
    <3>. QED  BY <2>3, <3>1, <3>2, <3>3
  <2>. QED  BY <1>10, <2>1, <2>2, <2>4, <2>5 DEF Relative
<1>11. CASE raw.type = "KEY" /\ TranslateKey(d, raw)
  <2>1. v = 0 /\ UNCHANGED pending
    BY <1>11 DEF v, RawAmount, TranslateKey
  <2>2. \/ UNCHANGED wire
        \/ \E ev \in InputEvent : wire' = Append(wire, ev) /\ WireAmount(a, ev) = 0
    <3>1. \/ UNCHANGED wire
          \/ wire' = Append(wire, Press("button", raw.code, raw.value # 0))
          \/ wire' = Append(wire, Press("key", raw.code, raw.value # 0))
      BY <1>11 DEF TranslateKey, Returned, ReadOn
    <3>2. raw.code \in Nat
      BY <1>4 DEF RawEvent
    <3>3. /\ Press("button", raw.code, raw.value # 0) \in InputEvent
          /\ Press("key", raw.code, raw.value # 0) \in InputEvent
      BY <3>2 DEF Press, InputEvent
    <3>4. /\ WireAmount(a, Press("button", raw.code, raw.value # 0)) = 0
          /\ WireAmount(a, Press("key", raw.code, raw.value # 0)) = 0
      BY DEF Press, WireAmount
    <3>. QED  BY <3>1, <3>3, <3>4
  <2>. QED  BY <1>8, <2>1, <2>2
<1>. QED  BY <1>9, <1>10, <1>11 DEF ReadEvdev

(* Reading a key moves nothing.                                            *)
LEMMA ReadKeyboardBooks ==
    ASSUME TypeOK, Known, NEW a \in Axes, Balance(a), ReadKeyboard
    PROVE  Balance(a)'
<1>. DEFINE raw == Head(buffer[Keyboard])
            ev == Press("key", raw.code, raw.value # 0)
<1>1. PICK wired \in Int, served \in Int, T \in Int, p \in Int :
        /\ Leads(Int, WireAdds(a), wire, replayed[a], wired)
        /\ Leads(Int, ServerAdds(a), server, wired, served)
        /\ InBuffers(a, buffer, T)
        /\ PendingIs(a, p)
        /\ made[a] = Scale(a) * (served + T + p)
  BY DEF Balance
<1>2. /\ UNCHANGED <<path, pending, server, replayed, made>>
      /\ buffer[Keyboard] # <<>> /\ buffer' = [buffer EXCEPT ![Keyboard] = Tail(@)]
      /\ UNCHANGED wire \/ wire' = Append(wire, ev)
  BY DEF ReadKeyboard, places, replayVars, userVars, Returned
<1>3. Keyboard \in Devices
  BY DEF Devices
<1>4. raw \in KeyboardRaw(typed)
  BY <1>2, HeadTailProperties DEF Known
<1>5. RawAmount(a, raw) = 0
  BY <1>4 DEF KeyboardRaw, RawAmount
<1>6. InBuffers(a, buffer', T)
  <2>1. InBuffers(a, buffer', T - RawAmount(a, raw))
    BY <1>1, <1>2, <1>3, BuffersYield DEF TypeOK
  <2>. HIDE DEF raw
  <2>2. T - RawAmount(a, raw) = T
    BY <1>5
  <2>. QED  BY <2>1, <2>2
<1>7. Leads(Int, WireAdds(a), wire', replayed'[a], wired)
  <2>1. raw.code \in Nat
    BY <1>4 DEF KeyboardRaw, RawEvent
  <2>2. ev \in InputEvent
    BY <2>1, MakersType
  <2>3. WireAmount(a, ev) = 0
    BY DEF WireAmount, Press
  <2>. HIDE DEF ev
  <2>4. WireAdds(a)[ev][wired] = wired
    BY <2>2, <2>3, AddsAmount
  <2>5. wire \in Seq(InputEvent) /\ WireAdds(a) \in [InputEvent -> [Int -> Int]]
    BY AddsType DEF TypeOK
  <2>6. Leads(Int, WireAdds(a), Append(wire, ev), replayed[a], WireAdds(a)[ev][wired])
    BY <1>1, <2>2, <2>5, LeadsAppend
  <2>. QED  BY <1>1, <1>2, <2>4, <2>6
<1>. QED  BY <1>1, <1>2, <1>6, <1>7 DEF Balance, PendingIs

(* A press of the buttons 4 to 7 is one notch on the wire.                 *)
LEMMA ReadServerBooks ==
    ASSUME TypeOK, NEW a \in Axes, Counted(a), Balance(a), ReadServer
    PROVE  Balance(a)'
<1>. DEFINE ev == Head(server)
            v == ServerAmount(a, ev)
<1>1. PICK wired \in Int, served \in Int, T \in Int, p \in Int :
        /\ Leads(Int, WireAdds(a), wire, replayed[a], wired)
        /\ Leads(Int, ServerAdds(a), server, wired, served)
        /\ InBuffers(a, buffer, T)
        /\ PendingIs(a, p)
        /\ made[a] = Scale(a) * (served + T + p)
  BY DEF Balance
<1>2. /\ UNCHANGED <<path, pending, buffer, replayed, made>> /\ path.capture = "x11"
      /\ server # <<>> /\ server' = Tail(server)
  BY DEF ReadServer, places, replayVars, userVars
<1>3. a \in {"wheel", "tilt"}
  BY <1>2 DEF Counted, Axes
<1>4. ev \in ServerEvent /\ v \in Int
  BY <1>2, HeadTailProperties, AmountType DEF TypeOK
<1>5. Leads(Int, ServerAdds(a), server', wired + v, served)
  <2>1. ServerAdds(a)[ev][wired] = wired + v
    BY <1>4, AddsAmount
  <2>2. server \in Seq(ServerEvent) /\ ServerAdds(a) \in [ServerEvent -> [Int -> Int]]
    BY AddsType DEF TypeOK
  <2>3. Leads(Int, ServerAdds(a), Tail(server), ServerAdds(a)[ev][wired], served)
    BY <1>1, <1>2, <2>2, LeadsTail
  <2>. QED  BY <1>2, <2>1, <2>3
<1>. HIDE DEF v
<1>6. \/ UNCHANGED wire /\ v = 0
      \/ \E e \in InputEvent : wire' = Append(wire, e) /\ WireAmount(a, e) = v
  <2>. HIDE DEF ev
  <2>1. CASE ev.type = "RawMotion" /\ Returned(Move(ev.dx, ev.dy))
    <3>1. Move(ev.dx, ev.dy) \in InputEvent
      BY <1>4, <2>1, MakersType DEF ServerEvent
    <3>2. v = 0 /\ WireAmount(a, Move(ev.dx, ev.dy)) = 0
      BY <1>3, <2>1 DEF v, ServerAmount, WireAmount, Move
    <3>. QED  BY <2>1, <3>1, <3>2 DEF Returned
  <2>2. CASE ev.type = "RawKey" /\ Returned(Press("key", ev.detail - 8, ev.down))
    <3>1. ev.detail - 8 \in Nat /\ ev.down \in BOOLEAN
      BY <1>4, <2>2 DEF ServerEvent
    <3>2. Press("key", ev.detail - 8, ev.down) \in InputEvent
      BY <3>1, MakersType
    <3>3. v = 0 /\ WireAmount(a, Press("key", ev.detail - 8, ev.down)) = 0
      BY <2>2 DEF v, ServerAmount, WireAmount, Press
    <3>. QED  BY <2>2, <3>2, <3>3 DEF Returned
  <2>3. CASE /\ ev.type = "RawButton" /\ ev.detail \in (1 .. 9) \ (4 .. 7)
             /\ Returned(Press("button", MapButton(ev.detail), ev.down))
    <3>1. ev.down \in BOOLEAN
      BY <1>4, <2>3 DEF ServerEvent
    <3>2. MapButton(ev.detail) \in Nat
      BY <2>3, MapButtonType DEF Buttons
    <3>3. Press("button", MapButton(ev.detail), ev.down) \in InputEvent
      BY <3>1, <3>2, MakersType
    <3>4. v = 0
      BY <2>3 DEF v, ServerAmount, Notch
    <3>5. WireAmount(a, Press("button", MapButton(ev.detail), ev.down)) = 0
      BY DEF WireAmount, Press
    <3>. QED  BY <2>3, <3>3, <3>4, <3>5 DEF Returned
  <2>4. CASE ev.type = "RawButton" /\ ~ev.down /\ UNCHANGED <<wire, reading>>
    BY <2>4, ReleaseAmount DEF v
  <2>5. ASSUME ev.type = "RawButton", ev.down, NEW n \in {4, 5, 6, 7}, ev.detail = n,
               NEW x \in Int, NEW y \in Int, Returned(Scroll(x, y)),
               n = 4 => x = 0 /\ y = -1, n = 5 => x = 0 /\ y = 1,
               n = 6 => x = -1 /\ y = 0, n = 7 => x = 1 /\ y = 0
        PROVE  \E e \in InputEvent : wire' = Append(wire, e) /\ WireAmount(a, e) = v
    <3>1. Scroll(x, y) \in InputEvent
      BY MakersType
    <3>2. WireAmount(a, Scroll(x, y)) = IF a = "wheel" THEN -y ELSE x
      BY <1>3 DEF WireAmount, Scroll
    <3>3. v = IF a = "wheel" THEN (IF n = 4 THEN 1 ELSE IF n = 5 THEN -1 ELSE 0)
                             ELSE (IF n = 7 THEN 1 ELSE IF n = 6 THEN -1 ELSE 0)
      BY <1>3, <2>5 DEF v, ServerAmount, Notch
    <3>4. WireAmount(a, Scroll(x, y)) = v
      BY <1>3, <2>5, <3>2, <3>3
    <3>. QED  BY <2>5, <3>1, <3>4 DEF Returned
  <2>6. CASE /\ ev.type = "RawButton" /\ ev.down
             /\ \/ ev.detail = 4 /\ Returned(Scroll(0, -1))
                \/ ev.detail = 5 /\ Returned(Scroll(0, 1))
                \/ ev.detail = 6 /\ Returned(Scroll(-1, 0))
                \/ ev.detail = 7 /\ Returned(Scroll(1, 0))
    BY <2>5, <2>6
  <2>. QED  BY <2>1, <2>2, <2>3, <2>4, <2>6, ServerArms DEF ev
<1>7. Leads(Int, WireAdds(a), wire', replayed'[a], wired + v)
  <2>1. CASE UNCHANGED wire /\ v = 0
    BY <1>1, <1>2, <2>1
  <2>2. ASSUME NEW e \in InputEvent, wire' = Append(wire, e), WireAmount(a, e) = v
        PROVE  Leads(Int, WireAdds(a), wire', replayed'[a], wired + v)
    <3>1. WireAdds(a)[e][wired] = wired + v
      BY <2>2, AddsAmount
    <3>2. wire \in Seq(InputEvent) /\ WireAdds(a) \in [InputEvent -> [Int -> Int]]
      BY AddsType DEF TypeOK
    <3>3. Leads(Int, WireAdds(a), Append(wire, e), replayed[a], WireAdds(a)[e][wired])
      BY <1>1, <3>2, LeadsAppend
    <3>. QED  BY <1>2, <2>2, <3>1, <3>3
  <2>. QED  BY <1>6, <2>1, <2>2
<1>8. wired + v \in Int
  BY <1>4
<1>. QED  BY <1>1, <1>2, <1>5, <1>7, <1>8 DEF Balance, PendingIs

(* What an event on the wire carries is what the emulated device reports.  *)
LEMMA ReplayAmount ==
    ASSUME TypeOK, NEW a \in Axes, NEW ev \in InputEvent, Replay(ev)
    PROVE  replayed'[a] = replayed[a] + WireAmount(a, ev)
<1>1. /\ replayed \in Count /\ replayed.x \in Int /\ replayed.y \in Int
      /\ replayed.wheel \in Int /\ replayed.tilt \in Int
  BY DEF TypeOK, Count
<1>2. replayed[a] \in Int
  BY <1>1 DEF Axes
<1>3. CASE ev.kind = "move"
  <2>1. replayed' = [replayed EXCEPT !.x = @ + Trunc(ev.dx), !.y = @ + Trunc(ev.dy)]
    BY <1>3 DEF Replay
  <2>2. /\ replayed'.x = replayed.x + Trunc(ev.dx) /\ replayed'.y = replayed.y + Trunc(ev.dy)
        /\ replayed'.wheel = replayed.wheel /\ replayed'.tilt = replayed.tilt
    BY <1>1, <2>1 DEF Count
  <2>. QED  BY <1>1, <1>3, <2>2 DEF WireAmount, Axes
<1>4. CASE ev.kind = "scroll"
  <2>1. replayed' = [replayed EXCEPT !.wheel = @ + Wheel(ev.dy), !.tilt = @ + ev.dx]
    BY <1>4 DEF Replay
  <2>2. /\ replayed'.x = replayed.x /\ replayed'.y = replayed.y
        /\ replayed'.wheel = replayed.wheel + (-ev.dy)
        /\ replayed'.tilt = replayed.tilt + ev.dx
    BY <1>1, <2>1 DEF Count, Wheel
  <2>. QED  BY <1>1, <1>4, <2>2 DEF WireAmount, Axes
<1>5. CASE ev.kind \notin {"move", "scroll"}
  <2>1. UNCHANGED replayed
    BY <1>5 DEF Replay
  <2>. QED  BY <1>2, <1>5, <2>1 DEF WireAmount
<1>. QED  BY <1>3, <1>4, <1>5

(* Receiving moves an amount from the wire to the emulated device.         *)
LEMMA ReceiveBooks ==
    ASSUME TypeOK, NEW a \in Axes, Balance(a), Receive, ~over'
    PROVE  Balance(a)'
<1>. DEFINE ev == Head(wire)
            p0 == IF ev.kind = "move" THEN MoveCursor(screen, cursor, Moved(ev)) ELSE cursor
<1>1. PICK wired \in Int, served \in Int, T \in Int, p \in Int :
        /\ Leads(Int, WireAdds(a), wire, replayed[a], wired)
        /\ Leads(Int, ServerAdds(a), server, wired, served)
        /\ InBuffers(a, buffer, T)
        /\ PendingIs(a, p)
        /\ made[a] = Scale(a) * (served + T + p)
  BY DEF Balance
<1>2. /\ UNCHANGED <<path, pending, buffer, server, made>>
      /\ wire # <<>> /\ wire' = Tail(wire)
  BY DEF Receive, places, userVars
<1>3. Replay(ev)
  <2>1. HitEdge(p0) \/ Replay(ev)
    BY DEF Receive
  <2>2. ~HitEdge(p0)
    BY DEF HitEdge
  <2>. QED  BY <2>1, <2>2
<1>4. ev \in InputEvent /\ replayed[a] \in Int
  BY <1>2, HeadTailProperties DEF TypeOK, Count, Axes
<1>5. Leads(Int, WireAdds(a), wire', replayed'[a], wired)
  <2>1. WireAdds(a)[ev][replayed[a]] = replayed[a] + WireAmount(a, ev)
    BY <1>4, AddsAmount
  <2>2. wire \in Seq(InputEvent) /\ WireAdds(a) \in [InputEvent -> [Int -> Int]]
    BY AddsType DEF TypeOK
  <2>3. Leads(Int, WireAdds(a), Tail(wire), WireAdds(a)[ev][replayed[a]], wired)
    BY <1>1, <1>2, <2>2, LeadsTail
  <2>4. replayed'[a] = replayed[a] + WireAmount(a, ev)
    BY <1>3, <1>4, ReplayAmount
  <2>. QED  BY <1>2, <2>1, <2>3, <2>4
<1>. QED  BY <1>1, <1>2, <1>5 DEF Balance, PendingIs

(* Every step keeps the books.                                             *)
LEMMA StepBooks == TypeOK /\ Known /\ Apart /\ Books /\ [Next]_vars => Books'
<1>. SUFFICES ASSUME TypeOK, Known, Apart, Books, [Next]_vars, ~over',
                     NEW a \in Axes, Counted(a)'
              PROVE  Balance(a)'
  BY DEF Books
<1>1. ~over /\ UNCHANGED path
  <2>1. over' = TRUE \/ UNCHANGED over
    BY DEF Next, UseMouse, UseKeyboard, ReadEvdev, ReadKeyboard, ReadServer, Receive,
           HitEdge, Replay, replayVars, vars
  <2>2. UNCHANGED path
    BY DEF Next, UseMouse, UseKeyboard, ReadEvdev, ReadKeyboard, ReadServer, Receive,
           places, vars
  <2>. QED  BY <2>1, <2>2
<1>2. Counted(a) /\ Balance(a)
  <2>1. path.capture \in {"evdev", "x11"}
    BY PathAssumption DEF TypeOK, Path
  <2>. QED  BY <1>1, <2>1 DEF Books, Counted
<1>3. CASE UNCHANGED vars
  BY <1>2, <1>3 DEF Balance, PendingIs, vars, places, replayVars, userVars
<1>. QED  BY <1>2, <1>3, UseMouseBooks, UseKeyboardBooks, ReadEvdevBooks, ReadKeyboardBooks,
             ReadServerBooks, ReceiveBooks DEF Next

(* A report that has begun ends with a SYN.                                *)
Ended == /\ \A d \in Devices : buffer[d] # <<>> => buffer[d][Len(buffer[d])].type = "SYN"
         /\ pending # [x |-> 0, y |-> 0] => \E d \in Devices : buffer[d] # <<>>

(* At the start nothing has begun.                                         *)
LEMMA InitEnded == Init => Ended
BY DEF Init, Start, Ended

(* A report at the end of a buffer ends it with its SYN.                   *)
LEMMA PacketEnds ==
    ASSUME NEW q, NEW p, NEW e \in RawEvent, e.type = "SYN", q \in Seq(RawEvent),
           p \in Seq(RawEvent)
    PROVE  /\ p \o <<e>> # <<>>
           /\ (q \o (p \o <<e>>))[Len(q \o (p \o <<e>>))].type = "SYN"
           /\ q \o (p \o <<e>>) # <<>>
<1>. DEFINE r == p \o <<e>>
            s == q \o r
<1>1. <<e>> \in Seq(RawEvent) /\ Len(<<e>>) = 1 /\ <<e>>[1] = e
  OBVIOUS
<1>2. Len(p) \in Nat /\ Len(q) \in Nat
  BY LenProperties
<1>3. r \in Seq(RawEvent) /\ Len(r) = Len(p) + 1 /\ r[Len(p) + 1] = e
  BY <1>1, <1>2, ConcatProperties
<1>. HIDE DEF r
<1>4. s \in Seq(RawEvent) /\ Len(s) = Len(q) + Len(p) + 1 /\ s[Len(q) + Len(p) + 1] = e
  <2>1. Len(s) = Len(q) + Len(r) /\ s \in Seq(RawEvent)
    BY <1>3, ConcatProperties
  <2>2. s[Len(q) + Len(r)] = r[Len(r)]
    BY <1>2, <1>3, ConcatProperties
  <2>. QED  BY <1>2, <1>3, <2>1, <2>2
<1>. HIDE DEF s
<1>5. Len(<<>>) = 0
  OBVIOUS
<1>. QED  BY <1>2, <1>3, <1>4, <1>5 DEF s, r

(* Motion is pending only while the SYN that ends it waits in some buffer: *)
(* a report is handed over as a whole, and the SYN that is read flushes    *)
(* what is pending, whatever device it comes from.                         *)
LEMMA StepEnded == TypeOK /\ Apart /\ Ended /\ [Next]_vars => Ended'
<1>. SUFFICES ASSUME TypeOK, Apart, Ended, [Next]_vars PROVE Ended'
  OBVIOUS
<1>0. path.capture \in {"evdev", "x11"}
  BY PathAssumption DEF TypeOK, Path
<1>1. ASSUME NEW d \in Devices, NEW r \in Seq(RawEvent), r # <<>>,
             (buffer[d] \o r)[Len(buffer[d] \o r)].type = "SYN", buffer[d] \o r # <<>>,
             buffer' = [buffer EXCEPT ![d] = @ \o r], UNCHANGED pending
      PROVE  Ended'
  <2>1. buffer'[d] = buffer[d] \o r /\ \A e \in Devices \ {d} : buffer'[e] = buffer[e]
    BY <1>1 DEF TypeOK
  <2>. QED  BY <1>1, <2>1 DEF Ended
<1>2. ASSUME NEW d \in Devices, buffer[d] # <<>>, buffer' = [buffer EXCEPT ![d] = Tail(@)],
             \/ pending' = [x |-> 0, y |-> 0]
             \/ Head(buffer[d]).type # "SYN"
      PROVE  Ended'
  <2>1. buffer[d] \in Seq(RawEvent) /\ Len(buffer[d]) \in Nat \ {0}
    BY <1>2, EmptySeq, LenProperties DEF TypeOK
  <2>2. /\ Tail(buffer[d]) \in Seq(RawEvent) /\ Len(Tail(buffer[d])) = Len(buffer[d]) - 1
        /\ \A i \in 1 .. Len(Tail(buffer[d])) : Tail(buffer[d])[i] = buffer[d][i + 1]
        /\ Head(buffer[d]) = buffer[d][1]
    BY <1>2, <2>1, HeadTailProperties
  <2>3. buffer'[d] = Tail(buffer[d]) /\ \A e \in Devices \ {d} : buffer'[e] = buffer[e]
    BY <1>2 DEF TypeOK
  <2>4. Tail(buffer[d]) # <<>>
           => Tail(buffer[d])[Len(Tail(buffer[d]))].type = "SYN"
    <3>1. Tail(buffer[d]) # <<>> => Len(buffer[d]) - 1 \in 1 .. Len(Tail(buffer[d]))
      BY <2>1, <2>2, EmptySeq
    <3>2. buffer[d][Len(buffer[d])].type = "SYN"
      BY <1>2 DEF Ended
    <3>3. Tail(buffer[d]) # <<>>
             => Tail(buffer[d])[Len(buffer[d]) - 1] = buffer[d][Len(buffer[d]) - 1 + 1]
      BY <2>2, <3>1
    <3>4. Len(buffer[d]) - 1 + 1 = Len(buffer[d])
      BY <2>1
    <3>. QED  BY <2>2, <3>2, <3>3, <3>4
  <2>5. Head(buffer[d]).type # "SYN" => Tail(buffer[d]) # <<>>
    <3>1. buffer[d][Len(buffer[d])].type = "SYN"
      BY <1>2 DEF Ended
    <3>2. Len(buffer[d]) = 1 => Head(buffer[d]).type = "SYN"
      BY <2>2, <3>1
    <3>3. Tail(buffer[d]) = <<>> => Len(Tail(buffer[d])) = 0
      BY EmptySeq
    <3>. QED  BY <2>1, <2>2, <3>2, <3>3
  <2>. QED  BY <1>2, <2>3, <2>4, <2>5 DEF Ended
<1>3. CASE UNCHANGED <<buffer, pending>>
  BY <1>3 DEF Ended
<1>4. ASSUME NEW d \in Mice, NEW g \in Gestures, UseMouse(d, g) PROVE Ended'
  <2>. DEFINE down == g.button \notin phys[d]
              h == [g EXCEPT !.dx = @ \div Unit, !.dy = @ \div Unit]
  <2>1. UNCHANGED pending /\ (buffer' = [buffer EXCEPT ![d] = @ \o Packet(h, down)]
                               \/ UNCHANGED buffer)
    BY <1>4 DEF UseMouse
  <2>2. g \in Gesture /\ d \in Devices
    BY PathAssumption DEF Devices
  <2>3. g.dx \div Unit \in Int /\ g.dy \div Unit \in Int
    BY <2>2, PixelsType DEF Gesture
  <2>4. h \in Gesture /\ down \in BOOLEAN
    BY <2>2, <2>3 DEF Gesture
  <2>. HIDE DEF h, down
  <2>5. Packet(h, down) \in Seq(RawEvent) /\ buffer[d] \in Seq(RawEvent)
    BY <2>2, <2>4, PacketType, MouseEvents DEF TypeOK
  <2>6. PICK p \in Seq(RawEvent) : Packet(h, down) = p \o <<Raw("SYN", 0, 0)>>
    BY <2>4, PacketType, MouseEvents
  <2>7. Raw("SYN", 0, 0) \in RawEvent /\ Raw("SYN", 0, 0).type = "SYN"
    BY DEF Raw, RawEvent
  <2>8. /\ Packet(h, down) # <<>> /\ buffer[d] \o Packet(h, down) # <<>>
        /\ (buffer[d] \o Packet(h, down))[Len(buffer[d] \o Packet(h, down))].type = "SYN"
    <3>1. PICK e : e = Raw("SYN", 0, 0)
      OBVIOUS
    <3>2. PICK q : q = buffer[d]
      OBVIOUS
    <3>3. PICK r : r = Packet(h, down)
      OBVIOUS
    <3>4. e \in RawEvent /\ e.type = "SYN" /\ q \in Seq(RawEvent)
      BY <2>5, <2>7, <3>1, <3>2
    <3>5. r = p \o <<e>>
      BY <2>6, <3>1, <3>3
    <3>6. /\ p \o <<e>> # <<>>
          /\ (q \o (p \o <<e>>))[Len(q \o (p \o <<e>>))].type = "SYN"
          /\ q \o (p \o <<e>>) # <<>>
      BY <3>4, PacketEnds
    <3>7. r # <<>> /\ (q \o r)[Len(q \o r)].type = "SYN" /\ q \o r # <<>>
      BY <3>5, <3>6
    <3>. QED  BY <3>2, <3>3, <3>7
  <2>. QED  BY <1>1, <1>3, <2>1, <2>2, <2>5, <2>8
<1>5. ASSUME NEW k \in Codes, NEW v \in 0 .. 2, UseKeyboard(k, v) PROVE Ended'
  <2>. DEFINE q == <<Raw("KEY", k, v), Raw("SYN", 0, 0)>>
  <2>1. UNCHANGED pending /\ (buffer' = [buffer EXCEPT ![Keyboard] = @ \o q]
                               \/ UNCHANGED buffer)
    BY <1>5 DEF UseKeyboard
  <2>2. Keyboard \in Devices /\ buffer[Keyboard] \in Seq(RawEvent) /\ k \in Nat
    BY PathAssumption DEF Devices, TypeOK
  <2>3. Raw("KEY", k, v) \in RawEvent /\ Raw("SYN", 0, 0) \in RawEvent
        /\ Raw("SYN", 0, 0).type = "SYN"
    BY <2>2 DEF Raw, RawEvent
  <2>4. q \in Seq(RawEvent) /\ q = <<Raw("KEY", k, v)>> \o <<Raw("SYN", 0, 0)>>
        /\ <<Raw("KEY", k, v)>> \in Seq(RawEvent)
    BY <2>3
  <2>. HIDE DEF q
  <2>5. /\ q # <<>> /\ buffer[Keyboard] \o q # <<>>
        /\ (buffer[Keyboard] \o q)[Len(buffer[Keyboard] \o q)].type = "SYN"
    BY <2>2, <2>3, <2>4, PacketEnds
  <2>. QED  BY <1>1, <1>3, <2>1, <2>2, <2>4, <2>5
<1>6. ASSUME NEW d \in Devices, ReadEvdev(d) PROVE Ended'
  <2>1. buffer[d] # <<>> /\ buffer' = [buffer EXCEPT ![d] = Tail(@)]
    BY <1>6 DEF ReadEvdev
  <2>2. Head(buffer[d]).type # "SYN" \/ pending' = [x |-> 0, y |-> 0]
    BY <1>6 DEF ReadEvdev, EndOfReport
  <2>. QED  BY <1>2, <2>1, <2>2
<1>7. CASE ReadKeyboard
  <2>1. /\ buffer[Keyboard] # <<>> /\ buffer' = [buffer EXCEPT ![Keyboard] = Tail(@)]
        /\ path.capture = "x11" /\ UNCHANGED pending
    BY <1>7 DEF ReadKeyboard
  <2>2. pending' = [x |-> 0, y |-> 0] /\ Keyboard \in Devices
    BY <2>1 DEF Apart, Devices
  <2>. QED  BY <1>2, <2>1, <2>2
<1>8. CASE ReadServer
  BY <1>3, <1>8 DEF ReadServer
<1>9. CASE Receive
  BY <1>3, <1>9 DEF Receive
<1>10. CASE UNCHANGED vars
  BY <1>3, <1>10 DEF vars
<1>. QED  BY <1>4, <1>5, <1>6, <1>7, <1>8, <1>9, <1>10 DEF Next

(* When nothing is under way the two ends of the books meet.               *)
LEMMA QuietBalance ==
    ASSUME Apart, NEW a \in Axes, Balance(a), Quiet, Ended,
           path.capture \in {"evdev", "x11"}, pending \in [x : Int, y : Int],
           replayed[a] \in Int
    PROVE  made[a] = Scale(a) * replayed[a]
<1>1. PICK wired \in Int, served \in Int, T \in Int, p \in Int :
        /\ Leads(Int, WireAdds(a), wire, replayed[a], wired)
        /\ Leads(Int, ServerAdds(a), server, wired, served)
        /\ InBuffers(a, buffer, T)
        /\ PendingIs(a, p)
        /\ made[a] = Scale(a) * (served + T + p)
  BY DEF Balance
<1>2. wire = <<>> /\ server = <<>> /\ \A d \in Devices : buffer[d] = <<>>
  BY DEF Quiet
<1>3. wired = replayed[a] /\ served = wired
  BY <1>1, <1>2, LeadsEmpty
<1>4. T = 0
  BY <1>1, <1>2, BuffersNone
<1>5. p = 0
  <2>1. pending = [x |-> 0, y |-> 0]
    BY <1>2 DEF Ended
  <2>2. a \in {"x", "y"} => Unit * p = 0
    BY <1>1, <2>1 DEF PendingIs
  <2>. QED  BY <1>1, <2>2, PathAssumption DEF PendingIs
<1>6. served + T + p = replayed[a]
  BY <1>3, <1>4, <1>5
<1>. QED  BY <1>1, <1>6

(* The inductive invariant of motion and notches.                          *)
THEOREM Ledger == Spec => [](TypeOK /\ Known /\ Apart /\ Books /\ Ended)
<1>1. Init => TypeOK /\ Known /\ Apart /\ Books /\ Ended
  BY InitType, InitKnown, InitBooks, InitEnded
<1>2. /\ TypeOK /\ Known /\ Apart /\ Books /\ Ended
      /\ [Next]_vars
      => TypeOK' /\ Known' /\ Apart' /\ Books' /\ Ended'
  BY StepType, StepKnown, StepBooks, StepEnded
<1>. QED  BY <1>1, <1>2, PTL DEF Spec

(* All motion of all mice is replayed to the pixel, though next_event adds *)
(* it up in one place, changes between devices and returns buttons and     *)
(* wheels in between (evdev_capture.rs).                                   *)
THEOREM EveryPixelArrives == Spec => []MotionArrives
<1>1. TypeOK /\ Apart /\ Books /\ Ended => MotionArrives
  <2>. SUFFICES ASSUME TypeOK, Apart, Books, Ended, Quiet, path.capture = "evdev",
                       NEW a \in {"x", "y"}
                PROVE  replayed[a] * Unit = made[a]
    BY DEF MotionArrives
  <2>1. a \in Axes /\ replayed[a] \in Int /\ Balance(a) /\ ~over
    BY DEF Axes, TypeOK, Count, Books, Counted, Quiet
  <2>2. made[a] = Scale(a) * replayed[a]
    BY <2>1, QuietBalance DEF TypeOK
  <2>. QED  BY <2>1, <2>2, PathAssumption DEF Scale
<1>. QED  BY <1>1, Ledger, PTL

(* Every notch of every wheel is replayed, in its direction, from each     *)
(* capture to each emulator.                                               *)
THEOREM EveryNotchArrives == Spec => []ScrollArrives
<1>1. TypeOK /\ Apart /\ Books /\ Ended => ScrollArrives
  <2>. SUFFICES ASSUME TypeOK, Apart, Books, Ended, Quiet, NEW a \in {"wheel", "tilt"}
                PROVE  replayed[a] = made[a]
    BY DEF ScrollArrives
  <2>1. a \in Axes /\ replayed[a] \in Int /\ Balance(a)
    BY DEF Axes, TypeOK, Count, Books, Counted, Quiet
  <2>2. path.capture \in {"evdev", "x11"}
    BY PathAssumption DEF TypeOK, Path
  <2>3. made[a] = Scale(a) * replayed[a]
    BY <2>1, <2>2, QuietBalance DEF TypeOK
  <2>. QED  BY <2>1, <2>3 DEF Scale
<1>. QED  BY <1>1, Ledger, PTL

-----------------------------------------------------------------------------
(* Buttons and keys: the chain.                                            *)

(* Up and down as numbers.                                                 *)
Bit(P) == IF P THEN 1 ELSE 0

Bits == {0, 1}

(* What an event says of the button or key c: whether it is down.          *)
RawSays(c) ==
    [e \in RawEvent |-> [s \in Bits |->
        IF e.type = "KEY" /\ e.code = c /\ e.value # 2 THEN Bit(e.value # 0) ELSE s]]

ServerSays(c) ==
    [e \in ServerEvent |-> [s \in Bits |->
        IF \/ e.type = "RawKey" /\ e.detail = c + 8
           \/ e.type = "RawButton" /\ c \in Buttons /\ e.detail = XNumber[c]
           THEN Bit(e.down) ELSE s]]

WireSays(c) ==
    [e \in InputEvent |-> [s \in Bits |->
        IF e.kind \in {"button", "key"} /\ e.code = c THEN Bit(e.down) ELSE s]]

(* What an event says is up or down again.                                 *)
LEMMA SaysType ==
    ASSUME NEW c
    PROVE  /\ RawSays(c) \in [RawEvent -> [Bits -> Bits]]
           /\ ServerSays(c) \in [ServerEvent -> [Bits -> Bits]]
           /\ WireSays(c) \in [InputEvent -> [Bits -> Bits]]
BY DEF RawSays, ServerSays, WireSays, Bit, Bits

(* Events that say nothing of c.                                           *)
Silent(c) == {e \in RawEvent : ~(e.type = "KEY" /\ e.code = c)}

(* Events of the server that say nothing of c.                             *)
SilentX(c) == {e \in ServerEvent : \A s \in Bits : ServerSays(c)[e][s] = s}

(* Events that say nothing leave c as it is.                               *)
LEMMA SilentLeads ==
    ASSUME NEW c, NEW q \in Seq(Silent(c)), NEW s \in Bits
    PROVE  /\ Leads(Bits, RawSays(c), q, s, s)
           /\ \A t : Leads(Bits, RawSays(c), q, s, t) => t = s
<1>1. \A i \in 1 .. Len(q), x \in Bits : RawSays(c)[q[i]][x] = x
  <2>. SUFFICES ASSUME NEW i \in 1 .. Len(q), NEW x \in Bits PROVE RawSays(c)[q[i]][x] = x
    OBVIOUS
  <2>1. q[i] \in Silent(c)
    BY ElementOfSeq
  <2>. QED  BY <2>1 DEF Silent, RawSays
<1>2. Leads(Bits, RawSays(c), q, s, s)
  BY <1>1, LeadsIdle
<1>3. ASSUME NEW t, Leads(Bits, RawSays(c), q, s, t) PROVE t = s
  BY <1>1, <1>3, IdleStays
<1>. QED  BY <1>2, <1>3

(* So do those of the server.                                              *)
LEMMA SilentXLeads ==
    ASSUME NEW c, NEW q \in Seq(SilentX(c)), NEW s \in Bits
    PROVE  /\ Leads(Bits, ServerSays(c), q, s, s)
           /\ \A t : Leads(Bits, ServerSays(c), q, s, t) => t = s
<1>1. \A i \in 1 .. Len(q), x \in Bits : ServerSays(c)[q[i]][x] = x
  <2>. SUFFICES ASSUME NEW i \in 1 .. Len(q), NEW x \in Bits PROVE ServerSays(c)[q[i]][x] = x
    OBVIOUS
  <2>1. q[i] \in SilentX(c)
    BY ElementOfSeq
  <2>. QED  BY <2>1 DEF SilentX
<1>2. Leads(Bits, ServerSays(c), q, s, s)
  BY <1>1, LeadsIdle
<1>3. ASSUME NEW t, Leads(Bits, ServerSays(c), q, s, t) PROVE t = s
  BY <1>1, <1>3, IdleStays
<1>. QED  BY <1>2, <1>3

(* A report says that c is down or up iff c is its button.                 *)
LEMMA PacketSays ==
    ASSUME NEW c, c # 0, NEW g \in Gesture, NEW down \in BOOLEAN, NEW s \in Bits
    PROVE  /\ g.button # c => Packet(g, down) \in Seq(Silent(c))
           /\ g.button = c => Leads(Bits, RawSays(c), Packet(g, down), s, Bit(down))
<1>1. g.dx \in Int /\ g.dy \in Int /\ g.wheel \in Int /\ g.tilt \in Int /\ g.button \in Nat
  BY DEF Gesture, Buttons
<1>. DEFINE key == Raw("KEY", g.button, IF down THEN 1 ELSE 0)
            rx == Raw("REL", REL_X, g.dx)
            ry == Raw("REL", REL_Y, g.dy)
            rw == Raw("REL", REL_WHEEL, g.wheel)
            rt == Raw("REL", REL_HWHEEL, g.tilt)
            syn == Raw("SYN", 0, 0)
<1>2. /\ rx \in Silent(c) /\ ry \in Silent(c) /\ rw \in Silent(c) /\ rt \in Silent(c)
      /\ syn \in Silent(c)
  <2>1. /\ rx \in RawEvent /\ ry \in RawEvent /\ rw \in RawEvent /\ rt \in RawEvent
        /\ syn \in RawEvent
    BY <1>1 DEF Raw, RawEvent, REL_X, REL_Y, REL_WHEEL, REL_HWHEEL
  <2>2. /\ rx.type = "REL" /\ ry.type = "REL" /\ rw.type = "REL" /\ rt.type = "REL"
        /\ syn.type = "SYN"
    BY DEF Raw
  <2>. HIDE DEF rx, ry, rw, rt, syn
  <2>. QED  BY <2>1, <2>2 DEF Silent
<1>3. key \in RawEvent /\ (g.button # c => key \in Silent(c))
  <2>1. key \in RawEvent /\ key.code = g.button
    BY <1>1 DEF Raw, RawEvent
  <2>. HIDE DEF key
  <2>. QED  BY <2>1 DEF Silent
<1>4. ASSUME g.button = c PROVE RawSays(c)[key][s] = Bit(down)
  <2>1. key.type = "KEY" /\ key.code = c /\ key.value = Bit(down)
    BY <1>4 DEF Raw, Bit
  <2>2. key \in RawEvent
    BY <1>3
  <2>3. Bit(Bit(down) # 0) = Bit(down) /\ Bit(down) # 2
    BY DEF Bit
  <2>. HIDE DEF key
  <2>. QED  BY <2>1, <2>2, <2>3 DEF RawSays
<1>. HIDE DEF key, rx, ry, rw, rt, syn
<1>. DEFINE p1 == Unless(0, g.dx, rx)
            p2 == Unless(0, g.dy, ry)
            p3 == Unless(0, g.button, key)
            p4 == Unless(0, g.wheel, rw)
            p5 == Unless(0, g.tilt, rt)
            p6 == <<syn>>
<1>5. /\ p1 \in Seq(Silent(c)) /\ p2 \in Seq(Silent(c)) /\ p4 \in Seq(Silent(c))
      /\ p5 \in Seq(Silent(c)) /\ p6 \in Seq(Silent(c))
  BY <1>2, UnlessType, OneOf
<1>6. g.button # c => p3 \in Seq(Silent(c))
  BY <1>3, UnlessType
<1>7. g.button = c => p3 = <<key>>
  BY DEF Unless
<1>8. Packet(g, down) = p1 \o p2 \o p3 \o p4 \o p5 \o p6
  BY DEF Packet, key, rx, ry, rw, rt, syn
<1>. HIDE DEF p1, p2, p3, p4, p5, p6
<1>9. ASSUME g.button # c PROVE Packet(g, down) \in Seq(Silent(c))
  BY <1>5, <1>6, <1>8, <1>9, ConcatType
<1>10. ASSUME g.button = c PROVE Leads(Bits, RawSays(c), Packet(g, down), s, Bit(down))
  <2>1. Bit(down) \in Bits
    BY DEF Bit, Bits
  <2>2. Leads(Bits, RawSays(c), p3, s, Bit(down)) /\ p3 \in Seq(RawEvent)
    BY <1>3, <1>4, <1>7, <1>10, <2>1, LeadsOne, OneOf
  <2>3. Silent(c) \subseteq RawEvent /\ Seq(Silent(c)) \subseteq Seq(RawEvent)
    BY DEF Silent
  <2>4. /\ p1 \in Seq(RawEvent) /\ p2 \in Seq(RawEvent) /\ p4 \in Seq(RawEvent)
        /\ p5 \in Seq(RawEvent) /\ p6 \in Seq(RawEvent)
    BY <1>5, <2>3
  <2>5. p1 \o p2 \in Seq(RawEvent) /\ Leads(Bits, RawSays(c), p1 \o p2, s, s)
    BY <1>5, <2>4, SilentLeads, ConcatType, LeadsConcat
  <2>6. p1 \o p2 \o p3 \in Seq(RawEvent) /\ Leads(Bits, RawSays(c), p1 \o p2 \o p3, s, Bit(down))
    BY <2>2, <2>5, ConcatType, LeadsConcat
  <2>7. /\ Leads(Bits, RawSays(c), p4, Bit(down), Bit(down))
        /\ Leads(Bits, RawSays(c), p5, Bit(down), Bit(down))
        /\ Leads(Bits, RawSays(c), p6, Bit(down), Bit(down))
    BY <1>5, <2>1, SilentLeads
  <2>8. /\ p1 \o p2 \o p3 \o p4 \in Seq(RawEvent)
        /\ Leads(Bits, RawSays(c), p1 \o p2 \o p3 \o p4, s, Bit(down))
    BY <2>4, <2>6, <2>7, ConcatType, LeadsConcat
  <2>9. /\ p1 \o p2 \o p3 \o p4 \o p5 \in Seq(RawEvent)
        /\ Leads(Bits, RawSays(c), p1 \o p2 \o p3 \o p4 \o p5, s, Bit(down))
    BY <2>4, <2>7, <2>8, ConcatType, LeadsConcat
  <2>10. Leads(Bits, RawSays(c), p1 \o p2 \o p3 \o p4 \o p5 \o p6, s, Bit(down))
    BY <2>4, <2>7, <2>9, LeadsConcat
  <2>. QED  BY <1>8, <2>10
<1>. QED  BY <1>9, <1>10

(* No two buttons have the same number.                                    *)
LEMMA XNumberApart ==
    ASSUME NEW b \in Buttons, NEW c \in Buttons, XNumber[b] = XNumber[c]
    PROVE  b = c
BY DEF XNumber, Buttons

(* The wheels say nothing of any button.                                   *)
LEMMA ClicksSilent ==
    ASSUME NEW c \in Nat, NEW n \in Int, NEW back \in 4 .. 7, NEW forth \in 4 .. 7
    PROVE  Clicks(n, back, forth) \in Seq(SilentX(c))
<1>. DEFINE click(i) == [type |-> "RawButton", detail |-> IF n < 0 THEN back ELSE forth,
                         down |-> i % 2 = 1]
<1>1. 2 * Size(n) \in Nat
  BY DEF Size
<1>2. ASSUME NEW i \in 1 .. 2 * Size(n) PROVE click(i) \in SilentX(c)
  <2>1. click(i) \in ServerEvent
    BY DEF ServerEvent
  <2>2. c \in Buttons => XNumber[c] \in {1, 2, 3, 8, 9}
    BY XNumberType
  <2>3. click(i).type = "RawButton" /\ click(i).detail \in 4 .. 7
    OBVIOUS
  <2>. HIDE DEF click
  <2>. QED  BY <2>1, <2>2, <2>3 DEF SilentX, ServerSays
<1>3. [i \in 1 .. 2 * Size(n) |-> click(i)] \in Seq(SilentX(c))
  BY <1>1, <1>2, IsASeq
<1>. QED  BY <1>3 DEF Clicks

(* A gesture on the server says that c is down or up iff c is its button.  *)
LEMMA XEventsSays ==
    ASSUME NEW c \in Nat \ {0}, NEW g \in Gesture, NEW down \in BOOLEAN, NEW s \in Bits
    PROVE  /\ g.button # c => XEvents(g, down) \in Seq(SilentX(c))
           /\ g.button = c => Leads(Bits, ServerSays(c), XEvents(g, down), s, Bit(down))
<1>1. /\ g.dx \in Int /\ g.dy \in Int /\ g.wheel \in Int /\ g.tilt \in Int
      /\ g.button \in Buttons \cup {0}
  BY DEF Gesture
<1>. DEFINE motion == [type |-> "RawMotion", dx |-> g.dx, dy |-> g.dy]
            click == [type |-> "RawButton",
                      detail |-> IF g.button = 0 THEN 0 ELSE XNumber[g.button], down |-> down]
            p1 == Unless(<<0, 0>>, <<g.dx, g.dy>>, motion)
            p2 == Unless(0, g.button, click)
            p3 == Clicks(g.wheel, 5, 4)
            p4 == Clicks(g.tilt, 6, 7)
<1>2. motion \in SilentX(c)
  BY <1>1 DEF ServerEvent, ServerSays, SilentX
<1>3. ASSUME g.button # 0
      PROVE  /\ click \in ServerEvent /\ (g.button # c => click \in SilentX(c))
             /\ g.button = c => ServerSays(c)[click][s] = Bit(down)
  <2>1. XNumber[g.button] \in {1, 2, 3, 8, 9} /\ g.button \in Buttons
    BY <1>1, <1>3, XNumberType
  <2>2. click \in ServerEvent
    BY <1>3, <2>1 DEF ServerEvent
  <2>3. click.type = "RawButton" /\ click.detail = XNumber[g.button] /\ click.down = down
    BY <1>3
  <2>. HIDE DEF click
  <2>4. g.button # c => click \in SilentX(c)
    BY <2>1, <2>2, <2>3, XNumberApart DEF SilentX, ServerSays
  <2>5. g.button = c => ServerSays(c)[click][s] = Bit(down)
    BY <2>1, <2>2, <2>3 DEF ServerSays
  <2>. QED  BY <2>2, <2>4, <2>5
<1>4. p1 \in Seq(SilentX(c))
  <2>. HIDE DEF motion
  <2>. QED  BY <1>2, UnlessType
<1>5. p3 \in Seq(SilentX(c)) /\ p4 \in Seq(SilentX(c))
  <2>1. 4 \in 4 .. 7 /\ 5 \in 4 .. 7 /\ 6 \in 4 .. 7 /\ 7 \in 4 .. 7
    OBVIOUS
  <2>2. p3 \in Seq(SilentX(c))
    BY <1>1, <2>1, ClicksSilent
  <2>3. p4 \in Seq(SilentX(c))
    BY <1>1, <2>1, ClicksSilent
  <2>. QED  BY <2>2, <2>3
<1>6. XEvents(g, down) = p1 \o p2 \o p3 \o p4
  BY DEF XEvents
<1>. HIDE DEF click, p1, p3, p4
<1>7. g.button # c => p2 \in Seq(SilentX(c))
  BY <1>3, UnlessType
<1>8. g.button = c => p2 = <<click>>
  BY DEF Unless
<1>. HIDE DEF p2
<1>9. ASSUME g.button # c PROVE XEvents(g, down) \in Seq(SilentX(c))
  BY <1>4, <1>5, <1>6, <1>7, <1>9, ConcatType
<1>10. ASSUME g.button = c PROVE Leads(Bits, ServerSays(c), XEvents(g, down), s, Bit(down))
  <2>1. Bit(down) \in Bits
    BY DEF Bit, Bits
  <2>2. click \in ServerEvent /\ ServerSays(c)[click][s] = Bit(down)
    BY <1>3, <1>10
  <2>3. Leads(Bits, ServerSays(c), p2, s, Bit(down)) /\ p2 \in Seq(ServerEvent)
    BY <1>8, <1>10, <2>1, <2>2, LeadsOne, OneOf
  <2>4. Seq(SilentX(c)) \subseteq Seq(ServerEvent)
    BY DEF SilentX
  <2>5. p1 \in Seq(ServerEvent) /\ p3 \in Seq(ServerEvent) /\ p4 \in Seq(ServerEvent)
    BY <1>4, <1>5, <2>4
  <2>6. p1 \o p2 \in Seq(ServerEvent) /\ Leads(Bits, ServerSays(c), p1 \o p2, s, Bit(down))
    BY <1>4, <2>3, <2>5, SilentXLeads, ConcatType, LeadsConcat
  <2>7. /\ p1 \o p2 \o p3 \in Seq(ServerEvent)
        /\ Leads(Bits, ServerSays(c), p1 \o p2 \o p3, s, Bit(down))
    BY <1>5, <2>1, <2>5, <2>6, SilentXLeads, ConcatType, LeadsConcat
  <2>8. Leads(Bits, ServerSays(c), p1 \o p2 \o p3 \o p4, s, Bit(down))
    BY <1>5, <2>1, <2>5, <2>7, SilentXLeads, LeadsConcat
  <2>. QED  BY <1>6, <2>8
<1>. QED  BY <1>9, <1>10

(* No device but o has c down or has anything to say of it.                *)
Others(c, o) == \A e \in Devices \ {o} : c \notin phys[e] /\ buffer[e] \in Seq(Silent(c))

(* The chain of c, whose owner is the device o: from the emulated device   *)
(* over the wire to s, over the queue of the server to t, over the buffer  *)
(* of the owner to what the owner has down.                                *)
Link(c, o, s, t) ==
    /\ Leads(Bits, WireSays(c), wire, Bit(c \in held), s)
    /\ Leads(Bits, ServerSays(c), server, s, t)
    /\ Leads(Bits, RawSays(c), buffer[o], t, Bit(c \in phys[o]))
    /\ Others(c, o)

(* Some device owns c.                                                     *)
Chain(c) == \E o \in Devices, s \in Bits, t \in Bits : Link(c, o, s, t)

(* XTest replays the keys with codes 1 to 247 as themselves.               *)
Worn == path.emulate = "xtest" => typed \subseteq 1 .. 247

(* The chain of every button and key that can be replayed holds until the  *)
(* edge is hit, and no other is down over there.                           *)
Keys == ~over /\ Worn => held \subseteq Registered /\ \A c \in Registered : Chain(c)

(* At the start everything is up.                                          *)
LEMMA InitKeys == Init => Keys
<1>. SUFFICES ASSUME Init, NEW c \in Registered PROVE Chain(c)
  BY DEF Keys, Init, Start
<1>1. /\ \A d \in Devices : buffer[d] = <<>> /\ phys[d] = {}
      /\ server = <<>> /\ wire = <<>> /\ held = {} /\ Keyboard \in Devices
  BY DEF Init, Start, Devices
<1>2. 0 \in Bits /\ Bit(FALSE) = 0
  BY DEF Bits, Bit
<1>3. /\ Leads(Bits, WireSays(c), <<>>, 0, 0) /\ Leads(Bits, ServerSays(c), <<>>, 0, 0)
      /\ Leads(Bits, RawSays(c), <<>>, 0, 0)
  BY <1>2, LeadsEmpty
<1>4. Bit(c \in held) = 0 /\ Bit(c \in phys[Keyboard]) = 0
  BY <1>1 DEF Bit
<1>5. Others(c, Keyboard)
  <2>1. <<>> \in Seq(Silent(c))
    OBVIOUS
  <2>. QED  BY <1>1, <2>1 DEF Others
<1>6. Link(c, Keyboard, 0, 0)
  BY <1>1, <1>3, <1>4, <1>5 DEF Link
<1>. QED  BY <1>1, <1>2, <1>6 DEF Chain

(* Up and down are numbers.                                                *)
LEMMA BitType == \A P : Bit(P) \in Bits
BY DEF Bit, Bits

(* A device that nobody shares c with may be taken for its owner.          *)
LEMMA TakesOver ==
    ASSUME TypeOK, NEW c, Chain(c), NEW d \in Devices, Others(c, d)
    PROVE  \E s \in Bits, t \in Bits : Link(c, d, s, t)
<1>1. PICK o \in Devices, s \in Bits, t \in Bits : Link(c, o, s, t)
  BY DEF Chain
<1>2. CASE o = d
  BY <1>1, <1>2
<1>3. CASE o # d
  <2>1. /\ c \notin phys[o] /\ buffer[o] \in Seq(Silent(c))
        /\ c \notin phys[d] /\ buffer[d] \in Seq(Silent(c))
    BY <1>1, <1>3 DEF Link, Others
  <2>2. Bit(c \in phys[o]) = 0 /\ Bit(c \in phys[d]) = 0
    BY <2>1 DEF Bit
  <2>3. Leads(Bits, RawSays(c), buffer[o], t, 0)
    BY <1>1, <2>2 DEF Link
  <2>4. t = 0
    BY <2>1, <2>3, SilentLeads
  <2>5. Leads(Bits, RawSays(c), buffer[d], t, Bit(c \in phys[d]))
    BY <2>1, <2>2, <2>4, SilentLeads
  <2>6. Link(c, d, s, t)
    BY <1>1, <2>5 DEF Link
  <2>. QED  BY <2>6
<1>. QED  BY <1>2, <1>3

(* A queue that says nothing of c is a queue.                              *)
LEMMA SilentPart == ASSUME NEW c PROVE Seq(Silent(c)) \subseteq Seq(RawEvent)
BY DEF Silent

(* What Free asks of a device.                                             *)
LEMMA FreeOthers ==
    ASSUME TypeOK, NEW d, NEW k, Free(d, k)
    PROVE  Others(k, d)
<1>. SUFFICES ASSUME NEW e \in Devices \ {d}
              PROVE  k \notin phys[e] /\ buffer[e] \in Seq(Silent(k))
  BY DEF Others
<1>1. k \notin phys[e] /\ \A i \in 1 .. Len(buffer[e]) : buffer[e][i].code # k
  BY DEF Free
<1>2. buffer[e] \in Seq(RawEvent)
  BY DEF TypeOK
<1>3. \A i \in 1 .. Len(buffer[e]) : buffer[e][i] \in Silent(k)
  BY <1>1, <1>2, ElementOfSeq DEF Silent
<1>4. Len(buffer[e]) \in Nat /\ buffer[e] = [i \in 1 .. Len(buffer[e]) |-> buffer[e][i]]
  BY <1>2, LenProperties
<1>5. [i \in 1 .. Len(buffer[e]) |-> buffer[e][i]] \in Seq(Silent(k))
  BY <1>3, <1>4, IsASeq
<1>. QED  BY <1>1, <1>4, <1>5

(* What is used is not c.                                                  *)
LEMMA Unheard ==
    ASSUME TypeOK, NEW c, Chain(c), UNCHANGED <<wire, held>>,
           \A e \in Devices : c \in phys'[e] <=> c \in phys[e],
           \/ /\ UNCHANGED server
              /\ \E d \in Devices, p \in Seq(Silent(c)) : buffer' = [buffer EXCEPT ![d] = @ \o p]
           \/ /\ UNCHANGED buffer
              /\ \E p \in Seq(SilentX(c)) : server' = server \o p
    PROVE  Chain(c)'
<1>1. PICK o \in Devices, s \in Bits, t \in Bits : Link(c, o, s, t)
  BY DEF Chain
<1>2. Bit(c \in phys'[o]) = Bit(c \in phys[o]) /\ Bit(c \in held') = Bit(c \in held)
  BY DEF Bit
<1>3. Leads(Bits, WireSays(c), wire', Bit(c \in held'), s)
  BY <1>1, <1>2 DEF Link
<1>4. ASSUME UNCHANGED server, NEW d \in Devices, NEW p \in Seq(Silent(c)),
             buffer' = [buffer EXCEPT ![d] = @ \o p]
      PROVE  Link(c, o, s, t)'
  <2>1. buffer'[d] = buffer[d] \o p /\ \A e \in Devices \ {d} : buffer'[e] = buffer[e]
    BY <1>4 DEF TypeOK
  <2>2. Leads(Bits, RawSays(c), p, Bit(c \in phys[o]), Bit(c \in phys[o]))
    BY SilentLeads, BitType
  <2>3. p \in Seq(RawEvent) /\ buffer[o] \in Seq(RawEvent)
    BY SilentPart DEF TypeOK
  <2>4. Leads(Bits, RawSays(c), buffer[o] \o p, t, Bit(c \in phys[o]))
    BY <1>1, <2>2, <2>3, LeadsConcat DEF Link
  <2>5. Leads(Bits, RawSays(c), buffer'[o], t, Bit(c \in phys'[o]))
    BY <1>1, <1>2, <2>1, <2>4 DEF Link
  <2>6. Others(c, o)'
    <3>1. \A q \in Seq(Silent(c)) : q \o p \in Seq(Silent(c))
      BY ConcatType
    <3>. QED  BY <1>1, <2>1, <3>1 DEF Link, Others
  <2>. QED  BY <1>1, <1>3, <1>4, <2>5, <2>6 DEF Link
<1>5. ASSUME UNCHANGED buffer, NEW p \in Seq(SilentX(c)), server' = server \o p
      PROVE  Link(c, o, s, t)'
  <2>1. Leads(Bits, ServerSays(c), p, t, t)
    BY SilentXLeads
  <2>2. p \in Seq(ServerEvent) /\ server \in Seq(ServerEvent)
    BY DEF SilentX, TypeOK
  <2>3. Leads(Bits, ServerSays(c), server \o p, s, t)
    BY <1>1, <2>1, <2>2, LeadsConcat DEF Link
  <2>4. Others(c, o)'
    BY <1>1, <1>5 DEF Link, Others
  <2>. QED  BY <1>1, <1>2, <1>3, <1>5, <2>3, <2>4 DEF Link
<1>. QED  BY <1>4, <1>5 DEF Chain

(* What is used is c, on a device nobody shares it with.                   *)
LEMMA Heard ==
    ASSUME TypeOK, NEW c, Chain(c), UNCHANGED <<wire, held>>,
           NEW d \in Devices, Others(c, d), \A e \in Devices \ {d} : phys'[e] = phys[e],
           \/ /\ UNCHANGED server
              /\ \E p \in Seq(RawEvent) :
                    /\ buffer' = [buffer EXCEPT ![d] = @ \o p]
                    /\ Leads(Bits, RawSays(c), p, Bit(c \in phys[d]), Bit(c \in phys'[d]))
           \/ /\ UNCHANGED buffer /\ buffer[d] = <<>>
              /\ \E p \in Seq(ServerEvent) :
                    /\ server' = server \o p
                    /\ Leads(Bits, ServerSays(c), p, Bit(c \in phys[d]), Bit(c \in phys'[d]))
    PROVE  Chain(c)'
<1>1. PICK s \in Bits, t \in Bits : Link(c, d, s, t)
  BY TakesOver
<1>2. Leads(Bits, WireSays(c), wire', Bit(c \in held)', s)
  BY <1>1 DEF Link
<1>3. ASSUME UNCHANGED server, NEW p \in Seq(RawEvent),
             buffer' = [buffer EXCEPT ![d] = @ \o p],
             Leads(Bits, RawSays(c), p, Bit(c \in phys[d]), Bit(c \in phys'[d]))
      PROVE  Link(c, d, s, t)'
  <2>1. buffer'[d] = buffer[d] \o p /\ \A e \in Devices \ {d} : buffer'[e] = buffer[e]
    BY <1>3 DEF TypeOK
  <2>2. Leads(Bits, RawSays(c), buffer[d] \o p, t, Bit(c \in phys'[d]))
    BY <1>1, <1>3, LeadsConcat DEF Link, TypeOK
  <2>3. Others(c, d)'
    BY <1>1, <2>1 DEF Link, Others
  <2>. QED  BY <1>1, <1>2, <1>3, <2>1, <2>2, <2>3 DEF Link
<1>0. PICK u \in Bits : u = Bit(c \in phys'[d])
  BY BitType
<1>4. ASSUME UNCHANGED buffer, buffer[d] = <<>>, NEW p \in Seq(ServerEvent),
             server' = server \o p,
             Leads(Bits, ServerSays(c), p, Bit(c \in phys[d]), u)
      PROVE  Link(c, d, s, u)'
  <2>1. t = Bit(c \in phys[d])
    <3>1. Leads(Bits, RawSays(c), <<>>, t, Bit(c \in phys[d]))
      BY <1>1, <1>4 DEF Link
    <3>. QED  BY <3>1, LeadsEmpty
  <2>2. Leads(Bits, ServerSays(c), server \o p, s, u)
    <3>1. /\ Leads(Bits, ServerSays(c), server, s, t) /\ server \in Seq(ServerEvent)
          /\ Leads(Bits, ServerSays(c), p, t, u)
      BY <1>1, <1>4, <2>1 DEF Link, TypeOK
    <3>. QED  BY <3>1, LeadsConcat
  <2>3. Leads(Bits, RawSays(c), buffer'[d], u, Bit(c \in phys'[d]))
    BY <1>0, <1>4, LeadsEmpty
  <2>4. Others(c, d)'
    BY <1>1, <1>4 DEF Link, Others
  <2>. QED  BY <1>2, <1>4, <2>2, <2>3, <2>4 DEF Link
<1>. QED  BY <1>0, <1>3, <1>4 DEF Chain

(* What is put on the wire says the same of c.                             *)
PutOnWire(c, says) ==
    \/ UNCHANGED wire /\ \A s \in Bits : says[s] = s
    \/ \E ev \in InputEvent : /\ wire' = Append(wire, ev)
                              /\ \A s \in Bits : WireSays(c)[ev][s] = says[s]

(* The wire then leads on to it.                                           *)
LEMMA WireLeads ==
    ASSUME TypeOK, NEW c, NEW says, PutOnWire(c, says), UNCHANGED held,
           NEW s \in Bits, Leads(Bits, WireSays(c), wire, Bit(c \in held), s)
    PROVE  Leads(Bits, WireSays(c), wire', Bit(c \in held'), says[s])
<1>1. CASE UNCHANGED wire /\ \A x \in Bits : says[x] = x
  BY <1>1
<1>2. ASSUME NEW ev \in InputEvent, wire' = Append(wire, ev),
             \A x \in Bits : WireSays(c)[ev][x] = says[x]
      PROVE  Leads(Bits, WireSays(c), wire', Bit(c \in held'), says[s])
  <2>1. wire \in Seq(InputEvent) /\ WireSays(c) \in [InputEvent -> [Bits -> Bits]]
    BY SaysType DEF TypeOK
  <2>2. Leads(Bits, WireSays(c), Append(wire, ev), Bit(c \in held), WireSays(c)[ev][s])
    BY <2>1, LeadsAppend
  <2>. QED  BY <1>2, <2>2
<1>. QED  BY <1>1, <1>2 DEF PutOnWire

(* An event that a reader takes from a device: it puts on the wire what    *)
(* the event says.                                                         *)
LEMMA ReadRelayed ==
    ASSUME TypeOK, NEW c, Chain(c), UNCHANGED <<server, phys, held>>,
           NEW d \in Devices, buffer[d] # <<>>, buffer' = [buffer EXCEPT ![d] = Tail(@)],
           NEW raw, raw = Head(buffer[d]),
           \/ server \in Seq(SilentX(c))
           \/ \A s \in Bits : RawSays(c)[raw][s] = s,
           PutOnWire(c, RawSays(c)[raw])
    PROVE  Chain(c)'
<1>1. PICK o \in Devices, s \in Bits, t \in Bits : Link(c, o, s, t)
  BY DEF Chain
<1>2. /\ buffer'[d] = Tail(buffer[d]) /\ \A e \in Devices \ {d} : buffer'[e] = buffer[e]
      /\ buffer[d] \in Seq(RawEvent) /\ raw \in RawEvent
      /\ RawSays(c) \in [RawEvent -> [Bits -> Bits]]
  BY HeadTailProperties, SaysType DEF TypeOK
<1>3. Leads(Bits, WireSays(c), wire', Bit(c \in held'), RawSays(c)[raw][s])
  BY <1>1, WireLeads DEF Link
<1>4. Others(c, o)'
  <2>1. \A q \in Seq(Silent(c)) : q # <<>> => Tail(q) \in Seq(Silent(c))
    BY HeadTailProperties
  <2>. QED  BY <1>1, <1>2, <2>1 DEF Link, Others
<1>5. CASE d # o
  <2>1. buffer[d] \in Seq(Silent(c))
    BY <1>1, <1>5 DEF Link, Others
  <2>2. raw \in Silent(c)
    BY <2>1, HeadTailProperties
  <2>3. RawSays(c)[raw][s] = s
    BY <1>2, <2>2 DEF RawSays, Silent
  <2>4. Link(c, o, s, t)'
    BY <1>1, <1>2, <1>3, <1>4, <1>5, <2>3 DEF Link
  <2>. QED  BY <2>4 DEF Chain
<1>6. CASE d = o
  <2>. DEFINE u == RawSays(c)[raw][t]
  <2>1. u \in Bits
    BY <1>2
  <2>2. Leads(Bits, RawSays(c), buffer'[o], u, Bit(c \in phys'[o]))
    <3>1. Leads(Bits, RawSays(c), Tail(buffer[d]), u, Bit(c \in phys[d]))
      BY <1>1, <1>2, <1>6, LeadsTail DEF Link
    <3>. QED  BY <1>2, <1>6, <3>1
  <2>3. CASE server \in Seq(SilentX(c))
    <3>1. t = s
      BY <1>1, <2>3, SilentXLeads DEF Link
    <3>2. Leads(Bits, ServerSays(c), server', u, u)
      BY <2>1, <2>3, SilentXLeads
    <3>. HIDE DEF u
    <3>3. Leads(Bits, WireSays(c), wire', Bit(c \in held'), u)
      BY <1>3, <3>1 DEF u
    <3>4. Link(c, o, u, u)'
      BY <1>4, <2>2, <3>2, <3>3 DEF Link
    <3>. QED  BY <2>1, <3>4 DEF Chain
  <2>4. CASE \A x \in Bits : RawSays(c)[raw][x] = x
    <3>1. u = t /\ RawSays(c)[raw][s] = s
      BY <2>4
    <3>. HIDE DEF u
    <3>2. Link(c, o, s, t)'
      BY <1>1, <1>3, <1>4, <2>2, <3>1 DEF Link
    <3>. QED  BY <3>2 DEF Chain
  <2>. QED  BY <2>3, <2>4
<1>. QED  BY <1>5, <1>6

(* An event that is taken from the queue of the server.                    *)
LEMMA ServerRelayed ==
    ASSUME TypeOK, NEW c, Chain(c), UNCHANGED <<buffer, phys, held>>,
           server # <<>>, server' = Tail(server), NEW head, head = Head(server),
           PutOnWire(c, ServerSays(c)[head])
    PROVE  Chain(c)'
<1>1. PICK o \in Devices, s \in Bits, t \in Bits : Link(c, o, s, t)
  BY DEF Chain
<1>2. /\ server \in Seq(ServerEvent) /\ head \in ServerEvent
      /\ ServerSays(c) \in [ServerEvent -> [Bits -> Bits]]
  BY HeadTailProperties, SaysType DEF TypeOK
<1>. DEFINE u == ServerSays(c)[head][s]
<1>3. u \in Bits
  BY <1>2
<1>4. Leads(Bits, ServerSays(c), server', u, t)
  BY <1>1, <1>2, LeadsTail DEF Link
<1>5. Leads(Bits, WireSays(c), wire', Bit(c \in held'), u)
  BY <1>1, WireLeads DEF Link
<1>. HIDE DEF u
<1>6. Link(c, o, u, t)'
  BY <1>1, <1>4, <1>5 DEF Link, Others
<1>. QED  BY <1>3, <1>6 DEF Chain

(* The codes that a uinput device registers.                               *)
LEMMA RegisteredNat == Registered \subseteq Nat \ {0} /\ Buttons \subseteq Registered
BY DEF Registered, Buttons

(* A mouse takes over the button it presses from a device that has let go  *)
(* of it, and has been read to the last of it.                             *)
LEMMA UseMouseKeys ==
    ASSUME TypeOK, Apart, NEW c \in Registered, Chain(c),
           NEW d \in Mice, NEW g \in Gestures, UseMouse(d, g)
    PROVE  Chain(c)'
<1>. DEFINE down == g.button \notin phys[d]
            h == [g EXCEPT !.dx = @ \div Unit, !.dy = @ \div Unit]
<1>1. /\ UNCHANGED <<wire, held>>
      /\ phys' = IF g.button = 0 THEN phys ELSE Toggled(d, g.button)
      /\ g.button # 0 => Free(d, g.button)
      /\ \/ /\ path.capture = "evdev"
            /\ buffer' = [buffer EXCEPT ![d] = @ \o Packet(h, down)]
            /\ UNCHANGED server
         \/ /\ path.capture = "x11"
            /\ server' = server \o XEvents(g, down)
            /\ UNCHANGED buffer
  BY DEF UseMouse, replayVars
<1>2. d \in Devices /\ g \in Gesture /\ c \in Nat \ {0}
  BY PathAssumption, RegisteredNat DEF Devices
<1>3. h \in Gesture /\ h.button = g.button
  <2>1. g.dx \div Unit \in Int /\ g.dy \div Unit \in Int
    BY <1>2, PixelsType DEF Gesture
  <2>. QED  BY <1>2, <2>1 DEF Gesture
<1>4. phys \in [Devices -> SUBSET (Codes \cup Buttons)]
  BY DEF TypeOK
<1>5. down \in BOOLEAN
  OBVIOUS
<1>. HIDE DEF h
<1>6. CASE g.button # c
  <2>1. \A e \in Devices : c \in phys'[e] <=> c \in phys[e]
    BY <1>1, <1>2, <1>4, <1>6 DEF Toggled
  <2>2. Packet(h, down) \in Seq(Silent(c)) /\ XEvents(g, down) \in Seq(SilentX(c))
    <3>1. 0 \in Bits
      BY DEF Bits
    <3>. HIDE DEF down
    <3>. QED  BY <1>2, <1>3, <1>5, <1>6, <3>1, PacketSays, XEventsSays
  <2>. HIDE DEF down
  <2>. QED  BY <1>1, <1>2, <2>1, <2>2, Unheard
<1>7. CASE g.button = c
  <2>1. Free(d, c) /\ phys' = Toggled(d, c)
    BY <1>1, <1>2, <1>7
  <2>2. Others(c, d)
    BY <2>1, FreeOthers
  <2>3. /\ \A e \in Devices \ {d} : phys'[e] = phys[e]
        /\ (c \in phys'[d]) <=> c \notin phys[d]
    BY <1>2, <1>4, <2>1 DEF Toggled
  <2>4. Bit(c \in phys'[d]) = Bit(down)
    BY <1>7, <2>3 DEF Bit
  <2>5. Bit(c \in phys[d]) \in Bits
    BY BitType
  <2>6. /\ Leads(Bits, RawSays(c), Packet(h, down), Bit(c \in phys[d]), Bit(down))
        /\ Leads(Bits, ServerSays(c), XEvents(g, down), Bit(c \in phys[d]), Bit(down))
    <3>1. PICK s \in Bits : s = Bit(c \in phys[d])
      BY <2>5
    <3>. HIDE DEF down
    <3>. QED  BY <1>2, <1>3, <1>5, <1>7, <3>1, PacketSays, XEventsSays
  <2>7. Packet(h, down) \in Seq(RawEvent) /\ XEvents(g, down) \in Seq(ServerEvent)
    <3>. HIDE DEF down
    <3>. QED  BY <1>2, <1>3, <1>5, PacketType, XEventsType, MouseEvents
  <2>8. path.capture = "x11" => buffer[d] = <<>>
    BY DEF Apart
  <2>. HIDE DEF down
  <2>. QED  BY <1>1, <1>2, <2>2, <2>3, <2>4, <2>6, <2>7, <2>8, Heard
<1>. QED  BY <1>6, <1>7

(* No mouse has keys.                                                      *)
LEMMA KeyboardOthers ==
    ASSUME TypeOK, Known, NEW k, k \notin Buttons
    PROVE  Others(k, Keyboard)
<1>1. \A d \in Mice : buffer[d] \in Seq(MouseRaw) /\ phys[d] \subseteq Buttons
  BY DEF Known
<1>2. MouseRaw \subseteq Silent(k)
  BY DEF MouseRaw, Silent
<1>3. Seq(MouseRaw) \subseteq Seq(Silent(k))
  BY <1>2
<1>. QED  BY <1>1, <1>3 DEF Others, Devices

(* A key goes down, goes up or repeats.                                    *)
LEMMA UseKeyboardKeys ==
    ASSUME TypeOK, Known, Apart, NEW c \in Registered, Chain(c),
           NEW k \in Codes, NEW v \in 0 .. 2, UseKeyboard(k, v)
    PROVE  Chain(c)'
<1>. DEFINE down == k \in phys[Keyboard]
            q == <<Raw("KEY", k, v), Raw("SYN", 0, 0)>>
            x == [type |-> "RawKey", detail |-> k + 8, down |-> v = 1]
<1>1. /\ UNCHANGED <<wire, held>>
      /\ v = 0 <=> (down /\ v # 2)
      /\ v = 2 => down /\ ~ViaServer
      /\ phys' = IF v = 2 THEN phys ELSE Toggled(Keyboard, k)
      /\ \/ /\ ~ViaServer /\ buffer' = [buffer EXCEPT ![Keyboard] = @ \o q]
            /\ UNCHANGED server
         \/ ViaServer /\ server' = Append(server, x) /\ UNCHANGED buffer
  BY DEF UseKeyboard, replayVars
<1>2. Keyboard \in Devices /\ k \in Nat /\ k \notin Buttons /\ c \in Nat \ {0}
  BY PathAssumption, RegisteredNat DEF Devices
<1>3. phys \in [Devices -> SUBSET (Codes \cup Buttons)] /\ server \in Seq(ServerEvent)
  BY DEF TypeOK
<1>4. /\ Raw("KEY", k, v) \in RawEvent /\ Raw("SYN", 0, 0) \in Silent(c)
      /\ Raw("SYN", 0, 0) \in RawEvent /\ (c # k => Raw("KEY", k, v) \in Silent(c))
  <2>1. /\ Raw("KEY", k, v) \in RawEvent /\ Raw("SYN", 0, 0) \in RawEvent
        /\ Raw("KEY", k, v).code = k /\ Raw("SYN", 0, 0).type = "SYN"
    BY <1>2 DEF Raw, RawEvent
  <2>. QED  BY <2>1 DEF Silent
<1>5. x \in ServerEvent /\ Append(server, x) = server \o <<x>>
  <2>1. k + 8 \in Nat \ (0 .. 7)
    BY <1>2
  <2>2. x \in ServerEvent
    BY <2>1 DEF ServerEvent
  <2>. HIDE DEF x
  <2>. QED  BY <1>3, <2>2, AppendIsConcat
<1>6. CASE c # k
  <2>1. \A e \in Devices : c \in phys'[e] <=> c \in phys[e]
    BY <1>1, <1>2, <1>3, <1>6 DEF Toggled
  <2>2. q \in Seq(Silent(c))
    BY <1>4, <1>6
  <2>3. <<x>> \in Seq(SilentX(c))
    <3>1. x.type = "RawKey" /\ x.detail = k + 8
      OBVIOUS
    <3>. HIDE DEF x
    <3>2. x \in SilentX(c)
      BY <1>2, <1>5, <1>6, <3>1 DEF SilentX, ServerSays
    <3>. QED  BY <3>2, OneOf
  <2>. HIDE DEF q, x, down
  <2>. QED  BY <1>1, <1>2, <1>5, <2>1, <2>2, <2>3, Unheard
<1>7. CASE c = k
  <2>1. Others(c, Keyboard)
    BY <1>2, <1>7, KeyboardOthers
  <2>2. \A e \in Devices \ {Keyboard} : phys'[e] = phys[e]
    BY <1>1, <1>2, <1>3 DEF Toggled
  <2>3. /\ v = 2 => c \in phys[Keyboard] /\ phys'[Keyboard] = phys[Keyboard]
        /\ v # 2 => (v = 1 <=> c \in phys'[Keyboard])
        /\ v = 0 \/ v = 1 \/ v = 2
    BY <1>1, <1>2, <1>3, <1>7 DEF Toggled
  <2>4. PICK s \in Bits : s = Bit(c \in phys[Keyboard])
    BY BitType
  <2>5. PICK t \in Bits : t = Bit(c \in phys'[Keyboard])
    BY BitType
  <2>6. Leads(Bits, RawSays(c), q, s, t) /\ q \in Seq(RawEvent)
    <3>. DEFINE key == Raw("KEY", k, v)
                syn == Raw("SYN", 0, 0)
    <3>1. RawSays(c)[key][s] = t
      <4>1. key.type = "KEY" /\ key.code = c /\ key.value = v /\ key \in RawEvent
        BY <1>4, <1>7 DEF Raw
      <4>2. RawSays(c)[key][s] = IF v # 2 THEN Bit(v # 0) ELSE s
        BY <4>1 DEF RawSays
      <4>3. v # 2 => Bit(v # 0) = t
        BY <2>3, <2>5 DEF Bit
      <4>4. v = 2 => s = t
        BY <2>3, <2>4, <2>5
      <4>. QED  BY <4>2, <4>3, <4>4
    <3>. HIDE DEF key, syn
    <3>2. Leads(Bits, RawSays(c), <<key>>, s, t) /\ <<key>> \in Seq(RawEvent)
      BY <1>4, <3>1, LeadsOne, OneOf DEF key
    <3>3. <<syn>> \in Seq(Silent(c)) /\ <<syn>> \in Seq(RawEvent)
      BY <1>4, OneOf DEF syn
    <3>4. Leads(Bits, RawSays(c), <<syn>>, t, t)
      BY <3>3, SilentLeads
    <3>5. /\ Leads(Bits, RawSays(c), <<key>> \o <<syn>>, s, t)
          /\ <<key>> \o <<syn>> \in Seq(RawEvent)
      BY <3>2, <3>3, <3>4, LeadsConcat, ConcatType
    <3>6. q = <<key>> \o <<syn>>
      BY DEF key, syn
    <3>. QED  BY <3>5, <3>6
  <2>7. ViaServer => Leads(Bits, ServerSays(c), <<x>>, s, t)
    <3>1. x.type = "RawKey" /\ x.detail = c + 8 /\ x.down = (v = 1) /\ x \in ServerEvent
      BY <1>5, <1>7
    <3>. HIDE DEF x
    <3>2. ServerSays(c)[x][s] = Bit(v = 1)
      BY <3>1 DEF ServerSays
    <3>3. ViaServer => Bit(v = 1) = t
      BY <1>1, <2>3, <2>5 DEF Bit
    <3>. QED  BY <3>2, <3>3, LeadsOne
  <2>8. ViaServer => buffer[Keyboard] = <<>>
    BY DEF Apart
  <2>9. <<x>> \in Seq(ServerEvent)
    BY <1>5
  <2>. HIDE DEF q, x, down
  <2>. QED  BY <1>1, <1>2, <1>5, <2>1, <2>2, <2>4, <2>5, <2>6, <2>7, <2>8, <2>9, Heard
<1>. QED  BY <1>6, <1>7

(* Motion and the wheels say nothing of any button or key.                 *)
LEMMA QuietEvents ==
    ASSUME NEW c, NEW dx \in Int, NEW dy \in Int, NEW s \in Bits
    PROVE  /\ Move(dx, dy) \in InputEvent /\ WireSays(c)[Move(dx, dy)][s] = s
           /\ Scroll(dx, dy) \in InputEvent /\ WireSays(c)[Scroll(dx, dy)][s] = s
<1>1. Move(dx, dy) \in InputEvent /\ Scroll(dx, dy) \in InputEvent
  BY MakersType
<1>2. Move(dx, dy).kind = "move" /\ Scroll(dx, dy).kind = "scroll"
  BY DEF Move, Scroll
<1>. QED  BY <1>1, <1>2 DEF RawSays, ServerSays, WireSays

(* A press or a release says what it is.                                   *)
LEMMA PressSays ==
    ASSUME NEW c, NEW kind \in {"button", "key"}, NEW code \in Nat, NEW down \in BOOLEAN,
           NEW s \in Bits
    PROVE  /\ Press(kind, code, down) \in InputEvent
           /\ WireSays(c)[Press(kind, code, down)][s] = IF code = c THEN Bit(down) ELSE s
<1>1. Press(kind, code, down) \in InputEvent
  BY MakersType
<1>2. /\ Press(kind, code, down).kind = kind /\ Press(kind, code, down).code = code
      /\ Press(kind, code, down).down = down
  BY DEF Press
<1>. QED  BY <1>1, <1>2 DEF RawSays, ServerSays, WireSays

(* An event that says nothing becomes nothing, motion or a notch.          *)
LEMMA PutQuiet ==
    ASSUME NEW c, NEW says, \A s \in Bits : says[s] = s,
           \/ UNCHANGED wire
           \/ \E x \in Int, y \in Int : wire' = Append(wire, Move(x, y))
                                       \/ wire' = Append(wire, Scroll(x, y))
    PROVE  PutOnWire(c, says)
<1>1. ASSUME NEW ev \in InputEvent, wire' = Append(wire, ev),
             \A s \in Bits : WireSays(c)[ev][s] = s
      PROVE  PutOnWire(c, says)
  BY <1>1 DEF PutOnWire
<1>2. ASSUME NEW x \in Int, NEW y \in Int
      PROVE  /\ Move(x, y) \in InputEvent /\ \A s \in Bits : WireSays(c)[Move(x, y)][s] = s
             /\ Scroll(x, y) \in InputEvent
             /\ \A s \in Bits : WireSays(c)[Scroll(x, y)][s] = s
  <2>1. Move(x, y) \in InputEvent /\ Scroll(x, y) \in InputEvent
    BY MakersType
  <2>. QED  BY <2>1, QuietEvents
<1>3. ASSUME NEW x \in Int, NEW y \in Int, wire' = Append(wire, Move(x, y))
      PROVE  PutOnWire(c, says)
  BY <1>1, <1>2, <1>3
<1>4. ASSUME NEW x \in Int, NEW y \in Int, wire' = Append(wire, Scroll(x, y))
      PROVE  PutOnWire(c, says)
  BY <1>1, <1>2, <1>4
<1>5. ASSUME UNCHANGED wire PROVE PutOnWire(c, says)
  BY <1>5 DEF PutOnWire
<1>. QED  BY <1>3, <1>4, <1>5

(* An event that says that a code is down or up becomes a press or a       *)
(* release.                                                                *)
LEMMA PutPress ==
    ASSUME NEW c, NEW says, NEW kind \in {"button", "key"}, NEW code \in Nat,
           NEW down \in BOOLEAN, wire' = Append(wire, Press(kind, code, down)),
           \A s \in Bits : says[s] = IF code = c THEN Bit(down) ELSE s
    PROVE  PutOnWire(c, says)
<1>1. PICK ev : ev = Press(kind, code, down)
  OBVIOUS
<1>2. ev \in InputEvent
  BY <1>1, MakersType
<1>3. ASSUME NEW s \in Bits PROVE WireSays(c)[ev][s] = says[s]
  <2>1. WireSays(c)[Press(kind, code, down)][s] = IF code = c THEN Bit(down) ELSE s
    BY PressSays
  <2>. QED  BY <1>1, <2>1
<1>. QED  BY <1>1, <1>2, <1>3 DEF PutOnWire

(* next_event of evdev: a key that repeats is dropped, and nothing else.   *)
LEMMA ReadEvdevKeys ==
    ASSUME TypeOK, Known, Apart, NEW c \in Registered, Chain(c),
           NEW d \in Devices, ReadEvdev(d)
    PROVE  Chain(c)'
<1>1. /\ UNCHANGED <<server, phys, held>> /\ server = <<>>
      /\ buffer[d] # <<>> /\ buffer' = [buffer EXCEPT ![d] = Tail(@)]
  BY DEF ReadEvdev, replayVars, userVars, Apart
<1>2. server \in Seq(SilentX(c))
  BY <1>1
<1>3. PICK raw : raw = Head(buffer[d])
  OBVIOUS
<1>4. /\ raw \in RawEvent
      /\ raw.type = "KEY" => raw.code \notin Buttons \/ raw.value # 2
  <2>1. CASE d = Keyboard
    <3>1. raw \in KeyboardRaw(typed)
      BY <1>1, <1>3, <2>1, HeadTailProperties DEF Known
    <3>2. typed \subseteq Codes
      BY DEF TypeOK
    <3>. QED  BY <3>1, <3>2, PathAssumption DEF KeyboardRaw
  <2>2. CASE d # Keyboard
    <3>1. raw \in MouseRaw
      BY <1>1, <1>3, <2>2, HeadTailProperties DEF Known, Devices
    <3>. QED  BY <3>1 DEF MouseRaw
  <2>. QED  BY <2>1, <2>2
<1>5. raw.code \in Nat /\ raw.value \in Int
  BY <1>4 DEF RawEvent
<1>6. SUFFICES PutOnWire(c, RawSays(c)[raw])
  BY <1>1, <1>2, <1>3, ReadRelayed
<1>7. ASSUME raw.type # "KEY" PROVE \A s \in Bits : RawSays(c)[raw][s] = s
  BY <1>4, <1>7 DEF RawSays
<1>8. CASE raw.type = "SYN" /\ EndOfReport(d)
  <2>1. pending.x \in Int /\ pending.y \in Int
    BY DEF TypeOK
  <2>2. UNCHANGED wire \/ wire' = Append(wire, Move(pending.x, pending.y))
    BY <1>8 DEF EndOfReport, ReadOn, Returned
  <2>. QED  BY <1>7, <1>8, <2>1, <2>2, PutQuiet
<1>9. CASE raw.type = "REL" /\ Relative(d, raw)
  <2>1. \/ UNCHANGED wire
        \/ wire' = Append(wire, Scroll(0, -raw.value))
        \/ wire' = Append(wire, Scroll(raw.value, 0))
    BY <1>9 DEF Relative, ReadOn, Returned
  <2>2. -raw.value \in Int /\ 0 \in Int
    BY <1>5
  <2>. QED  BY <1>5, <1>7, <1>9, <2>1, <2>2, PutQuiet
<1>10. CASE raw.type = "KEY" /\ TranslateKey(d, raw)
  <2>1. CASE raw.code \notin Buttons /\ raw.value = 2
    <3>1. UNCHANGED wire
      BY <1>10, <2>1 DEF TranslateKey, ReadOn
    <3>2. \A s \in Bits : RawSays(c)[raw][s] = s
      BY <1>4, <2>1 DEF RawSays
    <3>. QED  BY <3>1, <3>2, PutQuiet
  <2>2. CASE raw.value # 2
    <3>1. PICK kind \in {"button", "key"} : Returned(Press(kind, raw.code, raw.value # 0))
      BY <1>10, <2>2 DEF TranslateKey
    <3>2. PICK down \in BOOLEAN : down = (raw.value # 0)
      OBVIOUS
    <3>3. wire' = Append(wire, Press(kind, raw.code, down))
      BY <3>1, <3>2 DEF Returned
    <3>4. \A s \in Bits : RawSays(c)[raw][s] = IF raw.code = c THEN Bit(down) ELSE s
      BY <1>4, <1>10, <2>2, <3>2 DEF RawSays
    <3>. QED  BY <1>5, <3>3, <3>4, PutPress
  <2>. QED  BY <1>4, <1>10, <2>1, <2>2
<1>. QED  BY <1>3, <1>8, <1>9, <1>10 DEF ReadEvdev

(* A grabbed keyboard is read past the queue of the server, which holds    *)
(* nothing of keys then.                                                   *)
LEMMA ReadKeyboardKeys ==
    ASSUME TypeOK, Known, Apart, NEW c \in Registered, Chain(c), ReadKeyboard
    PROVE  Chain(c)'
<1>1. PICK raw : raw = Head(buffer[Keyboard])
  OBVIOUS
<1>2. /\ UNCHANGED <<server, phys, held>> /\ path.capture = "x11" /\ path.kbd
      /\ buffer[Keyboard] # <<>> /\ buffer' = [buffer EXCEPT ![Keyboard] = Tail(@)]
      /\ IF raw.type = "KEY" /\ raw.value # 2
            THEN Returned(Press("key", raw.code, raw.value # 0))
            ELSE UNCHANGED <<wire, reading>>
  BY <1>1 DEF ReadKeyboard, replayVars, userVars
<1>3. Keyboard \in Devices
  BY DEF Devices
<1>4. raw \in RawEvent /\ (raw.type = "KEY" => raw.code \notin Buttons)
  <2>1. raw \in KeyboardRaw(typed)
    BY <1>1, <1>2, HeadTailProperties DEF Known
  <2>2. typed \subseteq Codes
    BY DEF TypeOK
  <2>. QED  BY <2>1, <2>2, PathAssumption DEF KeyboardRaw
<1>5. raw.code \in Nat
  BY <1>4 DEF RawEvent
<1>6. \/ server \in Seq(SilentX(c))
      \/ \A s \in Bits : RawSays(c)[raw][s] = s
  <2>1. CASE c \in Buttons
    BY <1>4, <2>1 DEF RawSays
  <2>2. CASE c \notin Buttons
    <3>1. MouseX \subseteq SilentX(c)
      BY <2>2 DEF MouseX, SilentX, ServerSays
    <3>2. server \in Seq(MouseX)
      BY <1>2 DEF Apart
    <3>. QED  BY <3>1, <3>2
  <2>. QED  BY <2>1, <2>2
<1>7. SUFFICES PutOnWire(c, RawSays(c)[raw])
  BY <1>1, <1>2, <1>3, <1>6, ReadRelayed
<1>8. CASE raw.type = "KEY" /\ raw.value # 2
  <2>1. PICK down \in BOOLEAN : down = (raw.value # 0)
    OBVIOUS
  <2>2. \A s \in Bits : RawSays(c)[raw][s] = IF raw.code = c THEN Bit(down) ELSE s
    BY <1>4, <1>8, <2>1 DEF RawSays
  <2>3. wire' = Append(wire, Press("key", raw.code, down))
    BY <1>2, <1>8, <2>1 DEF Returned
  <2>. QED  BY <1>5, <2>2, <2>3, PutPress
<1>9. CASE ~(raw.type = "KEY" /\ raw.value # 2)
  <2>1. \A s \in Bits : RawSays(c)[raw][s] = s
    BY <1>4, <1>9 DEF RawSays
  <2>2. UNCHANGED wire
    BY <1>2, <1>9
  <2>. QED  BY <2>1, <2>2, PutQuiet
<1>. QED  BY <1>8, <1>9

(* map_x11_button finds the button that has the number.                    *)
LEMMA MapButtonNames ==
    ASSUME NEW n \in (1 .. 9) \ (4 .. 7), NEW c \in Nat
    PROVE  MapButton(n) = c <=> (c \in Buttons /\ XNumber[c] = n)
<1>1. MapButton(n) \in Buttons /\ XNumber[MapButton(n)] = n
  <2>1. \E b \in Buttons : XNumber[b] = n
    <3>1. /\ XNumber[272] = 1 /\ XNumber[273] = 3 /\ XNumber[274] = 2
          /\ XNumber[275] = 8 /\ XNumber[276] = 9
          /\ 272 \in Buttons /\ 273 \in Buttons /\ 274 \in Buttons /\ 275 \in Buttons
          /\ 276 \in Buttons
      BY DEF XNumber, Buttons
    <3>2. n = 1 \/ n = 2 \/ n = 3 \/ n = 8 \/ n = 9
      OBVIOUS
    <3>. QED  BY <3>1, <3>2
  <2>. QED  BY <2>1 DEF MapButton
<1>. QED  BY <1>1, XNumberApart

(* The queue of the server, whose buttons 4 to 7 are the wheels.           *)
LEMMA ReadServerKeys ==
    ASSUME TypeOK, NEW c \in Registered, Chain(c), ReadServer
    PROVE  Chain(c)'
<1>1. PICK ev : ev = Head(server)
  OBVIOUS
<1>2. /\ UNCHANGED <<buffer, phys, held>> /\ server # <<>> /\ server' = Tail(server)
  BY DEF ReadServer, replayVars, userVars
<1>3. ev \in ServerEvent /\ c \in Nat
  BY <1>1, ServerArms, RegisteredNat
<1>4. c \in Buttons => XNumber[c] \in {1, 2, 3, 8, 9}
  BY XNumberType
<1>5. SUFFICES PutOnWire(c, ServerSays(c)[ev])
  BY <1>1, <1>2, ServerRelayed
<1>6. CASE ev.type = "RawMotion" /\ Returned(Move(ev.dx, ev.dy))
  <2>1. ev.dx \in Int /\ ev.dy \in Int
    BY <1>3, <1>6 DEF ServerEvent
  <2>2. \A s \in Bits : ServerSays(c)[ev][s] = s
    BY <1>3, <1>6 DEF ServerSays
  <2>. QED  BY <1>6, <2>1, <2>2, PutQuiet DEF Returned
<1>7. CASE ev.type = "RawKey" /\ Returned(Press("key", ev.detail - 8, ev.down))
  <2>1. PICK code : code = ev.detail - 8
    OBVIOUS
  <2>2. code \in Nat /\ ev.down \in BOOLEAN /\ (code = c <=> ev.detail = c + 8)
    BY <1>3, <1>7, <2>1 DEF ServerEvent
  <2>3. \A s \in Bits : ServerSays(c)[ev][s] = IF code = c THEN Bit(ev.down) ELSE s
    BY <1>3, <1>7, <2>2 DEF ServerSays
  <2>4. wire' = Append(wire, Press("key", code, ev.down))
    BY <1>7, <2>1 DEF Returned
  <2>. QED  BY <2>2, <2>3, <2>4, PutPress
<1>8. CASE ev.type = "RawButton" /\ ev.detail \in 4 .. 7
  <2>1. \A s \in Bits : ServerSays(c)[ev][s] = s
    BY <1>3, <1>4, <1>8 DEF ServerSays
  <2>2. \/ UNCHANGED wire
        \/ \E x \in Int, y \in Int : wire' = Append(wire, Scroll(x, y))
    <3>1. -1 \in Int /\ 0 \in Int /\ 1 \in Int
      OBVIOUS
    <3>2. \/ UNCHANGED wire
          \/ wire' = Append(wire, Scroll(0, -1)) \/ wire' = Append(wire, Scroll(0, 1))
          \/ wire' = Append(wire, Scroll(-1, 0)) \/ wire' = Append(wire, Scroll(1, 0))
      BY <1>1, <1>8, ServerArms DEF Returned
    <3>. QED  BY <3>1, <3>2
  <2>. QED  BY <2>1, <2>2, PutQuiet
<1>9. CASE /\ ev.type = "RawButton" /\ ev.detail \in (1 .. 9) \ (4 .. 7)
           /\ Returned(Press("button", MapButton(ev.detail), ev.down))
  <2>1. PICK code : code = MapButton(ev.detail)
    OBVIOUS
  <2>2. code \in Nat /\ ev.down \in BOOLEAN
    BY <1>3, <1>9, <2>1, MapButtonType, RegisteredNat DEF ServerEvent
  <2>3. code = c <=> (c \in Buttons /\ ev.detail = XNumber[c])
    BY <1>3, <1>9, <2>1, MapButtonNames
  <2>4. \A s \in Bits : ServerSays(c)[ev][s] = IF code = c THEN Bit(ev.down) ELSE s
    BY <1>3, <1>9, <2>3 DEF ServerSays
  <2>5. wire' = Append(wire, Press("button", code, ev.down))
    BY <1>9, <2>1 DEF Returned
  <2>. QED  BY <2>2, <2>4, <2>5, PutPress
<1>. QED  BY <1>1, <1>6, <1>7, <1>8, <1>9, ServerArms

(* The emulated device does what the event says, with the codes it has.    *)
LEMMA ReplayKeys ==
    ASSUME TypeOK, Worn, NEW ev \in Named(typed), Replay(ev), held \subseteq Registered
    PROVE  /\ held' \subseteq Registered
           /\ \A c \in Registered : Bit(c \in held') = WireSays(c)[ev][Bit(c \in held)]
<1>. DEFINE codes == CASE ev.kind = "button" -> {ev.code}
                       [] ev.kind = "key" -> KeyReplayed(ev.code)
                       [] OTHER -> {}
<1>1. held' = IF codes # {} /\ ev.down THEN held \cup codes ELSE held \ codes
  BY DEF Replay
<1>2. ev \in InputEvent /\ ev.kind \in {"move", "scroll", "button", "key"}
  BY DEF Named, InputEvent
<1>3. ev.kind \in {"button", "key"} => ev.down \in BOOLEAN /\ ev.code \in Nat
  BY <1>2 DEF InputEvent
<1>4. /\ codes \subseteq Registered
      /\ \A c \in Registered : c \in codes <=> ev.kind \in {"button", "key"} /\ ev.code = c
  <2>1. CASE ev.kind = "button"
    <3>1. ev.code \in Registered /\ codes = {ev.code}
      BY <2>1, RegisteredNat DEF Named
    <3>. QED  BY <2>1, <3>1
  <2>2. CASE ev.kind = "key"
    <3>1. codes = KeyReplayed(ev.code) /\ ev.code \in Nat /\ ev.code \in typed
      BY <1>3, <2>2 DEF Named
    <3>2. CASE path.emulate = "uinput"
      BY <2>2, <3>1, <3>2 DEF KeyReplayed
    <3>3. CASE path.emulate # "uinput"
      <4>1. path.emulate = "xtest"
        BY <3>3, PathAssumption DEF TypeOK, Path
      <4>2. ev.code \in 1 .. 247
        BY <3>1, <4>1 DEF Worn
      <4>3. ((ev.code + 8) % 256) - 8 = ev.code
        BY <4>2
      <4>4. codes = {ev.code} /\ ev.code \in Registered
        BY <3>1, <3>3, <4>2, <4>3 DEF KeyReplayed, Registered
      <4>. QED  BY <2>2, <4>4
    <3>. QED  BY <3>2, <3>3
  <2>3. CASE ev.kind \notin {"button", "key"}
    <3>1. codes = {}
      BY <2>3
    <3>. QED  BY <2>3, <3>1
  <2>. QED  BY <2>1, <2>2, <2>3
<1>. HIDE DEF codes
<1>5. held' \subseteq Registered
  BY <1>1, <1>4
<1>6. ASSUME NEW c \in Registered PROVE Bit(c \in held') = WireSays(c)[ev][Bit(c \in held)]
  <2>1. WireSays(c)[ev][Bit(c \in held)] =
           IF ev.kind \in {"button", "key"} /\ ev.code = c THEN Bit(ev.down)
                                                          ELSE Bit(c \in held)
    BY <1>2, BitType DEF RawSays, ServerSays, WireSays
  <2>2. CASE c \in codes
    <3>1. c \in held' <=> ev.down
      BY <1>1, <2>2
    <3>2. Bit(c \in held') = Bit(ev.down)
      BY <3>1 DEF Bit
    <3>. QED  BY <1>4, <2>1, <2>2, <3>2
  <2>3. CASE c \notin codes
    <3>1. c \in held' <=> c \in held
      BY <1>1, <2>3
    <3>2. Bit(c \in held') = Bit(c \in held)
      BY <3>1 DEF Bit
    <3>. QED  BY <1>4, <2>1, <2>3, <3>2
  <2>. QED  BY <2>2, <2>3
<1>. QED  BY <1>5, <1>6

(* Receiving moves it from the wire to the emulated device.                *)
LEMMA ReceiveKeys ==
    ASSUME TypeOK, Known, Worn, Receive, ~over', held \subseteq Registered
    PROVE  /\ held' \subseteq Registered
           /\ \A c \in Registered : Chain(c) => Chain(c)'
<1>1. /\ UNCHANGED <<buffer, server, phys>> /\ wire # <<>> /\ wire' = Tail(wire)
  BY DEF Receive, userVars
<1>2. PICK ev : ev = Head(wire)
  OBVIOUS
<1>3. Replay(ev)
  <2>1. \A p : ~HitEdge(p)
    BY DEF HitEdge
  <2>. QED  BY <1>2, <2>1 DEF Receive
<1>4. ev \in Named(typed) /\ ev \in InputEvent
  BY <1>1, <1>2, HeadTailProperties DEF Known, TypeOK
<1>5. /\ held' \subseteq Registered
      /\ \A c \in Registered : Bit(c \in held') = WireSays(c)[ev][Bit(c \in held)]
  BY <1>3, <1>4, ReplayKeys
<1>6. ASSUME NEW c \in Registered, Chain(c) PROVE Chain(c)'
  <2>1. PICK o \in Devices, s \in Bits, t \in Bits : Link(c, o, s, t)
    BY <1>6 DEF Chain
  <2>2. /\ wire \in Seq(InputEvent) /\ WireSays(c) \in [InputEvent -> [Bits -> Bits]]
        /\ Leads(Bits, WireSays(c), wire, Bit(c \in held), s)
    BY <2>1, SaysType DEF TypeOK, Link
  <2>3. Leads(Bits, WireSays(c), Tail(wire), WireSays(c)[ev][Bit(c \in held)], s)
    BY <1>1, <1>2, <2>2, LeadsTail
  <2>4. Leads(Bits, WireSays(c), wire', Bit(c \in held'), s)
    BY <1>1, <1>5, <2>3
  <2>5. Link(c, o, s, t)'
    BY <1>1, <2>1, <2>4 DEF Link, Others
  <2>. QED  BY <2>5 DEF Chain
<1>. QED  BY <1>5, <1>6

(* Every step keeps the chains.                                            *)
LEMMA StepKeys == TypeOK /\ Known /\ Apart /\ Keys /\ [Next]_vars => Keys'
<1>. SUFFICES ASSUME TypeOK, Known, Apart, Keys, [Next]_vars, ~over', Worn'
              PROVE  held' \subseteq Registered /\ \A c \in Registered : Chain(c)'
  BY DEF Keys
<1>1. ~over /\ Worn
  <2>1. over' = TRUE \/ UNCHANGED over
    BY DEF Next, UseMouse, UseKeyboard, ReadEvdev, ReadKeyboard, ReadServer, Receive,
           HitEdge, Replay, replayVars, vars
  <2>2. UNCHANGED path /\ typed \subseteq typed'
    BY DEF Next, UseMouse, UseKeyboard, ReadEvdev, ReadKeyboard, ReadServer, Receive,
           places, userVars, vars
  <2>. QED  BY <2>1, <2>2 DEF Worn
<1>2. held \subseteq Registered /\ \A c \in Registered : Chain(c)
  BY <1>1 DEF Keys
<1>3. CASE Receive
  BY <1>1, <1>2, <1>3, ReceiveKeys
<1>4. CASE UNCHANGED vars
  BY <1>2, <1>4 DEF Chain, Link, Others, vars, replayVars, userVars
<1>5. ASSUME Next, ~Receive, NEW c \in Registered PROVE Chain(c)'
  BY <1>2, <1>5, UseMouseKeys, UseKeyboardKeys, ReadEvdevKeys, ReadKeyboardKeys,
     ReadServerKeys DEF Next
<1>6. Next /\ ~Receive => UNCHANGED held
  BY DEF Next, UseMouse, UseKeyboard, ReadEvdev, ReadKeyboard, ReadServer, replayVars
<1>. QED  BY <1>2, <1>3, <1>4, <1>5, <1>6

(* When nothing is under way the two ends of a chain meet.                 *)
LEMMA QuietKeys ==
    ASSUME NEW c, Chain(c), Quiet
    PROVE  c \in held <=> \E d \in Devices : c \in phys[d]
<1>1. PICK o \in Devices, s \in Bits, t \in Bits : Link(c, o, s, t)
  BY DEF Chain
<1>2. wire = <<>> /\ server = <<>> /\ buffer[o] = <<>>
  BY DEF Quiet
<1>3. /\ Leads(Bits, WireSays(c), <<>>, Bit(c \in held), s)
      /\ Leads(Bits, ServerSays(c), <<>>, s, t)
      /\ Leads(Bits, RawSays(c), <<>>, t, Bit(c \in phys[o]))
  BY <1>1, <1>2 DEF Link
<1>4. Bit(c \in held) = s /\ s = t /\ t = Bit(c \in phys[o])
  BY <1>3, BitType, LeadsEmpty
<1>5. c \in held <=> c \in phys[o]
  BY <1>4 DEF Bit
<1>. QED  BY <1>1, <1>5 DEF Link, Others

(* A button or key is down on the emulated device iff it is down on a      *)
(* device here, from each capture to each emulator: of those that can be   *)
(* replayed, and for XTest as long as only codes from 1 to 247 were typed. *)
THEOREM EveryKeyArrives == Spec => []KeysArrive
<1>1. Init => TypeOK /\ Known /\ Apart /\ Keys
  BY InitType, InitKnown, InitKeys
<1>2. /\ TypeOK /\ Known /\ Apart /\ Keys
      /\ [Next]_vars
      => TypeOK' /\ Known' /\ Apart' /\ Keys'
  BY StepType, StepKnown, StepKeys
<1>3. Keys => KeysArrive
  <2>. SUFFICES ASSUME Keys, Quiet, path.emulate = "xtest" => typed \subseteq 1 .. 247
                PROVE  held = Registered \cap UNION {phys[d] : d \in Devices}
    BY DEF KeysArrive
  <2>1. held \subseteq Registered /\ \A c \in Registered : Chain(c)
    BY DEF Keys, Worn, Quiet
  <2>2. \A c \in Registered : c \in held <=> \E d \in Devices : c \in phys[d]
    BY <2>1, QuietKeys
  <2>. QED  BY <2>1, <2>2
<1>. QED  BY <1>1, <1>2, <1>3, PTL DEF Spec
=============================================================================

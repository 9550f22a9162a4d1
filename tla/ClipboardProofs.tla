--------------------------- MODULE ClipboardProofs ---------------------------
(***************************************************************************)
(* Proofs about Clipboard, for any texts, any capacity of the channels and *)
(* any number of copies and failures.                                      *)
(***************************************************************************)
EXTENDS Clipboard, SequenceTheorems, TLAPS

(* The other one of two.                                                   *)
LEMMA OtherPeer ==
    ASSUME NEW n \in Peers
    PROVE  /\ Other(n) \in Peers /\ Other(n) # n /\ Other(Other(n)) = n
           /\ \A m \in Peers : m = n \/ m = Other(n)
<1>1. PICK p, q \in Peers : p # q /\ Peers = {p, q}
  BY PeersAssumption
<1>2. \A k \in Peers : Other(k) \in Peers /\ Other(k) # k
  BY <1>1 DEF Other
<1> QED BY <1>1, <1>2

(* A channel takes a text if it has a slot, and gives its first one up.    *)
LEMMA Enqueue ==
    ASSUME NEW q \in Channel, NEW t \in Texts, Len(q) < Capacity
    PROVE  Append(q, t) \in Channel
<1>1. Append(q, t) \in Seq(Texts) /\ Len(Append(q, t)) = Len(q) + 1 /\ Len(q) \in Nat
  BY AppendProperties DEF Channel
<1> QED BY <1>1, TextsAssumption DEF Channel

LEMMA Dequeue ==
    ASSUME NEW q \in Channel, q # <<>>
    PROVE  Head(q) \in Texts /\ Tail(q) \in Channel
<1>1. /\ Head(q) \in Texts /\ Tail(q) \in Seq(Texts) /\ Len(Tail(q)) = Len(q) - 1
      /\ Len(q) \in Nat
  BY HeadTailProperties DEF Channel
<1> QED BY <1>1, TextsAssumption DEF Channel

LEMMA EmptyChannel == <<>> \in Channel
<1>1. <<>> \in Seq(Texts) /\ Len(<<>>) = 0
  OBVIOUS
<1> QED BY <1>1, TextsAssumption DEF Channel

-----------------------------------------------------------------------------
(* The type invariant.  What a poller hands over and what a main loop      *)
(* waits with is a text.                                                   *)
PollerTask ==
    {task \in [at : {"asleep", "read", "changed", "sending", "ended"},
               text : Texts \cup {Nothing}] :
        task.at \in {"changed", "sending"} => task.text \in Texts}

MainTask ==
    {task \in [at : {"select", "writing", "passing", "draining", "ended"},
               text : Texts \cup {Nothing}] :
        task.at \in {"writing", "passing"} => task.text \in Texts}

TInv ==
    /\ board \in [Peers -> Texts \cup {Nothing}]
    /\ hash \in [Peers -> Texts \cup {NoHash}]
    /\ poller \in [Peers -> PollerTask] /\ main \in [Peers -> MainTask]
    /\ out \in [Peers -> Channel] /\ inbox \in [Peers -> Channel]
    /\ incoming \in [Peers -> Channel] /\ streams \in [Peers -> Seq(Texts)]
    /\ acceptor \in [Peers -> Texts \cup {Nothing}]
    /\ receiver \in [Peers -> Texts \cup {Nothing}]
    /\ link \in BOOLEAN /\ broken \subseteq Peers /\ copied \in [Peers -> SUBSET Texts]
    /\ copies \in Nat /\ faults \in Nat

LEMMA TasksAtRest ==
    /\ Asleep \in PollerTask /\ Ended \in PollerTask
    /\ Select \in MainTask /\ Draining \in MainTask /\ Ended \in MainTask
  BY DEF Asleep, Select, Draining, Ended, Task, PollerTask, MainTask

LEMMA InitTInv == Init => TInv
<1> SUFFICES ASSUME Init PROVE TInv
  OBVIOUS
<1>1. copied \in [Peers -> SUBSET Texts]
  BY DEF Init
<1>2. streams \in [Peers -> Seq(Texts)]
  BY DEF Init
<1> QED BY <1>1, <1>2, TasksAtRest, EmptyChannel, TextsAssumption DEF Init, TInv

LEMMA PollTInv ==
    ASSUME TInv, NEW n \in Peers, Poll(n)
    PROVE  TInv'
<1> USE DEF TInv, wayVars, recvVars, userVars
<1>1. CASE Read(n)
  <2>1. ASSUME NEW t \in Texts \cup {Nothing} PROVE Task("read", t) \in PollerTask
    BY DEF Task, PollerTask
  <2>2. (IF n \in broken THEN Nothing ELSE board[n]) \in Texts \cup {Nothing}
    OBVIOUS
  <2> QED BY <1>1, <2>1, <2>2 DEF Read
<1>2. CASE Compare(n)
  <2> DEFINE task == IF poller[n].text \in {hash[n], Nothing}
                     THEN Asleep ELSE Task("changed", poller[n].text)
  <2>1. task \in PollerTask
    BY TasksAtRest DEF Task, PollerTask
  <2>2. poller' = [poller EXCEPT ![n] = task]
    BY <1>2 DEF Compare
  <2> HIDE DEF task
  <2> QED BY <1>2, <2>1, <2>2 DEF Compare
<1>3. CASE Store(n)
  <2>1. poller[n].text \in Texts
    BY <1>3 DEF Store, PollerTask
  <2>2. Task("sending", poller[n].text) \in PollerTask
    BY <2>1 DEF Task, PollerTask
  <2> QED BY <1>3, <2>1, <2>2 DEF Store
<1>4. CASE HandOut(n)
  <2>1. poller[n].text \in Texts
    BY <1>4 DEF HandOut, PollerTask
  <2>2. out' \in [Peers -> Channel]
    <3>1. Len(out[n]) < Capacity => Append(out[n], poller[n].text) \in Channel
      BY <2>1, Enqueue
    <3> QED BY <1>4, <3>1 DEF HandOut
  <2>3. poller' \in [Peers -> PollerTask]
    BY <1>4, TasksAtRest DEF HandOut
  <2> QED BY <1>4, <2>2, <2>3 DEF HandOut
<1> QED BY <1>1, <1>2, <1>3, <1>4 DEF Poll

LEMMA LoopTInv ==
    ASSUME TInv, NEW n \in Peers, Loop(n)
    PROVE  TInv'
<1> USE DEF TInv, pollVars, recvVars, userVars
<1>1. CASE Relay(n)
  <2> DEFINE text == Head(out[n])
  <2>1. text \in Texts /\ Tail(out[n]) \in Channel
    BY <1>1, Dequeue DEF Relay
  <2>2. Task("writing", text) \in MainTask
    BY <2>1 DEF Task, MainTask
  <2>3. Append(streams[Other(n)], text) \in Seq(Texts)
    BY <2>1, OtherPeer, AppendProperties
  <2>4. main' \in [Peers -> MainTask] /\ streams' \in [Peers -> Seq(Texts)]
    <3>1. CASE link
      <4>1. /\ streams' = [streams EXCEPT ![Other(n)] = Append(@, text)]
            /\ main' = [main EXCEPT ![n] = IF text \in Large THEN Task("writing", text) ELSE @]
        BY <1>1, <3>1 DEF Relay
      <4> QED BY <4>1, <2>2, <2>3, OtherPeer
    <3>2. CASE ~link
      BY <1>1, <3>2 DEF Relay
    <3> QED BY <3>1, <3>2
  <2> QED BY <1>1, <2>1, <2>4 DEF Relay
<1>2. CASE TakeIn(n)
  <2>1. Head(inbox[n]) \in Texts /\ Tail(inbox[n]) \in Channel
    BY <1>2, Dequeue DEF TakeIn
  <2>2. Task("passing", Head(inbox[n])) \in MainTask
    BY <2>1 DEF Task, MainTask
  <2> QED BY <1>2, <2>1, <2>2 DEF TakeIn
<1>3. CASE HandIn(n)
  <2>1. main[n].text \in Texts
    BY <1>3 DEF HandIn, MainTask
  <2>2. incoming' \in [Peers -> Channel]
    <3>1. Append(incoming[n], main[n].text) \in Channel
      BY <1>3, <2>1, Enqueue DEF HandIn
    <3> QED BY <1>3, <3>1 DEF HandIn
  <2> QED BY <1>3, <2>2, TasksAtRest DEF HandIn
<1> QED BY <1>1, <1>2, <1>3 DEF Loop

LEMMA AcceptTInv ==
    ASSUME TInv, NEW n \in Peers, AcceptStream(n) \/ PassOn(n) \/ End(n) \/ Return(n)
    PROVE  TInv'
<1> USE DEF TInv, pollVars, recvVars, userVars
<1>1. CASE AcceptStream(n)
  <2>1. Head(streams[n]) \in Texts /\ Tail(streams[n]) \in Seq(Texts)
    BY <1>1, HeadTailProperties DEF AcceptStream
  <2>2. WriterAfter(n) \in [Peers -> MainTask]
    BY TasksAtRest DEF WriterAfter
  <2> QED BY <1>1, <2>1, <2>2 DEF AcceptStream
<1>2. CASE PassOn(n)
  <2>1. inbox' \in [Peers -> Channel]
    <3>1. acceptor[n] \in Texts
      BY <1>2 DEF PassOn
    <3>2. Len(inbox[n]) < Capacity => Append(inbox[n], acceptor[n]) \in Channel
      BY <3>1, Enqueue
    <3> QED BY <1>2, <3>2 DEF PassOn
  <2> QED BY <1>2, <2>1 DEF PassOn
<1>3. CASE End(n)
  BY <1>3, TasksAtRest DEF End
<1>4. CASE Return(n)
  BY <1>4, TasksAtRest, EmptyChannel DEF Return
<1> QED BY <1>1, <1>2, <1>3, <1>4

LEMMA StepTInv == TInv /\ [Next]_vars => TInv'
<1> SUFFICES ASSUME TInv, [Next]_vars PROVE TInv'
  OBVIOUS
<1> USE DEF TInv, pollVars, wayVars, recvVars, userVars
<1>1. ASSUME NEW n \in Peers, Copy(n) PROVE TInv'
  <2>1. PICK t \in Texts : /\ board' = [board EXCEPT ![n] = t]
                           /\ copied' = [copied EXCEPT ![n] = @ \cup {t}]
    BY <1>1 DEF Copy
  <2>2. copies' \in Nat
    BY <1>1 DEF Copy
  <2> QED BY <1>1, <2>1, <2>2 DEF Copy
<1>2. ASSUME NEW n \in Peers, ToolsChange(n) PROVE TInv'
  <2>1. faults' \in Nat /\ broken' \subseteq Peers
    BY <1>2 DEF ToolsChange
  <2> QED BY <1>2, <2>1 DEF ToolsChange
<1>3. ASSUME NEW n \in Peers, Receive(n) PROVE TInv'
  <2>1. Head(incoming[n]) \in Texts /\ Tail(incoming[n]) \in Channel
    BY <1>3, Dequeue DEF Receive
  <2> QED BY <1>3, <2>1 DEF Receive
<1>4. ASSUME NEW n \in Peers, Write(n) PROVE TInv'
  BY <1>4 DEF Write
<1>5. CASE ConnectionLost
  <2>1. main' \in [Peers -> MainTask] /\ streams' \in [Peers -> Seq(Texts)]
    BY <1>5, TasksAtRest DEF ConnectionLost
  <2> QED BY <1>5, <2>1 DEF ConnectionLost
<1>6. CASE UNCHANGED vars
  BY <1>6 DEF vars
<1> QED BY <1>1, <1>2, <1>3, <1>4, <1>5, <1>6, PollTInv, LoopTInv, AcceptTInv DEF Next

(* The type invariant: no channel is ever over its capacity, and no task   *)
(* hands over or waits with anything but a text.                           *)
THEOREM TypeCorrect == Spec => []TypeOK
<1>1. TInv => TypeOK
  BY DEF TInv, TypeOK, PollerTask, MainTask
<1> QED BY InitTInv, StepTInv, <1>1, PTL DEF Spec

-----------------------------------------------------------------------------
(* No echo.  While a text has been copied alone: what a machine hands over *)
(* was copied there, what is on its way to it was copied on the other one, *)
(* and of what its poller might find, all that was not copied there has    *)
(* the hash that is stored.                                                *)
Within(q, S) == \A i \in 1 .. Len(q) : q[i] \in S

OwnGoesOut(n) ==
    /\ Within(out[n], copied[n])
    /\ poller[n].at \in {"changed", "sending"} => poller[n].text \in copied[n]

ForeignComesIn(n) ==
    /\ Within(streams[n], copied[Other(n)])
    /\ acceptor[n] # Nothing => acceptor[n] \in copied[Other(n)]
    /\ Within(inbox[n], copied[Other(n)])
    /\ main[n].at = "passing" => main[n].text \in copied[Other(n)]
    /\ Within(incoming[n], copied[Other(n)])
    /\ receiver[n] # Nothing => receiver[n] \in copied[Other(n)] /\ receiver[n] = hash[n]

Suppressed(n, text) ==
    text = Nothing \/ text \in copied[n] \/ (text \in copied[Other(n)] /\ text = hash[n])

FindsNothingNew(n) ==
    /\ Suppressed(n, board[n])
    /\ poller[n].at = "read" => Suppressed(n, poller[n].text)

Kept(n) == OwnGoesOut(n) /\ ForeignComesIn(n) /\ FindsNothingNew(n)

EInv == Alone => \A n \in Peers : Kept(n)

LEMMA WithinEmpty == ASSUME NEW S PROVE Within(<<>>, S)
  BY DEF Within

LEMMA WithinAppend ==
    ASSUME NEW T, NEW q \in Seq(T), NEW t \in T, NEW S, Within(q, S), t \in S
    PROVE  Within(Append(q, t), S)
<1>1. /\ Len(Append(q, t)) = Len(q) + 1 /\ Len(q) \in Nat
      /\ Append(q, t)[Len(q) + 1] = t
      /\ \A i \in 1 .. Len(q) : Append(q, t)[i] = q[i]
  BY AppendProperties
<1> QED BY <1>1 DEF Within

LEMMA WithinTail ==
    ASSUME NEW T, NEW q \in Seq(T), q # <<>>, NEW S, Within(q, S)
    PROVE  Head(q) \in S /\ Within(Tail(q), S)
<1>1. /\ Len(q) \in Nat /\ Len(q) # 0 /\ Head(q) = q[1] /\ Len(Tail(q)) = Len(q) - 1
      /\ \A i \in 1 .. Len(Tail(q)) : Tail(q)[i] = q[i + 1]
  BY HeadTailProperties, EmptySeq, LenProperties
<1> QED BY <1>1 DEF Within

(* What a machine's own part of the invariant looks at.                    *)
Parts(m) == <<board[m], hash[m], poller[m], out[m], streams[m], acceptor[m], inbox[m],
              main[m], incoming[m], receiver[m], copied>>

(* While one text is copied alone, one machine has copied nothing.         *)
LEMMA OneSide ==
    ASSUME Alone, NEW n \in Peers, NEW t \in copied[n]
    PROVE  copied[Other(n)] = {} /\ \A u \in copied[n] : u = t
  BY OtherPeer DEF Alone

LEMMA InitEInv == Init => EInv
<1> SUFFICES ASSUME Init, NEW n \in Peers PROVE Kept(n)
  BY DEF EInv
<1>1. Other(n) \in Peers
  BY OtherPeer
<1>2. board[n] = Nothing \/ board[n] \in copied[n]
  BY DEF Init
<1> QED BY <1>1, <1>2, WithinEmpty
        DEF Init, Asleep, Select, Task, Kept, OwnGoesOut, ForeignComesIn, FindsNothingNew, Suppressed

LEMMA PollKeeps ==
    ASSUME TInv, Alone, NEW n \in Peers, Poll(n), NEW m \in Peers, Kept(m)
    PROVE  Kept(m)'
<1> USE DEF wayVars, recvVars, userVars
<1>0. Other(m) \in Peers
  BY OtherPeer
<1>1. CASE m # n
  <2>1. UNCHANGED Parts(m)
    BY <1>1 DEF Poll, Read, Compare, Store, HandOut, Parts, TInv
  <2> QED BY <2>1 DEF Parts, Kept, OwnGoesOut, ForeignComesIn, FindsNothingNew, Suppressed, Within
<1>2. CASE m = n /\ Read(n)
  <2>1. /\ poller'[n].at = "read" /\ poller'[n].text \in {Nothing, board[n]}
        /\ UNCHANGED <<board, hash, out, streams, acceptor, inbox, main, incoming, receiver, copied>>
    BY <1>2 DEF Read, Task, TInv
  <2> QED BY <1>2, <2>1 DEF Kept, OwnGoesOut, ForeignComesIn, FindsNothingNew, Suppressed
<1>3. CASE m = n /\ Compare(n)
  <2>1. /\ \/ poller'[n].at = "asleep"
           \/ /\ poller'[n].at = "changed" /\ poller'[n].text = poller[n].text
              /\ poller[n].text \notin {hash[n], Nothing}
        /\ poller[n].at = "read"
        /\ UNCHANGED <<board, hash, out, streams, acceptor, inbox, main, incoming, receiver, copied>>
    BY <1>3 DEF Compare, Asleep, Task, TInv
  <2> QED BY <1>3, <2>1 DEF Kept, OwnGoesOut, ForeignComesIn, FindsNothingNew, Suppressed
<1>4. CASE m = n /\ Store(n)
  <2>1. /\ poller'[n].at = "sending" /\ poller'[n].text = poller[n].text
        /\ poller[n].at = "changed"
        /\ UNCHANGED <<board, out, streams, acceptor, inbox, main, incoming, receiver, copied>>
    BY <1>4 DEF Store, Task, TInv
  <2>2. poller[n].text \in copied[n]
    BY <1>4, <2>1 DEF Kept, OwnGoesOut
  <2>3. copied[Other(n)] = {}
    BY <2>2, OneSide
  <2> QED BY <1>4, <2>1, <2>2, <2>3
          DEF Kept, OwnGoesOut, ForeignComesIn, FindsNothingNew, Suppressed
<1>5. CASE m = n /\ HandOut(n)
  <2>1. /\ poller[n].at = "sending" /\ poller'[n].at \in {"asleep", "ended"}
        /\ UNCHANGED <<board, hash, streams, acceptor, inbox, main, incoming, receiver, copied>>
    BY <1>5 DEF HandOut, Asleep, Ended, Task, TInv
  <2>2. Within(out'[n], copied[n])
    <3>1. poller[n].text \in copied[n] /\ Within(out[n], copied[n]) /\ out[n] \in Seq(Texts)
          /\ copied[n] \subseteq Texts
      BY <1>5, <2>1 DEF Kept, OwnGoesOut, TInv, Channel
    <3>2. Within(Append(out[n], poller[n].text), copied[n])
      BY <3>1, WithinAppend
    <3> QED BY <1>5, <3>1, <3>2 DEF HandOut, TInv
  <2> QED BY <1>5, <2>1, <2>2
          DEF Kept, OwnGoesOut, ForeignComesIn, FindsNothingNew, Suppressed
<1> QED BY <1>1, <1>2, <1>3, <1>4, <1>5 DEF Poll

(* What concerns a machine's own clipboard and poller.                     *)
Near(m) == <<board[m], hash[m], poller[m], copied>>

LEMMA NearKept ==
    ASSUME NEW m \in Peers, Kept(m), UNCHANGED Near(m),
           Within(out'[m], copied[m]), (ForeignComesIn(m))'
    PROVE  Kept(m)'
  BY DEF Near, Kept, OwnGoesOut, FindsNothingNew, Suppressed

LEMMA LoopKeeps ==
    ASSUME TInv, NEW n \in Peers, Loop(n), \A m \in Peers : Kept(m), NEW m \in Peers
    PROVE  Kept(m)'
<1> USE DEF pollVars, recvVars, userVars
<1>0. UNCHANGED Near(m) /\ Kept(m) /\ copied' = copied
  BY DEF Near, Loop, Relay, TakeIn, HandIn
<1>1. Within(out'[m], copied[m])
  <2>1. Within(out[m], copied[m]) /\ out[m] \in Seq(Texts)
    BY <1>0 DEF Kept, OwnGoesOut, TInv, Channel
  <2>2. \/ out'[m] = out[m]
        \/ out[m] # <<>> /\ out'[m] = Tail(out[m])
    BY DEF Loop, Relay, TakeIn, HandIn, TInv
  <2> QED BY <2>1, <2>2, WithinTail
<1>2. (ForeignComesIn(m))'
  <2> DEFINE own == copied[Other(m)]
  <2>0. /\ Within(streams[m], own) /\ Within(inbox[m], own) /\ Within(incoming[m], own)
        /\ main[m].at = "passing" => main[m].text \in own
        /\ acceptor[m] # Nothing => acceptor[m] \in own
        /\ receiver[m] # Nothing => receiver[m] \in own /\ receiver[m] = hash[m]
    BY <1>0 DEF Kept, ForeignComesIn
  <2>1. /\ streams[m] \in Seq(Texts) /\ inbox[m] \in Seq(Texts) /\ incoming[m] \in Seq(Texts)
        /\ own \subseteq Texts
    BY OtherPeer DEF TInv, Channel
  <2>2. CASE Relay(n)
    <3>1. UNCHANGED <<inbox, incoming, receiver, hash, acceptor>>
      BY <2>2 DEF Relay
    <3>2. main'[m] = main[m] \/ main'[m].at = "writing"
      BY <2>2 DEF Relay, Task, TInv
    <3>3. Within(streams'[m], own)
      <4>1. CASE m = Other(n)
        <5>1. Other(m) = n
          BY <4>1, OtherPeer
        <5>2. Head(out[n]) \in own
          <6>1. Within(out[n], copied[n]) /\ out[n] \in Seq(Texts) /\ out[n] # <<>>
            BY <2>2 DEF Relay, Kept, OwnGoesOut, TInv, Channel
          <6> QED BY <6>1, <5>1, WithinTail
        <5>3. Within(Append(streams[m], Head(out[n])), own)
          BY <2>0, <2>1, <5>2, WithinAppend
        <5>4. streams'[m] = streams[m] \/ streams'[m] = Append(streams[m], Head(out[n]))
          BY <2>2, <4>1 DEF Relay, TInv
        <5> QED BY <5>3, <5>4, <2>0
      <4>2. CASE m # Other(n)
        BY <4>2, <2>0, <2>2 DEF Relay, TInv
      <4> QED BY <4>1, <4>2
    <3> QED BY <1>0, <2>0, <3>1, <3>2, <3>3 DEF ForeignComesIn
  <2>3. CASE TakeIn(n)
    <3>1. UNCHANGED <<streams, incoming, receiver, hash, acceptor>>
      BY <2>3 DEF TakeIn
    <3>2. CASE m = n
      <4>1. Head(inbox[m]) \in own /\ Within(Tail(inbox[m]), own)
        BY <2>0, <2>1, <2>3, <3>2, WithinTail DEF TakeIn
      <4>2. inbox'[m] = Tail(inbox[m]) /\ main'[m].text = Head(inbox[m])
        BY <2>3, <3>2 DEF TakeIn, TInv, Task
      <4> QED BY <1>0, <2>0, <3>1, <4>1, <4>2 DEF ForeignComesIn
    <3>3. CASE m # n
      <4>1. inbox'[m] = inbox[m] /\ main'[m] = main[m]
        BY <2>3, <3>3 DEF TakeIn, TInv
      <4> QED BY <1>0, <2>0, <3>1, <4>1 DEF ForeignComesIn
    <3> QED BY <3>2, <3>3
  <2>4. CASE HandIn(n)
    <3>1. UNCHANGED <<streams, inbox, receiver, hash, acceptor>>
      BY <2>4 DEF HandIn
    <3>2. CASE m = n
      <4>1. main[m].text \in own
        BY <2>0, <2>4, <3>2 DEF HandIn
      <4>2. Within(Append(incoming[m], main[m].text), own)
        BY <2>0, <2>1, <4>1, WithinAppend
      <4>3. incoming'[m] = Append(incoming[m], main[m].text) /\ main'[m].at = "select"
        BY <2>4, <3>2 DEF HandIn, TInv, Select, Task
      <4> QED BY <1>0, <2>0, <3>1, <4>2, <4>3 DEF ForeignComesIn
    <3>3. CASE m # n
      <4>1. incoming'[m] = incoming[m] /\ main'[m] = main[m]
        BY <2>4, <3>3 DEF HandIn, TInv
      <4> QED BY <1>0, <2>0, <3>1, <4>1 DEF ForeignComesIn
    <3> QED BY <3>2, <3>3
  <2> QED BY <2>2, <2>3, <2>4 DEF Loop
<1> QED BY <1>0, <1>1, <1>2, NearKept

LEMMA WayKeeps ==
    ASSUME TInv, NEW n \in Peers,
           AcceptStream(n) \/ PassOn(n) \/ End(n) \/ Return(n) \/ ConnectionLost,
           NEW m \in Peers, Kept(m)
    PROVE  Kept(m)'
<1> USE DEF pollVars, recvVars, userVars
<1> DEFINE own == copied[Other(m)]
<1>0. UNCHANGED Near(m) /\ copied' = copied /\ UNCHANGED <<incoming, receiver, hash>>
  BY DEF Near, AcceptStream, PassOn, End, Return, ConnectionLost
<1>1. /\ Within(streams[m], own) /\ Within(inbox[m], own) /\ Within(incoming[m], own)
      /\ main[m].at = "passing" => main[m].text \in own
      /\ acceptor[m] # Nothing => acceptor[m] \in own
      /\ receiver[m] # Nothing => receiver[m] \in own /\ receiver[m] = hash[m]
      /\ Within(out[m], copied[m])
  BY DEF Kept, OwnGoesOut, ForeignComesIn
<1>2. streams[m] \in Seq(Texts) /\ inbox[m] \in Seq(Texts) /\ own \subseteq Texts
  BY OtherPeer DEF TInv, Channel
<1>3. out'[m] = out[m] \/ out'[m] = <<>>
  BY DEF AcceptStream, PassOn, End, Return, ConnectionLost, TInv
<1>4. Within(out'[m], copied[m])
  BY <1>1, <1>3, WithinEmpty
<1>5. main'[m] = main[m] \/ main'[m].at \in {"select", "draining", "ended"}
  BY DEF AcceptStream, WriterAfter, PassOn, End, Return, ConnectionLost, TInv,
         Select, Draining, Ended, Task
<1>6. Within(streams'[m], own)
  <2>1. \/ streams'[m] = streams[m] \/ streams'[m] = <<>>
        \/ streams[m] # <<>> /\ streams'[m] = Tail(streams[m])
    BY DEF AcceptStream, PassOn, End, Return, ConnectionLost, TInv
  <2> QED BY <1>1, <1>2, <2>1, WithinTail, WithinEmpty
<1>7. acceptor'[m] # Nothing => acceptor'[m] \in own
  <2>1. \/ acceptor'[m] = acceptor[m] \/ acceptor'[m] = Nothing
        \/ streams[m] # <<>> /\ acceptor'[m] = Head(streams[m])
    BY DEF AcceptStream, PassOn, End, Return, ConnectionLost, TInv
  <2> QED BY <1>1, <1>2, <2>1, WithinTail
<1>8. Within(inbox'[m], own)
  <2>1. \/ inbox'[m] = inbox[m] \/ inbox'[m] = <<>>
        \/ acceptor[m] # Nothing /\ inbox'[m] = Append(inbox[m], acceptor[m])
    BY DEF AcceptStream, PassOn, End, Return, ConnectionLost, TInv
  <2>2. CASE acceptor[m] # Nothing /\ inbox'[m] = Append(inbox[m], acceptor[m])
    BY <1>1, <1>2, <2>2, WithinAppend
  <2> QED BY <1>1, <2>1, <2>2, WithinEmpty
<1>9. (ForeignComesIn(m))'
  BY <1>0, <1>1, <1>5, <1>6, <1>7, <1>8 DEF ForeignComesIn
<1> QED BY <1>0, <1>4, <1>9, NearKept

LEMMA ReceiverKeeps ==
    ASSUME TInv, Alone, NEW n \in Peers, Receive(n) \/ Write(n), NEW m \in Peers, Kept(m)
    PROVE  Kept(m)'
<1> USE DEF pollVars, wayVars, userVars
<1>1. CASE m # n
  <2>1. UNCHANGED Parts(m)
    BY <1>1 DEF Receive, Write, Parts, TInv
  <2> QED BY <2>1 DEF Parts, Kept, OwnGoesOut, ForeignComesIn, FindsNothingNew, Suppressed, Within
<1>2. CASE m = n /\ Receive(n)
  <2> DEFINE t == Head(incoming[n])
  <2>1. t \in copied[Other(n)] /\ Within(Tail(incoming[n]), copied[Other(n)])
    BY <1>2, WithinTail DEF Receive, Kept, ForeignComesIn, TInv, Channel
  <2>2. /\ receiver'[n] = t /\ hash'[n] = t /\ incoming'[n] = Tail(incoming[n])
        /\ UNCHANGED <<board, poller, out, streams, acceptor, inbox, main, copied>>
    BY <1>2 DEF Receive, TInv
  <2>3. \A u \in copied[Other(n)] : u = t
    BY <2>1, OtherPeer, OneSide
  <2> HIDE DEF t
  <2> QED BY <1>2, <2>1, <2>2, <2>3
          DEF Kept, OwnGoesOut, ForeignComesIn, FindsNothingNew, Suppressed
<1>3. CASE m = n /\ Write(n)
  <2>1. /\ receiver[n] # Nothing /\ receiver'[n] = Nothing
        /\ board'[n] \in {board[n], receiver[n]}
        /\ UNCHANGED <<hash, poller, out, streams, acceptor, inbox, main, incoming, copied>>
    BY <1>3 DEF Write, TInv
  <2> QED BY <1>3, <2>1 DEF Kept, OwnGoesOut, ForeignComesIn, FindsNothingNew, Suppressed
<1> QED BY <1>1, <1>2, <1>3

(* A copy can only end a text's being alone; if it does not, nothing else  *)
(* was there before.                                                       *)
LEMMA CopyKeeps ==
    ASSUME TInv, NEW n \in Peers, Copy(n), NEW m \in Peers, Kept(m)
    PROVE  Kept(m)'
<1> USE DEF pollVars, wayVars, recvVars
<1>0. Other(m) \in Peers
  BY OtherPeer
<1>1. PICK t \in Texts : /\ board' = [board EXCEPT ![n] = t]
                         /\ copied' = [copied EXCEPT ![n] = @ \cup {t}]
  BY DEF Copy
<1>2. UNCHANGED <<hash, poller, out, streams, acceptor, inbox, main, incoming, receiver>>
  BY DEF Copy
<1>3. copied[m] \subseteq copied'[m] /\ copied[Other(m)] \subseteq copied'[Other(m)]
  BY <1>0, <1>1 DEF TInv
<1>4. board'[m] = board[m] \/ board'[m] \in copied'[m]
  BY <1>1 DEF TInv
<1> QED BY <1>2, <1>3, <1>4
        DEF Kept, OwnGoesOut, ForeignComesIn, FindsNothingNew, Suppressed, Within

LEMMA StepEInv == TInv /\ EInv /\ [Next]_vars => EInv'
<1> SUFFICES ASSUME TInv, EInv, [Next]_vars, Alone', NEW m \in Peers PROVE Kept(m)'
  BY DEF EInv
<1>1. Alone
  <2>1. \A n \in Peers : copied[n] \subseteq copied'[n]
    <3>1. UNCHANGED copied \/ \E n \in Peers : Copy(n)
      BY DEF Next, ToolsChange, Poll, Read, Compare, Store, HandOut, Loop, Relay, TakeIn, HandIn,
             End, Return, AcceptStream, PassOn, Receive, Write, ConnectionLost, vars, userVars
    <3>2. ASSUME NEW n \in Peers, Copy(n), NEW k \in Peers PROVE copied[k] \subseteq copied'[k]
      <4>1. PICK t \in Texts : copied' = [copied EXCEPT ![n] = @ \cup {t}]
        BY <3>2 DEF Copy
      <4> QED BY <4>1 DEF TInv
    <3> QED BY <3>1, <3>2
  <2> QED BY <2>1 DEF Alone
<1>2. \A n \in Peers : Kept(n)
  BY <1>1 DEF EInv
<1>3. ASSUME NEW n \in Peers, ToolsChange(n) PROVE Kept(m)'
  <2>1. UNCHANGED Parts(m)
    BY <1>3 DEF ToolsChange, Parts, pollVars, wayVars, recvVars
  <2> QED BY <1>2, <2>1 DEF Parts, Kept, OwnGoesOut, ForeignComesIn, FindsNothingNew, Suppressed
<1>4. CASE UNCHANGED vars
  <2>1. UNCHANGED Parts(m)
    BY <1>4 DEF vars, Parts, pollVars, wayVars, recvVars, userVars
  <2> QED BY <1>2, <2>1 DEF Parts, Kept, OwnGoesOut, ForeignComesIn, FindsNothingNew, Suppressed
<1> QED BY <1>1, <1>2, <1>3, <1>4, PollKeeps, LoopKeeps, WayKeeps, ReceiverKeeps, CopyKeeps DEF Next

(* Loop suppression: a single text that came from the peer is never sent   *)
(* back, whatever the tools and the connection do and in whatever order    *)
(* poller and receiver use the hash they share (PLAN.html:407).            *)
THEOREM NothingComesBack == Spec => []NoEcho
<1>1. TInv /\ EInv => NoEcho
  <2> SUFFICES ASSUME TInv, Alone, EInv, NEW n \in Peers PROVE UnderWay(n) \subseteq copied[n]
    BY DEF NoEcho
  <2>1. Within(out[n], copied[n])
    BY DEF EInv, Kept, OwnGoesOut
  <2>2. Within(streams[Other(n)], copied[n])
    BY OtherPeer DEF EInv, Kept, ForeignComesIn
  <2> QED BY <2>1, <2>2 DEF UnderWay, Within
<1> QED BY InitTInv, StepTInv, InitEInv, StepEInv, <1>1, PTL DEF Spec
=============================================================================

--------------------------- MODULE DiallingProofs ---------------------------
(***************************************************************************)
(* Invariants of Dialling for any two daemons and any number of            *)
(* connections, attempts and troubles: whatever sessions overlap, a state  *)
(* that counts as connected and a peer that is listed have a session       *)
(* behind them.                                                            *)
(***************************************************************************)
EXTENDS Dialling, FiniteSetTheorems, TLAPS

(* Between two attempts there is one left.                                 *)
AttemptsLeft == \A n \in Nodes : loop[n] = "backoff" => attempt[n] < MaxAttempts

(* The states that the transitions the daemon asks for lead to.            *)
StatesUsed == \A n \in Nodes : state[n] \in {"Disconnected", "Active", "Reconnecting"}

(* A connection whose end is still awaited has no session at that end, and *)
(* the two ends are not confused; one that nobody has taken has none at    *)
(* all.                                                                    *)
AwaitedEnds ==
    \A n \in Nodes : \A c \in Conns :
        /\ c \in dialled[n] => dialler[c] = n /\ sess[n][c] = "none"
        /\ c \in pending[n] => dialler[c] # n /\ sess[n][c] = "none"
        /\ stage[c] \in {"unused", "knocking"} => sess[n][c] = "none"
        /\ stage[c] = "unused" => c \notin dialled[n] \cup pending[n]

IInv == /\ TypeOK /\ AttemptsLeft /\ StatesUsed /\ AwaitedEnds
        /\ ConnectedMeansSession /\ ListedMeansSession

Shared == <<state, listed>>

-----------------------------------------------------------------------------
(* There is a daemon at all.                                               *)
LEMMA SomeNode == (CHOOSE n \in Nodes : TRUE) \in Nodes
<1>1. Nodes # {}
  BY NodesAssumption, FS_EmptySet
<1> QED
  BY <1>1

LEMMA PeerIsAnother == \A n \in Nodes : Peer(n) \in Nodes /\ Peer(n) # n
<1> SUFFICES ASSUME NEW n \in Nodes PROVE \E m \in Nodes : m # n
  BY DEF Peer
<1>1. Cardinality({n}) = 1
  BY FS_Singleton
<1>2. Nodes # {n}
  BY <1>1, NodesAssumption
<1> QED
  BY <1>2

(* The session that a daemon counts on goes on under another's steps: no   *)
(* step that leaves the state and the list alone ends a session that runs  *)
(* or has not been taken off the list.                                     *)
LEMMA SessionsKept ==
    ASSUME IInv, UNCHANGED Shared,
           \A n \in Nodes : \A c \in Conns :
              sess[n][c] \in {"active", "reset"} => sess'[n][c] = sess[n][c]
    PROVE  StatesUsed' /\ ConnectedMeansSession' /\ ListedMeansSession'
<1>1. state' = state /\ listed' = listed
  BY DEF Shared
<1>2. StatesUsed'
  BY <1>1 DEF IInv, StatesUsed
<1>3. ConnectedMeansSession'
  <2> SUFFICES ASSUME NEW n \in Nodes, IsConnected(state[n])
               PROVE  (ActiveOn(n) # {})'
    BY <1>1 DEF ConnectedMeansSession, IsConnected
  <2>1. PICK c \in Conns : sess[n][c] = "active"
    BY DEF IInv, ConnectedMeansSession, ActiveOn
  <2> QED
    BY <2>1 DEF ActiveOn
<1>4. ListedMeansSession'
  <2> SUFFICES ASSUME NEW n \in Nodes, listed[n]
               PROVE  \E c \in Conns : sess'[n][c] \in {"active", "reset"}
    BY <1>1 DEF ListedMeansSession
  <2>1. PICK c \in Conns : sess[n][c] \in {"active", "reset"}
    BY DEF IInv, ListedMeansSession
  <2> QED
    BY <2>1
<1> QED
  BY <1>2, <1>3, <1>4

(* A new connection takes no name that a running session uses, and leaves  *)
(* the types alone.                                                        *)
LEMMA KnockTakesFreeName ==
    ASSUME IInv, NEW n \in Nodes, Knock(n)
    PROVE  /\ dialler' \in [Conns -> Nodes] /\ stage' \in [Conns -> Stages]
           /\ dialled' \in [Nodes -> SUBSET Conns] /\ pending' \in [Nodes -> SUBSET Conns]
           /\ sess' \in [Nodes -> [Conns -> Sessions]]
           /\ AwaitedEnds'
           /\ \A m \in Nodes : \A c \in Conns :
                 sess[m][c] \in {"active", "reset"} => sess'[m][c] = sess[m][c]
<1>1. PICK c \in Conns :
        /\ Free(c)
        /\ dialler' = [dialler EXCEPT ![c] = n]
        /\ dialled' = [dialled EXCEPT ![n] = {c}]
        /\ stage' = [d \in Conns |-> IF d = c THEN "knocking"
                                     ELSE IF d \in pending[n] THEN "dead"
                                     ELSE stage[d]]
        /\ pending' = [pending EXCEPT ![n] = {}]
        /\ sess' = [m \in Nodes |-> [sess[m] EXCEPT ![c] = "none"]]
  BY DEF Knock
<1>2. /\ dialler' \in [Conns -> Nodes] /\ stage' \in [Conns -> Stages]
      /\ dialled' \in [Nodes -> SUBSET Conns] /\ pending' \in [Nodes -> SUBSET Conns]
  BY <1>1 DEF IInv, TypeOK, Stages
<1>3. sess' \in [Nodes -> [Conns -> Sessions]]
  BY <1>1 DEF IInv, TypeOK, Sessions
<1>4. \A m \in Nodes : sess[m][c] \notin {"active", "reset"}
  BY <1>1 DEF Free, IInv, AwaitedEnds
<1>5. AwaitedEnds'
  BY <1>1, <1>4 DEF Free, IInv, TypeOK, AwaitedEnds
<1>6. \A m \in Nodes : \A d \in Conns :
         sess[m][d] \in {"active", "reset"} => sess'[m][d] = sess[m][d]
  BY <1>1, <1>4 DEF IInv, TypeOK
<1> QED
  BY <1>2, <1>3, <1>5, <1>6

LEMMA InitIInv == Init => IInv
<1> SUFFICES ASSUME Init PROVE IInv
  OBVIOUS
<1>1. TypeOK
  BY SomeNode, LimitsAssumption DEF Init, TypeOK, States, Stages, Sessions
<1>2. AttemptsLeft /\ StatesUsed /\ AwaitedEnds
  BY DEF Init, AttemptsLeft, StatesUsed, AwaitedEnds
<1>3. ConnectedMeansSession /\ ListedMeansSession
  BY DEF Init, ConnectedMeansSession, ListedMeansSession, IsConnected
<1> QED
  BY <1>1, <1>2, <1>3 DEF IInv

-----------------------------------------------------------------------------
(* The actions that touch neither the state nor the list.                  *)
LEMMA DiscoveryKeepsIInv ==
    ASSUME IInv, NEW n \in Nodes, HearAnnounce(n) \/ Expire(n) \/ Pair(n) \/ Restart(n)
    PROVE  IInv'
<1> USE DEF loopVars, connVars, foundVars
<1>1. TypeOK'
  <2>1. CASE HearAnnounce(n)
    BY <2>1, LimitsAssumption DEF IInv, TypeOK, HearAnnounce, Ask
  <2>2. CASE Expire(n)
    BY <2>2 DEF IInv, TypeOK, Expire, Spend
  <2>3. CASE Pair(n)
    BY <2>3, LimitsAssumption DEF IInv, TypeOK, Pair, Ask, Spend
  <2>4. CASE Restart(n)
    BY <2>4 DEF IInv, TypeOK, Restart
  <2> QED
    BY <2>1, <2>2, <2>3, <2>4
<1>2. AttemptsLeft'
  BY DEF IInv, TypeOK, AttemptsLeft, HearAnnounce, Expire, Pair, Restart
<1>3. UNCHANGED <<dialled, pending, dialler, stage, sess>> /\ UNCHANGED Shared
  BY DEF HearAnnounce, Expire, Pair, Restart, Shared
<1>4. AwaitedEnds'
  BY <1>3 DEF IInv, AwaitedEnds
<1>5. StatesUsed' /\ ConnectedMeansSession' /\ ListedMeansSession'
  BY <1>3, SessionsKept
<1> QED
  BY <1>1, <1>2, <1>4, <1>5 DEF IInv

LEMMA TakeRequestKeepsIInv ==
    ASSUME IInv, NEW n \in Nodes, TakeRequest(n)
    PROVE  IInv'
<1>1. UNCHANGED <<known, state, listed, budget>>
  BY DEF TakeRequest
<1>2. queue' \in [Nodes -> 0 .. QueueLimit]
  BY LimitsAssumption DEF TakeRequest, IInv, TypeOK
<1>3. CASE Refuse(n)
  <2>1. TypeOK'
    BY <1>1, <1>2, <1>3 DEF Refuse, IInv, TypeOK, Stages
  <2>2. AttemptsLeft' /\ AwaitedEnds'
    BY <1>3 DEF Refuse, IInv, TypeOK, AttemptsLeft, AwaitedEnds
  <2> QED
    BY <1>1, <1>3, <2>1, <2>2, SessionsKept DEF Refuse, Shared, IInv
<1>4. CASE /\ Knock(n)
           /\ loop' = [loop EXCEPT ![n] = "dialling"]
           /\ attempt' = [attempt EXCEPT ![n] = 1]
  <2>1. TypeOK'
    BY <1>1, <1>2, <1>4, KnockTakesFreeName, LimitsAssumption DEF IInv, TypeOK
  <2>2. AttemptsLeft'
    BY <1>4 DEF IInv, TypeOK, AttemptsLeft
  <2> QED
    BY <1>1, <1>4, <2>1, <2>2, KnockTakesFreeName, SessionsKept DEF Shared, IInv
<1> QED
  BY <1>3, <1>4 DEF TakeRequest

LEMMA RedialKeepsIInv ==
    ASSUME IInv, NEW n \in Nodes, Redial(n)
    PROVE  IInv'
<1>1. attempt' \in [Nodes -> 0 .. MaxAttempts]
  BY LimitsAssumption DEF Redial, NextAttempt, IInv, TypeOK, AttemptsLeft
<1>2. TypeOK'
  BY <1>1, KnockTakesFreeName DEF Redial, foundVars, IInv, TypeOK
<1>3. AttemptsLeft'
  BY DEF Redial, NextAttempt, IInv, TypeOK, AttemptsLeft
<1> QED
  BY <1>2, <1>3, KnockTakesFreeName, SessionsKept DEF Redial, Shared, IInv

LEMMA ConnectingKeepsIInv ==
    ASSUME IInv, NEW n \in Nodes, DialSucceeds(n) \/ Accept(n) \/ AcceptReturns(n)
    PROVE  IInv'
<1> USE DEF loopVars, connVars, foundVars
<1>1. TypeOK'
  <2>1. CASE DialSucceeds(n)
    BY <2>1 DEF IInv, TypeOK, DialSucceeds, SessionIs, Stages, Sessions
  <2>2. CASE Accept(n)
    BY <2>2 DEF IInv, TypeOK, Accept, Stages
  <2>3. CASE AcceptReturns(n)
    <3>1. PICK c \in pending[n] :
            \/ /\ stage' = [stage EXCEPT ![c] = "open"]
               /\ sess' = [sess EXCEPT ![n][c] = "greeting"]
            \/ UNCHANGED <<stage, sess>>
      BY <2>3 DEF AcceptReturns, SessionIs
    <3>2. stage' \in [Conns -> Stages]
      BY <3>1 DEF IInv, TypeOK, Stages
    <3>3. c \in Conns
      BY DEF IInv, TypeOK
    <3>4. sess' \in [Nodes -> [Conns -> Sessions]]
      <4>1. CASE sess' = [sess EXCEPT ![n][c] = "greeting"]
        BY <3>3, <4>1 DEF IInv, TypeOK, Sessions
      <4>2. CASE UNCHANGED sess
        BY <4>2 DEF IInv, TypeOK
      <4> QED
        BY <3>1, <4>1, <4>2
    <3> QED
      BY <2>3, <3>2, <3>4 DEF IInv, TypeOK, AcceptReturns
  <2> QED
    BY <2>1, <2>2, <2>3
<1>2. AttemptsLeft'
  BY DEF IInv, TypeOK, AttemptsLeft, DialSucceeds, Accept, AcceptReturns
<1>3. AwaitedEnds'
  <2>1. CASE DialSucceeds(n)
    BY <2>1 DEF IInv, TypeOK, AwaitedEnds, DialSucceeds, SessionIs
  <2>2. CASE Accept(n)
    BY <2>2, PeerIsAnother DEF IInv, TypeOK, AwaitedEnds, Accept
  <2>3. CASE AcceptReturns(n)
    BY <2>3 DEF IInv, TypeOK, AwaitedEnds, AcceptReturns, SessionIs
  <2> QED
    BY <2>1, <2>2, <2>3
<1>4. UNCHANGED Shared
  BY DEF Shared, DialSucceeds, Accept, AcceptReturns
<1>5. \A m \in Nodes : \A c \in Conns :
        sess[m][c] \in {"active", "reset"} => sess'[m][c] = sess[m][c]
  BY DEF IInv, TypeOK, AwaitedEnds, DialSucceeds, Accept, AcceptReturns, SessionIs
<1>6. StatesUsed' /\ ConnectedMeansSession' /\ ListedMeansSession'
  BY <1>4, <1>5, SessionsKept
<1> QED
  BY <1>1, <1>2, <1>3, <1>6 DEF IInv

LEMMA GreetingKeepsIInv ==
    ASSUME IInv, NEW n \in Nodes, NEW c \in Conns, Acknowledge(n, c) \/ GreetingFails(n, c)
    PROVE  IInv'
<1> USE DEF loopVars, connVars, foundVars
<1>1. sess[n][c] = "greeting" /\ UNCHANGED <<loopVars, foundVars, connVars, budget, Shared>>
  BY DEF Acknowledge, GreetingFails, Greeted, Shared
<1>2. PICK s \in {"acked", "failed"} : sess' = [sess EXCEPT ![n][c] = s]
  BY DEF Acknowledge, GreetingFails, SessionIs
<1>3. TypeOK' /\ AttemptsLeft'
  BY <1>1, <1>2 DEF IInv, TypeOK, AttemptsLeft, Sessions, Shared
<1>4. AwaitedEnds'
  BY <1>1, <1>2 DEF IInv, TypeOK, AwaitedEnds
<1>5. \A m \in Nodes : \A d \in Conns :
        sess[m][d] \in {"active", "reset"} => sess'[m][d] = sess[m][d]
  BY <1>1, <1>2 DEF IInv, TypeOK
<1>6. StatesUsed' /\ ConnectedMeansSession' /\ ListedMeansSession'
  BY <1>1, <1>5, SessionsKept
<1> QED
  BY <1>3, <1>4, <1>6 DEF IInv

LEMMA ReturnKeepsIInv ==
    ASSUME IInv, NEW n \in Nodes, NEW c \in Conns, Return(n, c)
    PROVE  IInv'
<1> USE DEF loopVars, connVars, foundVars, Return, SessionIs
<1>1. TypeOK' /\ AttemptsLeft'
  BY DEF IInv, TypeOK, AttemptsLeft, Sessions
<1>2. AwaitedEnds'
  BY DEF IInv, TypeOK, AwaitedEnds
<1>3. \A m \in Nodes : \A d \in Conns :
        sess[m][d] \in {"active", "reset"} => sess'[m][d] = sess[m][d]
  BY DEF IInv, TypeOK
<1>4. StatesUsed' /\ ConnectedMeansSession' /\ ListedMeansSession'
  BY <1>3, SessionsKept DEF Shared
<1> QED
  BY <1>1, <1>2, <1>4 DEF IInv

LEMMA ConnectionLostKeepsIInv ==
    ASSUME IInv, ConnectionLost
    PROVE  IInv'
<1> USE DEF loopVars, connVars, foundVars, ConnectionLost
<1>1. TypeOK' /\ AttemptsLeft'
  BY DEF IInv, TypeOK, AttemptsLeft, Spend, Stages
<1>2. AwaitedEnds'
  BY DEF IInv, TypeOK, AwaitedEnds
<1>3. StatesUsed' /\ ConnectedMeansSession' /\ ListedMeansSession'
  BY SessionsKept DEF Shared
<1> QED
  BY <1>1, <1>2, <1>3 DEF IInv

-----------------------------------------------------------------------------
(* The actions that change the state or the list.                          *)

LEMMA DialFailsKeepsIInv ==
    ASSUME IInv, NEW n \in Nodes, DialFails(n)
    PROVE  IInv'
<1> USE DEF loopVars, connVars, foundVars
<1>1. PICK c \in dialled[n] : stage' = [stage EXCEPT ![c] = "dead"]
  BY DEF DialFails
<1>2. /\ dialled' = [dialled EXCEPT ![n] = {}]
      /\ loop' = [loop EXCEPT ![n] = NextLoop(n)]
      /\ UNCHANGED <<attempt, pending, known, queue, listed, dialler, sess, budget>>
  BY DEF DialFails
<1>3. \/ UNCHANGED state
      \/ state[n] = "Active" /\ state' = [state EXCEPT ![n] = "Reconnecting"]
  BY DEF DialFails, TransitionTo, CanTransition, IInv, StatesUsed
<1>4. TypeOK'
  <2>1. state' \in [Nodes -> States]
    BY <1>3 DEF IInv, TypeOK, States
  <2>2. loop' \in [Nodes -> {"select", "dialling", "backoff", "down"}]
    BY <1>2 DEF IInv, TypeOK, NextLoop
  <2>3. stage' \in [Conns -> Stages]
    BY <1>1 DEF IInv, TypeOK, Stages
  <2> QED
    BY <1>2, <2>1, <2>2, <2>3 DEF IInv, TypeOK
<1>5. AttemptsLeft'
  <2> SUFFICES ASSUME NEW m \in Nodes, loop'[m] = "backoff"
               PROVE  attempt[m] < MaxAttempts
    BY <1>2 DEF AttemptsLeft
  <2>1. CASE m = n
    <3>1. attempt[n] # MaxAttempts
      BY <1>2, <2>1 DEF IInv, TypeOK, NextLoop
    <3>2. attempt[m] \in 0 .. MaxAttempts
      BY DEF IInv, TypeOK
    <3> QED
      BY <2>1, <3>1, <3>2, LimitsAssumption
  <2>2. CASE m # n
    BY <1>2, <2>2 DEF IInv, TypeOK, AttemptsLeft
  <2> QED
    BY <2>1, <2>2
<1>6. AwaitedEnds'
  BY <1>1, <1>2 DEF IInv, TypeOK, AwaitedEnds
<1>7. StatesUsed'
  BY <1>3 DEF IInv, TypeOK, StatesUsed
<1>8. ConnectedMeansSession'
  BY <1>2, <1>3 DEF IInv, TypeOK, ConnectedMeansSession, IsConnected, ActiveOn
<1>9. ListedMeansSession'
  BY <1>2 DEF IInv, ListedMeansSession
<1> QED
  BY <1>4, <1>5, <1>6, <1>7, <1>8, <1>9 DEF IInv

LEMMA ActivateKeepsIInv ==
    ASSUME IInv, NEW n \in Nodes, NEW c \in Conns, Activate(n, c)
    PROVE  IInv'
<1> USE DEF loopVars, connVars, foundVars
<1>1. /\ sess[n][c] \in {"greeting", "acked"}
      /\ sess' = [sess EXCEPT ![n][c] = "active"]
      /\ listed' = [listed EXCEPT ![n] = TRUE]
      /\ UNCHANGED <<loopVars, foundVars, connVars, budget>>
  BY DEF Activate, Greeted, SessionIs
<1>2. UNCHANGED state \/ state' = [state EXCEPT ![n] = "Active"]
  BY DEF Activate, TransitionTo
<1>3. TypeOK' /\ AttemptsLeft'
  BY <1>1, <1>2 DEF IInv, TypeOK, AttemptsLeft, Sessions, States
<1>4. AwaitedEnds'
  BY <1>1 DEF IInv, TypeOK, AwaitedEnds
<1>5. StatesUsed'
  BY <1>2 DEF IInv, TypeOK, StatesUsed
<1>6. sess'[n][c] = "active"
  BY <1>1 DEF IInv, TypeOK
<1>7. \A m \in Nodes : \A d \in Conns :
        sess[m][d] \in {"active", "reset"} => sess'[m][d] = sess[m][d]
  BY <1>1 DEF IInv, TypeOK
<1>8. ConnectedMeansSession'
  <2> SUFFICES ASSUME NEW m \in Nodes, IsConnected(state'[m])
               PROVE  \E d \in Conns : sess'[m][d] = "active"
    BY DEF ConnectedMeansSession, ActiveOn
  <2>1. CASE m = n
    BY <1>6, <2>1
  <2>2. CASE m # n
    <3>1. state'[m] = state[m]
      BY <1>2, <2>2 DEF IInv, TypeOK
    <3>2. PICK d \in Conns : sess[m][d] = "active"
      BY <3>1 DEF IInv, ConnectedMeansSession, ActiveOn
    <3> QED
      BY <1>7, <3>2
  <2> QED
    BY <2>1, <2>2
<1>9. ListedMeansSession'
  BY <1>1, <1>6, <1>7 DEF IInv, TypeOK, ListedMeansSession
<1> QED
  BY <1>3, <1>4, <1>5, <1>8, <1>9 DEF IInv

(* The state is Disconnected after a cleanup: the table lets it go there   *)
(* from every state that is ever reached.                                  *)
LEMMA ResetKeepsIInv ==
    ASSUME IInv, NEW n \in Nodes, NEW c \in Conns, Reset(n, c)
    PROVE  IInv'
<1> USE DEF loopVars, connVars, foundVars
<1>1. /\ sess[n][c] = "active"
      /\ sess' = [sess EXCEPT ![n][c] = "reset"]
      /\ UNCHANGED <<loopVars, foundVars, listed, connVars, budget>>
  BY DEF Reset, SessionIs
<1>2. state' = [state EXCEPT ![n] = "Disconnected"]
  <2>1. CASE state[n] = "Disconnected"
    BY <2>1 DEF Reset, TransitionTo, IInv, TypeOK
  <2>2. CASE state[n] \in {"Active", "Reconnecting"}
    BY <2>2 DEF Reset, TransitionTo, CanTransition
  <2> QED
    BY <2>1, <2>2 DEF IInv, StatesUsed
<1>3. TypeOK' /\ AttemptsLeft'
  BY <1>1, <1>2 DEF IInv, TypeOK, AttemptsLeft, Sessions, States
<1>4. AwaitedEnds'
  BY <1>1 DEF IInv, TypeOK, AwaitedEnds
<1>5. StatesUsed'
  BY <1>2 DEF IInv, TypeOK, StatesUsed
<1>6. \A m \in Nodes \ {n} : sess'[m] = sess[m] /\ state'[m] = state[m]
  BY <1>1, <1>2 DEF IInv, TypeOK
<1>7. state'[n] = "Disconnected"
  BY <1>2 DEF IInv, TypeOK
<1>8. ConnectedMeansSession'
  BY <1>6, <1>7 DEF IInv, ConnectedMeansSession, IsConnected, ActiveOn
<1>9. ListedMeansSession'
  BY <1>1 DEF IInv, TypeOK, ListedMeansSession
<1> QED
  BY <1>3, <1>4, <1>5, <1>8, <1>9 DEF IInv

LEMMA UnlistKeepsIInv ==
    ASSUME IInv, NEW n \in Nodes, NEW c \in Conns, Unlist(n, c)
    PROVE  IInv'
<1> USE DEF loopVars, connVars, foundVars
<1>1. /\ sess[n][c] = "reset"
      /\ sess' = [sess EXCEPT ![n][c] = "draining"]
      /\ listed' = [listed EXCEPT ![n] = FALSE]
      /\ UNCHANGED <<loopVars, foundVars, state, connVars, budget>>
  BY DEF Unlist, SessionIs
<1>2. TypeOK' /\ AttemptsLeft' /\ StatesUsed'
  BY <1>1 DEF IInv, TypeOK, AttemptsLeft, StatesUsed, Sessions
<1>3. AwaitedEnds'
  BY <1>1 DEF IInv, TypeOK, AwaitedEnds
<1>4. ConnectedMeansSession'
  BY <1>1 DEF IInv, TypeOK, ConnectedMeansSession, IsConnected, ActiveOn
<1>5. ListedMeansSession'
  BY <1>1 DEF IInv, TypeOK, ListedMeansSession
<1> QED
  BY <1>2, <1>3, <1>4, <1>5 DEF IInv

LEMMA ExitKeepsIInv ==
    ASSUME IInv, NEW n \in Nodes, Exit(n)
    PROVE  IInv'
<1>1. \A m \in Nodes \ {n} : /\ sess'[m] = sess[m] /\ state'[m] = state[m]
                             /\ listed'[m] = listed[m] /\ loop'[m] = loop[m]
                             /\ dialled'[m] = dialled[m] /\ pending'[m] = pending[m]
  BY DEF Exit, IInv, TypeOK
<1>2. /\ state'[n] = "Disconnected" /\ ~listed'[n] /\ loop'[n] = "down"
      /\ dialled'[n] = {} /\ pending'[n] = {}
  BY DEF Exit, IInv, TypeOK
<1>3. UNCHANGED <<attempt, dialler>>
  BY DEF Exit
<1>4. /\ stage' \in [Conns -> Stages]
      /\ \A c \in Conns : stage'[c] \in {"unused", "knocking"} => stage'[c] = stage[c]
  BY DEF Exit, IInv, TypeOK, Stages
<1>5. sess' \in [Nodes -> [Conns -> Sessions]]
  <2>1. [c \in Conns |-> IF sess[n][c] \in {"none", "failed"} THEN sess[n][c] ELSE "over"]
           \in [Conns -> Sessions]
    BY DEF IInv, TypeOK, Sessions
  <2>2. sess' = [sess EXCEPT ![n] = [c \in Conns |->
                   IF sess[n][c] \in {"none", "failed"} THEN sess[n][c] ELSE "over"]]
    BY DEF Exit, IInv, TypeOK
  <2> QED
    BY <2>1, <2>2 DEF IInv, TypeOK
<1>6. \A c \in Conns : sess[n][c] = "none" => sess'[n][c] = "none"
  BY DEF Exit, IInv, TypeOK
<1>7. TypeOK'
  BY <1>3, <1>4, <1>5, LimitsAssumption DEF Exit, IInv, TypeOK, States, Spend
<1>8. AttemptsLeft' /\ StatesUsed'
  BY <1>1, <1>2, <1>3 DEF IInv, AttemptsLeft, StatesUsed
<1>9. AwaitedEnds'
  <2> SUFFICES ASSUME NEW m \in Nodes, NEW c \in Conns
               PROVE  /\ c \in dialled'[m] => dialler'[c] = m /\ sess'[m][c] = "none"
                      /\ c \in pending'[m] => dialler'[c] # m /\ sess'[m][c] = "none"
                      /\ stage'[c] \in {"unused", "knocking"} => sess'[m][c] = "none"
                      /\ stage'[c] = "unused" => c \notin dialled'[m] \cup pending'[m]
    BY DEF AwaitedEnds
  <2>1. CASE m = n
    BY <2>1, <1>2, <1>4, <1>6 DEF IInv, AwaitedEnds
  <2>2. CASE m # n
    BY <2>2, <1>1, <1>3, <1>4 DEF IInv, AwaitedEnds
  <2> QED
    BY <2>1, <2>2
<1>10. ConnectedMeansSession' /\ ListedMeansSession'
  BY <1>1, <1>2 DEF IInv, ConnectedMeansSession, ListedMeansSession, IsConnected, ActiveOn
<1> QED
  BY <1>7, <1>8, <1>9, <1>10 DEF IInv

-----------------------------------------------------------------------------
LEMMA StepIInv == IInv /\ [Next]_vars => IInv'
<1> SUFFICES ASSUME IInv, [Next]_vars PROVE IInv'
  OBVIOUS
<1>1. CASE UNCHANGED vars
  BY <1>1 DEF vars, IInv, TypeOK, AttemptsLeft, StatesUsed, AwaitedEnds,
     ConnectedMeansSession, ListedMeansSession, ActiveOn
<1>2. ASSUME NEW n \in Nodes, HearAnnounce(n) \/ Expire(n) \/ Pair(n) \/ Restart(n)
      PROVE  IInv'
  BY <1>2, DiscoveryKeepsIInv
<1>3. ASSUME NEW n \in Nodes, MainLoop(n)
      PROVE  IInv'
  BY <1>3, TakeRequestKeepsIInv, ConnectingKeepsIInv, DialFailsKeepsIInv, RedialKeepsIInv
     DEF MainLoop
<1>4. ASSUME NEW n \in Nodes, NEW c \in Conns, Session(n, c) \/ Return(n, c)
      PROVE  IInv'
  BY <1>4, GreetingKeepsIInv, ActivateKeepsIInv, ResetKeepsIInv, UnlistKeepsIInv, ReturnKeepsIInv
     DEF Session
<1>5. ASSUME NEW n \in Nodes, Exit(n)
      PROVE  IInv'
  BY <1>5, ExitKeepsIInv
<1> QED
  BY <1>1, <1>2, <1>3, <1>4, <1>5, ConnectionLostKeepsIInv DEF Next

LEMMA Invariance == Spec => []IInv
  BY InitIInv, StepIInv, PTL DEF Spec

(* Every variable of the two daemons keeps its type: no attempt beyond the *)
(* last, no queue beyond its limit.                                        *)
THEOREM TypeCorrect == Spec => []TypeOK
<1>1. IInv => TypeOK
  BY DEF IInv
<1> QED
  BY <1>1, Invariance, PTL

(* A connection_state that counts as connected has a running session       *)
(* behind it (state.rs:47, lib.rs:794-797, 853-857): no failed dial and no *)
(* cleanup of another session leaves a daemon that refuses to dial for     *)
(* ever.                                                                   *)
THEOREM StateHasSession == Spec => []ConnectedMeansSession
<1>1. IInv => ConnectedMeansSession
  BY DEF IInv
<1> QED
  BY <1>1, Invariance, PTL

(* A peer is listed (lib.rs:320, 380, 803) only while a session with it    *)
(* runs or is being cleaned up.                                            *)
THEOREM ListHasSession == Spec => []ListedMeansSession
<1>1. IInv => ListedMeansSession
  BY DEF IInv
<1> QED
  BY <1>1, Invariance, PTL
=============================================================================

------------------------------ MODULE Dialling ------------------------------
(***************************************************************************)
(* How two kmflow daemons find each other and open sessions: the listener  *)
(* of discovery.rs, Daemon::run with its accept and dial branches,         *)
(* connect_to with its retries, the handshake of peer_session, and the     *)
(* DaemonState that all sessions of a daemon share.  What a session does   *)
(* between its handshake and its cleanup is the module PeerSession.        *)
(*                                                                         *)
(* A daemon has one main loop.  It accepts and dials in two branches of a  *)
(* select!: while it dials it accepts nothing, and a request to dial drops *)
(* the connection that was being accepted.  Sessions are tasks of their    *)
(* own; nothing counts them.                                               *)
(***************************************************************************)
EXTENDS Integers, FiniteSets

CONSTANTS
    Nodes,        \* the two daemons
    Listeners,    \* those whose discovery listener could be bound
    Conns,        \* 1 .. n: bound on the connections at any one time
    MaxAttempts,  \* RECONNECT_MAX_ATTEMPTS
    QueueLimit,   \* capacity of connect_tx
    Troubles,     \* what may happen from outside
    MaxTroubles   \* how often, all taken together (bound)

ASSUME NodesAssumption == IsFiniteSet(Nodes) /\ Cardinality(Nodes) = 2

ASSUME LimitsAssumption == /\ Conns \subseteq Nat
                           /\ Listeners \subseteq Nodes
                           /\ MaxAttempts \in Nat \ {0}
                           /\ QueueLimit \in Nat \ {0}
                           /\ Troubles \subseteq {"pair", "exit", "loss", "expiry"}
                           /\ MaxTroubles \in Nat

Peer(n) == CHOOSE m \in Nodes : m # n

VARIABLES
    loop,     \* loop[n]: where Daemon::run is
    attempt,  \* attempt[n]: the attempt of connect_to
    dialled,  \* dialled[n]: the connections connect_to waits for
    pending,  \* pending[n]: the connections accept() waits for
    known,    \* known[n]: the peer is in the discovery map
    queue,    \* queue[n]: requests in connect_rx
    state,    \* state[n]: connection_state of DaemonState
    listed,   \* listed[n]: the shared map of peers is not empty
    dialler,  \* dialler[c]: who opened connection c
    stage,    \* stage[c]: how far connection c is
    sess,     \* sess[n][c]: the session of daemon n on connection c
    budget    \* troubles left (bound)

loopVars  == <<loop, attempt, dialled, pending>>
connVars  == <<dialler, stage>>
foundVars == <<known, queue>>
vars == <<loop, attempt, dialled, pending, known, queue, state, listed,
          dialler, stage, sess, budget>>

States == {"Disconnected", "Discovering", "Pairing", "Connected", "Active",
           "Suspended", "Reconnecting"}

(* A connection is "knocking" until the peer's main loop takes it,         *)
(* "accepting" while both wait for its QUIC handshake, which the dialler   *)
(* completes first ("confirmed"), then "open"; "dead" it is of no use any  *)
(* more, whether or not its two ends have noticed.                         *)
Stages == {"unused", "knocking", "accepting", "confirmed", "open", "dead"}

(* A session: handshake ("greeting", and for the acceptor "acked"), loops  *)
(* ("active"), cleanup of DaemonState done ("reset"), map cleared and      *)
(* waiting for the capture thread ("draining"), returned ("over"), or      *)
(* given up in the handshake, which cleans up nothing ("failed").          *)
Sessions == {"none", "greeting", "acked", "active", "reset", "draining", "over", "failed"}

Init ==
    /\ loop = [n \in Nodes |-> "select"]
    /\ attempt = [n \in Nodes |-> 0]
    /\ dialled = [n \in Nodes |-> {}]
    /\ pending = [n \in Nodes |-> {}]
    /\ known = [n \in Nodes |-> FALSE]
    /\ queue = [n \in Nodes |-> 0]
    /\ state = [n \in Nodes |-> "Disconnected"]
    /\ listed = [n \in Nodes |-> FALSE]
    /\ dialler = [c \in Conns |-> CHOOSE n \in Nodes : TRUE]
    /\ stage = [c \in Conns |-> "unused"]
    /\ sess = [n \in Nodes |-> [c \in Conns |-> "none"]]
    /\ budget = MaxTroubles

-----------------------------------------------------------------------------
(* Mistake: a state that is reconnecting can only become active again.     *)
CanTransitionBut(from, to) ==
    <<from, to>> \in {<<"Disconnected", "Active">>, <<"Active", "Disconnected">>,
                      <<"Active", "Reconnecting">>, <<"Reconnecting", "Active">>}

(* ConnectionState::can_transition_to; transition_to leaves the state      *)
(* alone when the table forbids, and every caller ignores that.            *)
CanTransition(from, to) ==
    <<from, to>> \in
        {<<"Disconnected", "Discovering">>, <<"Discovering", "Pairing">>,
         <<"Discovering", "Connected">>,    <<"Pairing", "Connected">>,
         <<"Connected", "Active">>,         <<"Active", "Suspended">>,
         <<"Active", "Disconnected">>,      <<"Suspended", "Reconnecting">>,
         <<"Reconnecting", "Active">>,      <<"Reconnecting", "Disconnected">>,
         <<"Disconnected", "Active">>,      <<"Active", "Reconnecting">>,
         <<"Connected", "Disconnected">>}

TransitionTo(n, next) ==
    state' = IF CanTransition(state[n], next) THEN [state EXCEPT ![n] = next] ELSE state

Spend(trouble) == /\ trouble \in Troubles /\ budget > 0
                  /\ budget' = budget - 1

Up(n) == loop[n] # "down"

SessionIs(n, c, s) == sess' = [sess EXCEPT ![n][c] = s]

(* Nobody has a use for c any more, so its name may stand for a new        *)
(* connection.  A session on it that waits for its capture thread changes  *)
(* nothing that anybody else looks at.                                     *)
Free(c) == \/ stage[c] = "unused"
           \/ /\ stage[c] = "dead"
              /\ \A n \in Nodes : /\ c \notin dialled[n] \cup pending[n]
                                  /\ sess[n][c] \in {"none", "draining", "over", "failed"}

(* transport.connect: a new connection starts to knock.  An accept() that  *)
(* was under way is dropped with its connection.                           *)
Knock(n) ==
    \E c \in Conns :
        /\ Free(c) /\ \A d \in Conns : d < c => ~Free(d)
        /\ dialler' = [dialler EXCEPT ![c] = n]
        /\ dialled' = [dialled EXCEPT ![n] = {c}]
        /\ stage' = [d \in Conns |-> IF d = c THEN "knocking"
                                     ELSE IF d \in pending[n] THEN "dead"
                                     ELSE stage[d]]
        /\ pending' = [pending EXCEPT ![n] = {}]
        /\ sess' = [m \in Nodes |-> [sess[m] EXCEPT ![c] = "none"]]

-----------------------------------------------------------------------------
(* Discovery.  An announcement of a peer that is not in the map asks the   *)
(* main loop to dial it; that of a known one only refreshes its entry.     *)
Ask(n) == /\ queue[n] < QueueLimit
          /\ queue' = [queue EXCEPT ![n] = @ + 1]

HearAnnounce(n) ==
    /\ Up(n) /\ Up(Peer(n)) /\ n \in Listeners
    /\ ~known[n]
    /\ known' = [known EXCEPT ![n] = TRUE]
    /\ Ask(n)
    /\ UNCHANGED <<loopVars, state, listed, connVars, sess, budget>>

(* The entry of a peer not heard of for PEER_TTL is dropped: the peer is   *)
(* gone, or its announcements were lost for that long.                     *)
Expire(n) ==
    /\ Up(n) /\ known[n]
    /\ known' = [known EXCEPT ![n] = FALSE]
    /\ \/ ~Up(Peer(n)) /\ UNCHANGED budget
       \/ Up(Peer(n)) /\ Spend("expiry")
    /\ UNCHANGED <<loopVars, queue, state, listed, connVars, sess>>

(* The Pair request of the command line.                                   *)
Pair(n) ==
    /\ Up(n)
    /\ Spend("pair")
    /\ Ask(n)
    /\ UNCHANGED <<loopVars, known, state, listed, connVars, sess>>

-----------------------------------------------------------------------------
(* The dial branch of the main loop.                                       *)

(* Mistake: the connection that was being accepted is forgotten without    *)
(* being closed.                                                           *)
RefuseForgetting(n) ==
    /\ state[n] = "Active"
    /\ pending' = [pending EXCEPT ![n] = {}]
    /\ UNCHANGED <<loop, attempt, dialled, dialler, stage, sess>>

(* connect_to looks at the state once, before it dials.                    *)
Refuse(n) ==
    /\ state[n] = "Active"
    /\ stage' = [c \in Conns |-> IF c \in pending[n] THEN "dead" ELSE stage[c]]
    /\ pending' = [pending EXCEPT ![n] = {}]
    /\ UNCHANGED <<loop, attempt, dialled, dialler, sess>>

TakeRequest(n) ==
    /\ loop[n] = "select" /\ queue[n] > 0
    /\ queue' = [queue EXCEPT ![n] = @ - 1]
    /\ \/ Refuse(n)
       \/ /\ state[n] # "Active"
          /\ Knock(n)
          /\ loop' = [loop EXCEPT ![n] = "dialling"]
          /\ attempt' = [attempt EXCEPT ![n] = 1]
    /\ UNCHANGED <<known, state, listed, budget>>

(* The handshake of QUIC succeeds: a session is spawned and the main loop  *)
(* goes back to its select!.                                               *)
DialSucceeds(n) ==
    /\ loop[n] = "dialling"
    /\ \E c \in dialled[n] :
          /\ stage[c] = "accepting"
          /\ stage' = [stage EXCEPT ![c] = "confirmed"]
          /\ SessionIs(n, c, "greeting")
    /\ dialled' = [dialled EXCEPT ![n] = {}]
    /\ loop' = [loop EXCEPT ![n] = "select"]
    /\ UNCHANGED <<attempt, pending, foundVars, state, listed, dialler, budget>>

(* A dial fails when its connection is dead, and times out when nobody     *)
(* takes it: the peer is down or its main loop busy.  The last attempt     *)
(* returns the error; any other asks for a transition and sleeps.          *)
DialHopeless(n, c) == \/ stage[c] = "dead"
                      \/ stage[c] = "knocking" /\ loop[Peer(n)] # "select"

NextLoopLate(n) ==  \* Mistake: one attempt too many.
    IF attempt[n] > MaxAttempts THEN "select" ELSE "backoff"

NextLoop(n) == IF attempt[n] = MaxAttempts THEN "select" ELSE "backoff"

DialFails(n) ==
    /\ loop[n] = "dialling"
    /\ \E c \in dialled[n] : /\ DialHopeless(n, c)
                             /\ stage' = [stage EXCEPT ![c] = "dead"]
    /\ dialled' = [dialled EXCEPT ![n] = {}]
    /\ loop' = [loop EXCEPT ![n] = NextLoop(n)]
    /\ IF attempt[n] = MaxAttempts THEN UNCHANGED state ELSE TransitionTo(n, "Reconnecting")
    /\ UNCHANGED <<attempt, pending, foundVars, listed, dialler, sess, budget>>

(* Mistake: attempts are not counted.                                      *)
SameAttempt(n) == UNCHANGED attempt

NextAttempt(n) == attempt' = [attempt EXCEPT ![n] = @ + 1]

(* After the delay, which only grows.                                      *)
Redial(n) ==
    /\ loop[n] = "backoff"
    /\ Knock(n)
    /\ NextAttempt(n)
    /\ loop' = [loop EXCEPT ![n] = "dialling"]
    /\ UNCHANGED <<foundVars, state, listed, budget>>

-----------------------------------------------------------------------------
(* The accept branch: endpoint.accept(), then the handshake.  Both awaits  *)
(* are one branch of the select!, dropped when another branch is taken.    *)
Accept(n) ==
    /\ loop[n] = "select" /\ pending[n] = {}
    /\ \E c \in Conns :
          /\ stage[c] = "knocking" /\ dialler[c] = Peer(n)
          /\ stage' = [stage EXCEPT ![c] = "accepting"]
          /\ pending' = [pending EXCEPT ![n] = {c}]
    /\ UNCHANGED <<loop, attempt, dialled, foundVars, state, listed, dialler, sess, budget>>

AcceptReturns(n) ==
    /\ loop[n] = "select"
    /\ \E c \in pending[n] :
          \/ /\ stage[c] = "confirmed"
             /\ stage' = [stage EXCEPT ![c] = "open"]
             /\ SessionIs(n, c, "greeting")
          \/ stage[c] = "dead" /\ UNCHANGED <<stage, sess>>
    /\ pending' = [pending EXCEPT ![n] = {}]
    /\ UNCHANGED <<loop, attempt, dialled, foundVars, state, listed, dialler, budget>>

-----------------------------------------------------------------------------
(* The handshake of a session.  The dialler sends Handshake as its session *)
(* starts.  The acceptor hears it and answers with HandshakeAck; each of   *)
(* them then becomes active.                                               *)
Greeted(n, c) == stage[c] = "open" /\ sess[n][c] = "greeting"

Acknowledge(n, c) ==
    /\ Greeted(n, c) /\ dialler[c] # n
    /\ SessionIs(n, c, "acked")
    /\ UNCHANGED <<loopVars, foundVars, state, listed, connVars, budget>>

Answered(c) == \E n \in Nodes \ {dialler[c]} :
                  sess[n][c] \in {"acked", "active", "reset", "draining", "over"}

Activate(n, c) ==
    /\ \/ dialler[c] = n /\ Greeted(n, c) /\ Answered(c)
       \/ dialler[c] # n /\ sess[n][c] = "acked"
    /\ SessionIs(n, c, "active")
    /\ TransitionTo(n, "Active")
    /\ listed' = [listed EXCEPT ![n] = TRUE]
    /\ UNCHANGED <<loopVars, foundVars, connVars, budget>>

(* The peer's session has returned and dropped its control stream, or the  *)
(* connection is gone: whoever waits for a message gets an error.          *)
HungUp(n, c) == stage[c] = "dead" \/ sess[Peer(n)][c] \in {"over", "failed"}

GreetingFails(n, c) ==
    /\ sess[n][c] = "greeting"
    /\ HungUp(n, c)
    /\ SessionIs(n, c, "failed")
    /\ UNCHANGED <<loopVars, foundVars, state, listed, connVars, budget>>

-----------------------------------------------------------------------------
(* The end of a session: the shared state is reset, whoever else uses it;  *)
(* then the map is cleared, then the capture thread is awaited.            *)
Reset(n, c) ==
    /\ sess[n][c] = "active"
    /\ HungUp(n, c)
    /\ SessionIs(n, c, "reset")
    /\ TransitionTo(n, "Disconnected")
    /\ UNCHANGED <<loopVars, foundVars, listed, connVars, budget>>

UnlistLast(n, c) ==  \* Mistake: only the last session to end clears the map.
    /\ sess[n][c] = "reset"
    /\ SessionIs(n, c, "draining")
    /\ listed' = [listed EXCEPT ![n] = @ /\ \E d \in Conns \ {c} : sess[n][d] # "none"]
    /\ UNCHANGED <<loopVars, foundVars, state, connVars, budget>>

Unlist(n, c) ==
    /\ sess[n][c] = "reset"
    /\ SessionIs(n, c, "draining")
    /\ listed' = [listed EXCEPT ![n] = FALSE]
    /\ UNCHANGED <<loopVars, foundVars, state, connVars, budget>>

Return(n, c) ==
    /\ sess[n][c] = "draining"
    /\ SessionIs(n, c, "over")
    /\ UNCHANGED <<loopVars, foundVars, state, listed, connVars, budget>>

-----------------------------------------------------------------------------
(* The network loses a connection, in the middle of its QUIC handshake or  *)
(* later: nothing is heard of it until it times out.                       *)
ConnectionLost ==
    /\ Spend("loss")
    /\ \E c \in Conns : /\ stage[c] \in {"knocking", "accepting", "confirmed", "open"}
                        /\ stage' = [stage EXCEPT ![c] = "dead"]
    /\ UNCHANGED <<loopVars, foundVars, state, listed, dialler, sess>>

(* The process goes, on a signal or after Stop: run() is dropped wherever  *)
(* it is, with all tasks.  Its peer notices in its own time.               *)
Exit(n) ==
    /\ Up(n)
    /\ Spend("exit")
    /\ loop' = [loop EXCEPT ![n] = "down"]
    /\ dialled' = [dialled EXCEPT ![n] = {}]
    /\ pending' = [pending EXCEPT ![n] = {}]
    /\ known' = [known EXCEPT ![n] = FALSE]
    /\ queue' = [queue EXCEPT ![n] = 0]
    /\ state' = [state EXCEPT ![n] = "Disconnected"]
    /\ listed' = [listed EXCEPT ![n] = FALSE]
    /\ sess' = [sess EXCEPT ![n] = [c \in Conns |->
                    IF @[c] \in {"none", "failed"} THEN @[c] ELSE "over"]]
    /\ stage' = [c \in Conns |->
                    IF \/ stage[c] = "unused"
                       \/ stage[c] = "knocking" /\ dialler[c] = Peer(n)
                    THEN stage[c] ELSE "dead"]
    /\ UNCHANGED <<attempt, dialler>>

Restart(n) ==
    /\ loop[n] = "down"
    /\ loop' = [loop EXCEPT ![n] = "select"]
    /\ UNCHANGED <<attempt, dialled, pending, foundVars, state, listed, connVars, sess, budget>>

-----------------------------------------------------------------------------
MainLoop(n) == \/ TakeRequest(n) \/ DialSucceeds(n) \/ DialFails(n) \/ Redial(n)
               \/ Accept(n) \/ AcceptReturns(n)

Session(n, c) == \/ Acknowledge(n, c) \/ Activate(n, c) \/ GreetingFails(n, c)
                 \/ Reset(n, c) \/ Unlist(n, c)

Next == \/ \E n \in Nodes : \/ HearAnnounce(n) \/ Expire(n) \/ Pair(n)
                            \/ MainLoop(n) \/ Exit(n) \/ Restart(n)
                            \/ \E c \in Conns : Session(n, c) \/ Return(n, c)
        \/ ConnectionLost

Spec == Init /\ [][Next]_vars

(* The tasks run, a dial ends one way or the other (QUIC gives up after    *)
(* its idle timeout) and announcements arrive again and again.  A session  *)
(* that waits for its capture thread may wait as long as nobody touches a  *)
(* device, so Return has no fairness.                                      *)
Fairness ==
    \A n \in Nodes :
        /\ WF_vars(HearAnnounce(n)) /\ WF_vars(TakeRequest(n))
        /\ WF_vars(DialSucceeds(n)) /\ WF_vars(DialFails(n)) /\ WF_vars(Redial(n))
        /\ WF_vars(Accept(n)) /\ WF_vars(AcceptReturns(n))
        /\ \A c \in Conns : WF_vars(Session(n, c))

FairSpec == Spec /\ Fairness

-----------------------------------------------------------------------------
(* The type invariant.                                                     *)
TypeOK ==
    /\ loop \in [Nodes -> {"select", "dialling", "backoff", "down"}]
    /\ attempt \in [Nodes -> 0 .. MaxAttempts]
    /\ dialled \in [Nodes -> SUBSET Conns]
    /\ pending \in [Nodes -> SUBSET Conns]
    /\ known \in [Nodes -> BOOLEAN]
    /\ queue \in [Nodes -> 0 .. QueueLimit]
    /\ state \in [Nodes -> States]
    /\ listed \in [Nodes -> BOOLEAN]
    /\ dialler \in [Conns -> Nodes]
    /\ stage \in [Conns -> Stages]
    /\ sess \in [Nodes -> [Conns -> Sessions]]
    /\ budget \in Nat

ActiveOn(n) == {c \in Conns : sess[n][c] = "active"}

(* A state that is_connected() holds of belongs to a running session,      *)
(* although every error of transition_to is dropped, sessions overlap and  *)
(* a dial that fails touches the state of a session it knows nothing of.   *)
(* A state left Active without a session would refuse every later dial.    *)
IsConnected(s) == s \in {"Connected", "Active", "Suspended", "Reconnecting"}

ConnectedMeansSession ==
    \A n \in Nodes : IsConnected(state[n]) => ActiveOn(n) # {}

(* A peer that `kmflow status` lists is one whose session runs or has just *)
(* ended.  (A session that runs need not be listed: the cleanup of another *)
(* one clears the whole map.)                                              *)
ListedMeansSession ==
    \A n \in Nodes : listed[n] =>
        \E c \in Conns : sess[n][c] \in {"active", "reset"}

(* Every handshake of a session ends, though it has neither a timeout nor  *)
(* a branch for the shutdown: the peer answers, or the connection dies     *)
(* with the accept() that was dropped.                                     *)
HandshakeResolves ==
    \A n \in Nodes : \A c \in Conns :
        sess[n][c] \in {"greeting", "acked"} ~> sess[n][c] \notin {"greeting", "acked"}

(* A daemon that dials goes back to accepting, even when both dial each    *)
(* other and neither accepts.                                              *)
MainLoopReturns ==
    \A n \in Nodes :
        loop[n] \in {"dialling", "backoff"} ~> loop[n] \in {"select", "down"}
=============================================================================

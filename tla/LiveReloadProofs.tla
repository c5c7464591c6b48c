-------------------------- MODULE LiveReloadProofs --------------------------
(***************************************************************************)
(* No browser misses a change in silence, for any number of hubs and       *)
(* connections, any capacity of the channels and any inputs.               *)
(*                                                                         *)
(* The inductive invariant follows a broadcast: a connection that is due   *)
(* and still registered has not been visited, unless the hub is about to   *)
(* send to it. It holds against what other hubs do, because a connection   *)
(* registers once: whoever takes it out of the set closes its channel, and *)
(* it does not come back.                                                  *)
(***************************************************************************)
EXTENDS LiveReload, TLAPS

\* A connection that has yet to register is neither registered, closed nor due.
FreshApart ==
    /\ \A c \in Conns : reader[c] = "new" => c \notin connections \cup closed
    /\ \A c \in Conns, h \in Hubs : reader[c] = "new" => c \notin hub[h].due
\* Every other one is registered or closed, and not both.
KnownOrClosed == \A c \in Conns : reader[c] # "new" => c \in connections \cup closed
OpenWhileRegistered == connections \cap closed = {}
SendsToKnown == \A h \in Hubs :
    hub[h].at = "send" => hub[h].to \in Conns /\ reader[hub[h].to] # "new"
\* What a hub has passed in its range is no longer due, or no longer registered.
PassedIsServed == \A h \in Hubs : \A c \in hub[h].due \cap hub[h].seen :
    c \in connections => hub[h].at = "send" /\ hub[h].to = c

HubInv ==
    /\ TypeOK
    /\ FreshApart
    /\ KnownOrClosed
    /\ OpenWhileRegistered
    /\ SendsToKnown
    /\ PassedIsServed

-----------------------------------------------------------------------------
LEMMA InitHubInv == Init => HubInv
  <1> SUFFICES ASSUME Init PROVE HubInv
    OBVIOUS
  <1>1. Selecting \in HubState /\ Selecting.at = "select" /\ Selecting.due = {}
    BY DEF Selecting, HubState
  <1>2. \A h \in Hubs : hub[h] = Selecting
    BY DEF Init
  <1>3. TypeOK
    BY <1>1, LiveReloadAssumption
    DEF Init, TypeOK, LiveReloadAssumption, ReaderState, WriterState, Panicking
  <1>4. FreshApart /\ KnownOrClosed /\ OpenWhileRegistered
    BY <1>1, <1>2 DEF Init, FreshApart, KnownOrClosed, OpenWhileRegistered
  <1>5. SendsToKnown /\ PassedIsServed
    BY <1>1, <1>2 DEF SendsToKnown, PassedIsServed
  <1> QED
    BY <1>3, <1>4, <1>5 DEF HubInv

\* What a hub's step may do to its own state without disturbing the invariant, if it
\* leaves the connections alone.
LEMMA HubMoves ==
  ASSUME NEW h \in Hubs, HubInv, NEW s \in HubState,
         hub' = [hub EXCEPT ![h] = s],
         UNCHANGED <<connections, reader, closed>>,
         s.due \subseteq hub[h].due \cup connections,
         s.at = "send" => s.to \in Conns /\ reader[s.to] # "new",
         \A c \in s.due \cap s.seen : c \in connections => s.at = "send" /\ s.to = c
  PROVE  /\ hub' \in [Hubs -> HubState]
         /\ FreshApart' /\ KnownOrClosed' /\ OpenWhileRegistered'
         /\ SendsToKnown' /\ PassedIsServed'
  <1>1. hub \in [Hubs -> HubState] /\ hub' \in [Hubs -> HubState] /\ hub'[h] = s
    BY DEF HubInv, TypeOK
  <1>2. \A g \in Hubs : g # h => hub'[g] = hub[g]
    BY <1>1
  <1>3. FreshApart'
    BY <1>1, <1>2 DEF HubInv, FreshApart
  <1>4. KnownOrClosed' /\ OpenWhileRegistered'
    BY DEF HubInv, KnownOrClosed, OpenWhileRegistered
  <1>5. SendsToKnown'
    BY <1>1, <1>2 DEF HubInv, SendsToKnown
  <1>6. PassedIsServed'
    <2> SUFFICES ASSUME NEW g \in Hubs, NEW c \in hub'[g].due \cap hub'[g].seen, c \in connections
                 PROVE  hub'[g].at = "send" /\ hub'[g].to = c
      BY DEF PassedIsServed
    <2>1. CASE g = h
      BY <1>1, <2>1
    <2>2. CASE g # h
      BY <1>2, <2>2 DEF HubInv, PassedIsServed
    <2> QED
      BY <2>1, <2>2
  <1> QED
    BY <1>1, <1>3, <1>4, <1>5, <1>6

\* Every step keeps the invariant.
LEMMA NextHubInv == HubInv /\ [Next]_vars => HubInv'
  <1> SUFFICES ASSUME HubInv, [Next]_vars PROVE HubInv'
    OBVIOUS
  <1>0. /\ Callbacks \in Nat /\ Cap \in Nat /\ MaxChanges \in Nat /\ MaxHellos \in Nat
        /\ None \notin Conns
    BY LiveReloadAssumption DEF LiveReloadAssumption
  <1>1. ASSUME NEW h \in Hubs, NEW c \in Conns, Register(h, c)
        PROVE  HubInv'
    <2>1. TypeOK'
      BY <1>1 DEF Register, HubInv, TypeOK, ReaderState
    <2>2. \A g \in Hubs : c \notin hub[g].due
      BY <1>1 DEF Register, HubInv, FreshApart
    <2>3. /\ UNCHANGED <<hub, closed>> /\ connections' = connections \cup {c}
          /\ c \notin closed /\ reader'[c] = "registered"
          /\ \A d \in Conns : d # c => reader'[d] = reader[d]
      BY <1>1 DEF Register, HubInv, FreshApart, TypeOK
    <2>4. FreshApart' /\ KnownOrClosed' /\ OpenWhileRegistered'
      BY <2>2, <2>3 DEF HubInv, FreshApart, KnownOrClosed, OpenWhileRegistered
    <2>5. SendsToKnown' /\ PassedIsServed'
      BY <2>2, <2>3 DEF HubInv, SendsToKnown, PassedIsServed
    <2> QED
      BY <2>1, <2>4, <2>5 DEF HubInv
  <1>2. ASSUME NEW h \in Hubs, NEW c \in Conns, Unregister(h, c)
        PROVE  HubInv'
    <2>1. TypeOK'
      BY <1>2 DEF Unregister, HubInv, TypeOK, ReaderState
    <2>2. /\ UNCHANGED hub /\ connections' = connections \ {c} /\ closed' = closed \cup {c}
          /\ reader[c] # "new" /\ reader'[c] = "gone"
          /\ \A d \in Conns : d # c => reader'[d] = reader[d]
      BY <1>2 DEF Unregister, HubInv, TypeOK
    <2>3. FreshApart' /\ KnownOrClosed' /\ OpenWhileRegistered'
      BY <2>2 DEF HubInv, FreshApart, KnownOrClosed, OpenWhileRegistered
    <2>4. SendsToKnown' /\ PassedIsServed'
      BY <2>2 DEF HubInv, SendsToKnown, PassedIsServed
    <2> QED
      BY <2>1, <2>3, <2>4 DEF HubInv
  <1>3. ASSUME NEW h \in Hubs, Broadcast(h)
        PROVE  HubInv'
    <2> DEFINE s == [at |-> "range", seen |-> {}, due |-> connections, to |-> None]
    <2>1. s \in HubState /\ s.at # "send" /\ s.seen = {} /\ s.due = connections
      BY DEF HubState, HubInv, TypeOK
    <2>2. /\ hub' = [hub EXCEPT ![h] = s]
          /\ UNCHANGED <<connections, reader, writer, queue, closed, open, changes, hellos, panics>>
      BY <1>3 DEF Broadcast
    <2>3. pending' \in 0 .. Callbacks
      BY <1>0, <1>3 DEF Broadcast, HubInv, TypeOK
    <2> HIDE DEF s
    <2>4. /\ hub' \in [Hubs -> HubState]
          /\ FreshApart' /\ KnownOrClosed' /\ OpenWhileRegistered'
          /\ SendsToKnown' /\ PassedIsServed'
      BY <2>1, <2>2, HubMoves
    <2> QED
      BY <2>2, <2>3, <2>4 DEF HubInv, TypeOK
  <1>4. ASSUME NEW h \in Hubs, Iterate(h)
        PROVE  HubInv'
    <2>0. UNCHANGED <<connections, reader, writer, queue, closed, open, pending, changes, hellos, panics>>
      BY <1>4 DEF Iterate
    <2>1. hub[h] \in HubState /\ hub[h].at = "range"
      BY <1>4 DEF Iterate, HubInv, TypeOK
    <2>2. /\ hub' \in [Hubs -> HubState]
          /\ FreshApart' /\ KnownOrClosed' /\ OpenWhileRegistered'
          /\ SendsToKnown' /\ PassedIsServed'
      <3>1. ASSUME NEW c \in connections \ hub[h].seen,
                   hub' = [hub EXCEPT ![h].at = "send", ![h].seen = @ \cup {c}, ![h].to = c]
            PROVE  <2>2!:
        <4> DEFINE s == [hub[h] EXCEPT !.at = "send", !.seen = @ \cup {c}, !.to = c]
        <4>1. c \in Conns /\ reader[c] # "new"
          BY DEF HubInv, TypeOK, FreshApart
        <4>2. /\ s \in HubState /\ s.at = "send" /\ s.to = c
              /\ s.due = hub[h].due /\ s.seen = hub[h].seen \cup {c}
          BY <2>1, <4>1 DEF HubState
        <4>3. hub' = [hub EXCEPT ![h] = s]
          BY <3>1 DEF HubInv, TypeOK
        <4>4. \A d \in s.due \cap s.seen : d \in connections => s.to = d
          BY <2>1, <4>2 DEF HubInv, PassedIsServed
        <4> HIDE DEF s
        <4> QED
          BY <2>0, <4>1, <4>2, <4>3, <4>4, HubMoves
      <3>2. ASSUME hub' = [hub EXCEPT ![h] = Selecting]
            PROVE  <2>2!:
        <4>1. Selecting \in HubState /\ Selecting.at # "send" /\ Selecting.due = {}
          BY DEF Selecting, HubState
        <4> QED
          BY <2>0, <3>2, <4>1, HubMoves
      <3> QED
        BY <1>4, <3>1, <3>2 DEF Iterate
    <2> QED
      BY <2>0, <2>2 DEF HubInv, TypeOK
  <1>5. ASSUME NEW h \in Hubs, Send(h)
        PROVE  HubInv'
    <2> DEFINE c == hub[h].to
               s == [hub[h] EXCEPT !.at = "range", !.to = None]
               t == [hub[h] EXCEPT !.at = "range", !.due = @ \ {c}, !.to = None]
    <2>0. UNCHANGED <<reader, writer, open, pending, changes, hellos>>
      BY <1>5 DEF Send
    <2>1. /\ hub \in [Hubs -> HubState] /\ hub[h] \in HubState
          /\ hub[h].at = "send" /\ c \in Conns
      BY <1>5 DEF Send, HubInv, TypeOK, SendsToKnown
    <2>2. /\ s \in HubState /\ s.at = "range" /\ s.due = hub[h].due /\ s.seen = hub[h].seen
          /\ t \in HubState /\ t.at = "range" /\ t.due = hub[h].due \ {c} /\ t.seen = hub[h].seen
      BY <2>1 DEF HubState
    <2>3. \A d \in hub[h].due \cap hub[h].seen : d \in connections => d = c
      BY DEF HubInv, PassedIsServed
    <2>4. CASE /\ c \in closed
               /\ panics' = panics \cup {"hub"}
               /\ hub' = [hub EXCEPT ![h].at = "range", ![h].to = None]
               /\ UNCHANGED <<connections, queue, closed>>
      <3>1. hub' = [hub EXCEPT ![h] = s]
        BY <2>1, <2>4
      <3>2. \A d \in s.due \cap s.seen : d \notin connections
        BY <2>2, <2>3, <2>4 DEF HubInv, OpenWhileRegistered
      <3> HIDE DEF s
      <3>3. /\ hub' \in [Hubs -> HubState]
            /\ FreshApart' /\ KnownOrClosed' /\ OpenWhileRegistered'
            /\ SendsToKnown' /\ PassedIsServed'
        BY <2>0, <2>2, <2>4, <3>1, <3>2, HubMoves
      <3> QED
        BY <2>0, <2>4, <3>3 DEF HubInv, TypeOK, Panicking
    <2>5. CASE /\ c \notin closed
               /\ queue[c] < Cap
               /\ queue' = [queue EXCEPT ![c] = @ + 1]
               /\ hub' = [hub EXCEPT ![h].at = "range", ![h].due = @ \ {c}, ![h].to = None]
               /\ UNCHANGED <<connections, closed, panics>>
      <3>1. hub' = [hub EXCEPT ![h] = t]
        BY <2>1, <2>5
      <3>2. \A d \in t.due \cap t.seen : d \notin connections
        BY <2>2, <2>3
      <3>3. queue' \in [Conns -> 0 .. Cap]
        BY <1>0, <2>1, <2>5 DEF HubInv, TypeOK
      <3> HIDE DEF t
      <3>4. /\ hub' \in [Hubs -> HubState]
            /\ FreshApart' /\ KnownOrClosed' /\ OpenWhileRegistered'
            /\ SendsToKnown' /\ PassedIsServed'
        BY <2>0, <2>2, <2>5, <3>1, <3>2, HubMoves
      <3> QED
        BY <2>0, <2>5, <3>3, <3>4 DEF HubInv, TypeOK
    <2>6. CASE /\ c \notin closed
               /\ queue[c] = Cap
               /\ connections' = connections \ {c}
               /\ closed' = closed \cup {c}
               /\ hub' = [hub EXCEPT ![h].at = "range", ![h].to = None]
               /\ UNCHANGED <<queue, panics>>
      <3>1. hub' \in [Hubs -> HubState] /\ hub'[h] = s /\ \A g \in Hubs : g # h => hub'[g] = hub[g]
        BY <2>1, <2>2, <2>6
      <3>2. reader[c] # "new"
        BY <2>1 DEF HubInv, SendsToKnown
      <3>3. TypeOK'
        BY <2>0, <2>1, <2>6, <3>1 DEF HubInv, TypeOK
      <3>4. FreshApart' /\ KnownOrClosed' /\ OpenWhileRegistered'
        BY <2>0, <2>2, <2>6, <3>1, <3>2
        DEF HubInv, FreshApart, KnownOrClosed, OpenWhileRegistered
      <3>5. SendsToKnown'
        BY <2>0, <2>2, <3>1 DEF HubInv, SendsToKnown
      <3>6. PassedIsServed'
        BY <2>2, <2>3, <2>6, <3>1 DEF HubInv, PassedIsServed
      <3> QED
        BY <3>3, <3>4, <3>5, <3>6 DEF HubInv
    <2> QED
      BY <1>5, <2>4, <2>5, <2>6 DEF Send
  <1>6. ASSUME NEW c \in Conns, Reader(c)
        PROVE  HubInv'
    <2>1. UNCHANGED <<connections, hub, closed, open, pending, changes, hellos>>
      BY <1>6 DEF Reader, Serve, ReadFails, AnswerHello
    <2>2. panics' \subseteq Panicking
      BY <1>6 DEF Reader, Serve, ReadFails, AnswerHello, HubInv, TypeOK, Panicking
    <2>3. /\ reader' \in [Conns -> ReaderState]
          /\ \A d \in Conns : reader'[d] = "new" <=> reader[d] = "new"
      BY <1>6 DEF Reader, Serve, ReadFails, AnswerHello, HubInv, TypeOK, ReaderState
    <2>4. writer' \in [Conns -> WriterState]
      BY <1>6 DEF Reader, Serve, ReadFails, AnswerHello, HubInv, TypeOK, WriterState
    <2>5. queue' \in [Conns -> 0 .. Cap]
      BY <1>0, <1>6 DEF Reader, Serve, ReadFails, AnswerHello, HubInv, TypeOK
    <2>6. TypeOK'
      BY <2>1, <2>2, <2>3, <2>4, <2>5 DEF HubInv, TypeOK
    <2> QED
      BY <2>1, <2>3, <2>6 DEF HubInv, FreshApart, KnownOrClosed, OpenWhileRegistered,
         SendsToKnown, PassedIsServed
  <1>7. ASSUME NEW c \in Conns, ReadHello(c)
        PROVE  HubInv'
    <2>1. UNCHANGED <<connections, hub, closed>> /\ \A d \in Conns : reader'[d] = "new" <=> reader[d] = "new"
      BY <1>7 DEF ReadHello, HubInv, TypeOK
    <2>2. TypeOK'
      BY <1>0, <1>7 DEF ReadHello, HubInv, TypeOK, ReaderState
    <2> QED
      BY <2>1, <2>2 DEF HubInv, FreshApart, KnownOrClosed, OpenWhileRegistered,
         SendsToKnown, PassedIsServed
  <1>8. ASSUME UNCHANGED <<connections, hub, reader, closed>>, TypeOK'
        PROVE  HubInv'
    BY <1>8 DEF HubInv, FreshApart, KnownOrClosed, OpenWhileRegistered,
       SendsToKnown, PassedIsServed
  <1>9. ASSUME NEW c \in Conns, Writer(c)
        PROVE  HubInv'
    <2>1. TypeOK'
      BY <1>0, <1>9 DEF Writer, Receive, WriterLeaves, HubInv, TypeOK, WriterState
    <2> QED
      BY <1>8, <1>9, <2>1 DEF Writer, Receive, WriterLeaves
  <1>10. ASSUME NEW c \in Conns, Written(c) \/ Leave(c)
        PROVE  HubInv'
    <2>1. TypeOK'
      BY <1>10 DEF Written, Leave, HubInv, TypeOK, WriterState
    <2> QED
      BY <1>8, <1>10, <2>1 DEF Written, Leave
  <1>11. CASE Change
    <2>1. TypeOK'
      BY <1>0, <1>11 DEF Change, HubInv, TypeOK
    <2> QED
      BY <1>8, <1>11, <2>1 DEF Change
  <1>12. ASSUME NEW g \in Hubs, NEW h \in Hubs, MapFault(g, h)
        PROVE  HubInv'
    <2>1. TypeOK'
      BY <1>12 DEF MapFault, HubInv, TypeOK, Panicking
    <2> QED
      BY <1>8, <1>12, <2>1 DEF MapFault
  <1>13. CASE UNCHANGED vars
    <2>1. TypeOK'
      BY <1>13 DEF vars, HubInv, TypeOK
    <2> QED
      BY <1>8, <1>13, <2>1 DEF vars
  <1> QED
    BY <1>1, <1>2, <1>3, <1>4, <1>5, <1>6, <1>7, <1>9, <1>10, <1>11, <1>12, <1>13 DEF Next, Hub

LEMMA SpecHubInv == Spec => []HubInv
  BY InitHubInv, NextHubInv, PTL DEF Spec

-----------------------------------------------------------------------------
\* At the end of a broadcast nothing registered is due any more.
LEMMA EndServesAll ==
  ASSUME HubInv, NEW h \in Hubs, hub[h].at = "range",
         connections \cap hub[h].due \subseteq hub[h].seen
  PROVE  hub[h].due \subseteq closed
  <1> SUFFICES ASSUME NEW c \in hub[h].due PROVE c \in closed
    OBVIOUS
  <1>1. c \in Conns
    BY DEF HubInv, TypeOK, HubState
  <1>2. c \notin connections
    BY DEF HubInv, PassedIsServed
  <1>3. reader[c] # "new"
    BY <1>1 DEF HubInv, FreshApart
  <1> QED
    BY <1>1, <1>2, <1>3 DEF HubInv, KnownOrClosed

\* A step that takes a hub from its range to its select is that hub's Iterate.
LEMMA StepMissesNoChange ==
  ASSUME HubInv, [Next]_vars, NEW h \in Hubs, hub[h].at = "range", hub'[h].at = "select"
  PROVE  hub[h].due \subseteq closed
  <1>0. hub \in [Hubs -> HubState]
    BY DEF HubInv, TypeOK
  <1>1. ASSUME NEW g \in Hubs, Iterate(g)
        PROVE  hub[h].due \subseteq closed
    <2>1. g = h
      BY <1>0, <1>1 DEF Iterate
    <2>2. connections \cap hub[h].due \subseteq hub[h].seen
      <3>1. ASSUME NEW c \in connections \ hub[h].seen,
                   hub' = [hub EXCEPT ![h].at = "send", ![h].seen = @ \cup {c}, ![h].to = c]
            PROVE  FALSE
        BY <1>0, <3>1 DEF HubState
      <3> QED
        BY <1>1, <2>1, <3>1 DEF Iterate
    <2> QED
      BY <2>2, EndServesAll
  <1>2. ASSUME NEW g \in Hubs, Send(g)
        PROVE  FALSE
    <2>1. g # h
      BY <1>2 DEF Send
    <2>2. hub'[h] = hub[h]
      BY <1>0, <1>2, <2>1 DEF Send
    <2> QED
      BY <2>2
  <1>3. ASSUME NEW g \in Hubs, Broadcast(g)
        PROVE  FALSE
    BY <1>0, <1>3 DEF Broadcast
  <1>4. ASSUME hub' = hub
        PROVE  FALSE
    BY <1>4
  <1>5. ASSUME NEW g \in Hubs, NEW c \in Conns, Register(g, c) \/ Unregister(g, c)
        PROVE  FALSE
    BY <1>4, <1>5 DEF Register, Unregister
  <1>6. ASSUME NEW c \in Conns, Reader(c) \/ ReadHello(c) \/ Writer(c) \/ Written(c) \/ Leave(c)
        PROVE  FALSE
    BY <1>4, <1>6 DEF Reader, Serve, ReadFails, AnswerHello, ReadHello, Writer, Receive,
       WriterLeaves, Written, Leave
  <1>7. ASSUME NEW f \in Hubs, NEW g \in Hubs, MapFault(f, g)
        PROVE  FALSE
    BY <1>4, <1>7 DEF MapFault
  <1>8. CASE Change
    BY <1>4, <1>8 DEF Change
  <1>9. CASE UNCHANGED vars
    BY <1>4, <1>9 DEF vars
  <1> QED
    BY <1>1, <1>2, <1>3, <1>5, <1>6, <1>7, <1>8, <1>9 DEF Next, Hub

\* However many hubs share the connections, no browser misses a change in silence: at
\* the end of a broadcast each connection that was there has been sent it or is closed.
THEOREM NoSilentMiss == Spec => NoChangeMissed
  <1>1. HubInv /\ [Next]_vars =>
          [\A h \in Hubs : hub[h].at = "range" /\ hub'[h].at = "select"
                             => hub[h].due \subseteq closed]_vars
    BY StepMissesNoChange
  <1> QED
    BY <1>1, SpecHubInv, PTL DEF Spec, NoChangeMissed

\* The types hold for any number of hubs; no channel has more messages than its capacity.
THEOREM TypesHold == Spec => []TypeOK
  <1>1. HubInv => TypeOK
    BY DEF HubInv
  <1> QED
    BY <1>1, SpecHubInv, PTL
===============================================================================

------------------------- MODULE TokenRefreshProofs -------------------------
(***************************************************************************)
(* Theorems about TokenRefresh, for any processes, goroutines, destinations *)
(* and number of generations.                                              *)
(***************************************************************************)
EXTENDS TokenRefresh, TLAPS

USE TokenRefreshAssumption

-----------------------------------------------------------------------------
(***************************************************************************)
(* Type correctness.                                                       *)
(***************************************************************************)
\* The helper operators return what their names say.
LEMMA CredentialTypes ==
    /\ NoCred \in Credential
    /\ NoPending \in PendingRefresh
    /\ NoAnswer \in Answer
    /\ \A g \in Gens : Issued(g, g, g) \in Credential
BY DEF NoCred, NoPending, NoAnswer, Credential, PendingRefresh, Answer, Issued,
       Gens, Expiry, NoExpiry, LongPast, AnswerKind

LEMMA AnswerTypes ==
    ASSUME NEW g \in Gens, NEW f \in Gens \cup {0}, NEW a \in Answers(g, f)
    PROVE  a \in Answer
BY CredentialTypes DEF Answers, Answer, Credential, AnswerKind, Gens, Expiry, Blank, NoExpiry, LongPast

\* The variables keep the types of RefreshTransport's fields, of the stored
\* credential and of the issuer's records.
LEMMA TypeInit == Init => TypeOK
BY CredentialTypes DEF Init, TypeOK, Gens, Stage, Issued

LEMMA TypeReturn ==
    ASSUME TypeOK, NEW r \in Reqs, NEW b \in BOOLEAN, Return(r, b)
    PROVE  /\ lock' \in Reqs \cup {None}
           /\ ok' \in [Reqs -> BOOLEAN]
           /\ pc' \in [Reqs -> Stage]
           /\ resp' \in [Reqs -> Answer]
BY CredentialTypes DEF TypeOK, Return, Stage

LEMMA TypeStep == TypeOK /\ [Next]_vars => TypeOK'
<1> SUFFICES ASSUME TypeOK, [Next]_vars PROVE TypeOK'
  OBVIOUS
<1> USE DEF TypeOK
<1>1. ASSUME NEW r \in Reqs, Goroutine(r) PROVE TypeOK'
  <2>1. CASE Check(r)
    BY <2>1 DEF Check, Stage, issuerVars, timeVars, fileVars
  <2>2. CASE WaiterGivesUp(r)
    BY <2>2 DEF WaiterGivesUp, Stage, issuerVars, timeVars, fileVars, procVars
  <2>3. CASE LockFails(r)
    BY <2>3 DEF LockFails, Stage, issuerVars, timeVars, fileVars, procVars
  <2>4. CASE AcquireLock(r)
    <3>1. CASE Return(r, FALSE)
      BY <2>4, <3>1, TypeReturn DEF AcquireLock, issuerVars, timeVars, procVars
    <3>2. CASE ~Return(r, FALSE)
      BY <2>4, <3>2 DEF AcquireLock, Stage, issuerVars, timeVars, procVars
    <3>3. QED
      BY <3>1, <3>2
  <2>5. CASE ReloadFails(r)
    BY <2>5, CredentialTypes DEF ReloadFails, Return, Stage, issuerVars, timeVars, procVars
  <2>6. CASE Reload(r)
    <3>1. Adopted(ProcOf[r]) \in Credential
      BY DEF Adopted
    <3>2. mem' \in [Procs -> Credential]
      BY <2>6, <3>1 DEF Reload
    <3>3. /\ lock' \in Reqs \cup {None}
          /\ ok' \in [Reqs -> BOOLEAN]
          /\ pc' \in [Reqs -> Stage]
          /\ resp' \in [Reqs -> Answer]
      <4>1. CASE Return(r, TRUE) \/ Return(r, FALSE)
        BY <4>1, TypeReturn
      <4>2. CASE ~Return(r, TRUE) /\ ~Return(r, FALSE)
        BY <2>6, <4>2 DEF Reload, Stage
      <4>3. QED
        BY <4>1, <4>2
    <3>4. QED
      BY <2>6, <3>2, <3>3 DEF Reload, issuerVars, timeVars
  <2>7. CASE IssuerAnswers(r)
    <3>1. mem[ProcOf[r]].ref \in Gens \cup {0}
      BY DEF Credential
    <3>2. CASE Redeemable(mem[ProcOf[r]].ref, bind[ProcOf[r]]) /\ minted < MaxGen
      <4>1. minted + 1 \in Gens
        BY <3>2 DEF Gens
      <4>2. mem[ProcOf[r]].ref \in Gens
        BY <3>2 DEF Redeemable
      <4>3. resp' \in [Reqs -> Answer]
        BY <2>7, <3>2, <4>1, <4>2, AnswerTypes DEF IssuerAnswers
      <4>4. QED
        BY <2>7, <3>2, <4>1, <4>2, <4>3
        DEF IssuerAnswers, Stage, timeVars, fileVars, procVars
    <3>3. CASE ~Redeemable(mem[ProcOf[r]].ref, bind[ProcOf[r]])
      BY <2>7, <3>3, CredentialTypes
      DEF IssuerAnswers, Answer, AnswerKind, Stage, timeVars, fileVars, procVars
    <3>4. QED
      BY <2>7, <3>2, <3>3 DEF IssuerAnswers
  <2>8. CASE CallFails(r)
    BY <2>8, CredentialTypes
    DEF CallFails, Return, Stage, timeVars, procVars, Credential
  <2>9. CASE LoseAnswer(r)
    BY <2>9, CredentialTypes
    DEF LoseAnswer, Return, Stage, issuerVars, timeVars, procVars, Credential
  <2>10. CASE Denied(r)
    BY <2>10, CredentialTypes DEF Denied, Return, Stage, issuerVars, timeVars, procVars
  <2>11. CASE BlockConsumed(r)
    <3>1. mem[ProcOf[r]].ref \in Gens \cup {0}
      BY DEF Credential
    <3>2. QED
      BY <2>11, <3>1, CredentialTypes
      DEF BlockConsumed, Return, Stage, issuerVars, timeVars
  <2>12. CASE Retain(r)
    <3> DEFINE c == [resp[r].cred EXCEPT !.tok = IF resp[r].cred.tok = 0
                                                 THEN mem[ProcOf[r]].tok ELSE resp[r].cred.tok]
    <3>1. c \in Credential
      BY DEF Answer, Credential
    <3>2. [prev |-> mem[ProcOf[r]].ref, cred |-> c, bad |-> resp[r].kind = "partial"]
              \in PendingRefresh
      BY <3>1 DEF PendingRefresh, Credential
    <3>3. QED
      BY <2>12, <3>1, <3>2, CredentialTypes
      DEF Retain, Stage, issuerVars, timeVars, fileVars
  <2>13. CASE PersistFails(r)
    BY <2>13, CredentialTypes DEF PersistFails, Return, Stage, issuerVars, timeVars, procVars
  <2>14. CASE PersistSuperseded(r)
    <3>1. [mem EXCEPT ![ProcOf[r]].tok = 0, ![ProcOf[r]].exp = NoExpiry]
              \in [Procs -> Credential]
      BY DEF Credential, Expiry, NoExpiry
    <3>2. QED
      BY <2>14, <3>1, CredentialTypes
      DEF PersistSuperseded, Return, Stage, issuerVars, timeVars
  <2>15. CASE Persist(r)
    BY <2>15, CredentialTypes
    DEF Persist, Return, Stage, issuerVars, timeVars, PendingRefresh
  <2>16. CASE PersistUncertain(r)
    BY <2>16, CredentialTypes
    DEF PersistUncertain, Return, Stage, issuerVars, timeVars, procVars, PendingRefresh
  <2>17. CASE FlightDone(r)
    BY <2>17 DEF FlightDone, Stage, issuerVars, timeVars, fileVars
  <2>18. CASE ReadToken(r)
    BY <2>18 DEF ReadToken, Stage, issuerVars, timeVars, fileVars, procVars, Credential
  <2>19. QED
    BY <1>1, <2>1, <2>2, <2>3, <2>4, <2>5, <2>6, <2>7, <2>8, <2>9, <2>10, <2>11,
       <2>12, <2>13, <2>14, <2>15, <2>16, <2>17, <2>18 DEF Goroutine
<1>2. ASSUME NEW r \in Reqs, NextRequest(r) \/ Cancel(r) PROVE TypeOK'
  BY <1>2 DEF NextRequest, Cancel, Stage, issuerVars, timeVars, fileVars, procVars
<1>3. ASSUME NEW p \in Procs, Start(p) PROVE TypeOK'
  BY <1>3 DEF Start, issuerVars, timeVars, fileVars, reqVars
<1>4. ASSUME NEW p \in Procs, Crash(p) PROVE TypeOK'
  <2>1. Consumed(p) \subseteq Gens \cup {0}
    BY DEF Consumed, PendingRefresh, Credential
  <2>2. QED
    BY <1>4, <2>1, CredentialTypes DEF Crash, Stage, issuerVars, timeVars
<1>5. ASSUME NEW d \in Dests, Login(d) PROVE TypeOK'
  <2>1. minted + 1 \in Gens
    BY <1>5 DEF Login, Gens
  <2>2. QED
    BY <1>5, <2>1, CredentialTypes DEF Login, timeVars, procVars, reqVars
<1>6. ASSUME NEW g \in Gens, GhostArrives(g) \/ AccessAges(g) \/ RefreshDies(g) PROVE TypeOK'
  BY <1>6 DEF GhostArrives, AccessAges, RefreshDies, issuerVars, timeVars, fileVars, procVars, reqVars
<1>7. CASE UNCHANGED vars
  BY <1>7 DEF vars, issuerVars, timeVars, fileVars, procVars, reqVars
<1>8. QED
  BY <1>1, <1>2, <1>3, <1>4, <1>5, <1>6, <1>7 DEF Next

\* Type correctness of every reachable state.
THEOREM TypeCorrect == Spec => []TypeOK
BY TypeInit, TypeStep, PTL DEF Spec

-----------------------------------------------------------------------------
(***************************************************************************)
(* The inductive invariant. SingleFlight gives each process at most one    *)
(* leader and the lock at most one holder; the rest says what the leader   *)
(* knows at each of its stages.                                            *)
(***************************************************************************)
\* A refresh token f that is old itself, or that was issued in place of old.
Derived(f, old) == f \in Gens /\ (f = old \/ (f <= minted /\ parent[f] = old))

\* A process that is not running has no goroutine at work and nothing pending.
DownIdle == /\ \A r \in Reqs : ~up[ProcOf[r]] => pc[r] = "idle"
            /\ \A p \in Procs : ~up[p] => ~HasPending(p)

\* An answer exists from the network call until it is retained or dropped,
\* and what it carries succeeds the generation in memory.
AnswerHeld ==
    \A r \in Reqs :
        /\ pc[r] # "resp" => resp[r] = NoAnswer
        /\ resp[r].kind \in {"ok", "partial"}
              => Derived(resp[r].cred.ref, mem[ProcOf[r]].ref)

\* A pending generation is the one in memory; it succeeds its predecessor.
PendingHeld ==
    \A p \in Procs : HasPending(p) => /\ mem[p] = pend[p].cred
                                      /\ Derived(pend[p].cred.ref, pend[p].prev)

\* Nothing is pending before the network call, something is after it.
PendingStages ==
    \A r \in Reqs : /\ pc[r] \in {"reload", "net", "resp"} => ~HasPending(ProcOf[r])
                    /\ pc[r] = "persist" => HasPending(ProcOf[r])

IInv == /\ TypeOK
        /\ SingleFlight
        /\ PresentsStored
        /\ DownIdle
        /\ AnswerHeld
        /\ PendingHeld
        /\ PendingStages

-----------------------------------------------------------------------------
\* The issuer's answer succeeds the refresh token presented to it.
LEMMA IssuerDerives ==
    ASSUME IInv, NEW r \in Reqs, IssuerAnswers(r), resp'[r].kind \in {"ok", "partial"}
    PROVE  Derived(resp[r].cred.ref, mem[ProcOf[r]].ref)'
<1> DEFINE old == mem[ProcOf[r]].ref
           new == minted + 1
<1> USE DEF IInv, TypeOK
<1>1. mem' = mem
  BY DEF IssuerAnswers, procVars
<1>2. Redeemable(old, bind[ProcOf[r]]) /\ minted < MaxGen /\ minted' = new
  BY DEF IssuerAnswers
<1>3. old \in Gens /\ new \in Gens
  <2>1. old \in Gens
    BY <1>2 DEF Redeemable
  <2>2. minted \in Nat /\ 1 <= minted
    BY DEF Gens
  <2>3. new \in Gens
    BY <1>2, <2>2 DEF Gens
  <2>4. QED
    BY <2>1, <2>3
<1>4. CASE Rotates
  <2>1. parent'[new] = old
    BY <1>2, <1>3, <1>4 DEF IssuerAnswers
  <2>2. resp'[r] \in Answers(new, new)
    BY <1>2, <1>4 DEF IssuerAnswers
  <2>3. resp'[r].cred.ref = new
    BY <2>2 DEF Answers
  <2>4. QED
    BY <1>1, <1>2, <1>3, <2>1, <2>3 DEF Derived, Gens
<1>5. CASE ~Rotates
  <2>1. resp'[r] \in Answers(new, old)
    BY <1>2, <1>5 DEF IssuerAnswers
  <2>2. resp'[r].cred.ref = old
    BY <2>1 DEF Answers
  <2>3. QED
    BY <1>1, <1>3, <2>2 DEF Derived
<1>6. QED
  BY <1>4, <1>5

\* What Retain leaves pending succeeds the generation it replaces.
LEMMA RetainDerives ==
    ASSUME IInv, NEW r \in Reqs, Retain(r)
    PROVE  Derived(pend[ProcOf[r]].cred.ref, pend[ProcOf[r]].prev)'
<1>1. /\ pend'[ProcOf[r]].cred.ref = resp[r].cred.ref
      /\ pend'[ProcOf[r]].prev = mem[ProcOf[r]].ref
  BY DEF Retain, IInv, TypeOK, Answer, Credential
<1>2. Derived(resp[r].cred.ref, mem[ProcOf[r]].ref)
  BY DEF Retain, IInv, AnswerHeld
<1>3. QED
  BY <1>1, <1>2 DEF Derived, Retain, issuerVars

\* At most one leader per process, at most one holder of the lock.
LEMMA FlightStep == IInv /\ [Next]_vars => SingleFlight'
<1> SUFFICES ASSUME IInv, [Next]_vars PROVE SingleFlight'
  OBVIOUS
<1> USE DEF IInv, TypeOK, SingleFlight, Leading, Locked, Return, issuerVars,
            timeVars, fileVars, procVars, reqVars
<1>1. ASSUME NEW r \in Reqs PROVE Goroutine(r) \/ NextRequest(r) \/ Cancel(r) => SingleFlight'
  <2>1. CASE Check(r)   BY <2>1 DEF Check
  <2>2. CASE WaiterGivesUp(r)   BY <2>2 DEF WaiterGivesUp
  <2>3. CASE LockFails(r)   BY <2>3 DEF LockFails
  <2>4. CASE AcquireLock(r)   BY <2>4 DEF AcquireLock
  <2>5. CASE ReloadFails(r)   BY <2>5 DEF ReloadFails
  <2>6. CASE Reload(r)   BY <2>6 DEF Reload
  <2>7. CASE IssuerAnswers(r)   BY <2>7 DEF IssuerAnswers
  <2>8. CASE CallFails(r)   BY <2>8 DEF CallFails
  <2>9. CASE LoseAnswer(r)   BY <2>9 DEF LoseAnswer
  <2>10. CASE Denied(r)   BY <2>10 DEF Denied
  <2>11. CASE BlockConsumed(r)   BY <2>11 DEF BlockConsumed
  <2>12. CASE Retain(r)   BY <2>12 DEF Retain
  <2>13. CASE PersistFails(r)   BY <2>13 DEF PersistFails
  <2>14. CASE PersistSuperseded(r)   BY <2>14 DEF PersistSuperseded
  <2>15. CASE Persist(r)   BY <2>15 DEF Persist
  <2>16. CASE PersistUncertain(r)   BY <2>16 DEF PersistUncertain
  <2>17. CASE FlightDone(r)   BY <2>17 DEF FlightDone
  <2>18. CASE ReadToken(r)   BY <2>18 DEF ReadToken
  <2>19. CASE NextRequest(r)   BY <2>19 DEF NextRequest
  <2>20. CASE Cancel(r)   BY <2>20 DEF Cancel
  <2>21. QED BY <2>1, <2>2, <2>3, <2>4, <2>5, <2>6, <2>7, <2>8, <2>9, <2>10,
        <2>11, <2>12, <2>13, <2>14, <2>15, <2>16, <2>17, <2>18, <2>19, <2>20
        DEF Goroutine
<1>2. ASSUME NEW p \in Procs PROVE Start(p) \/ Crash(p) => SingleFlight'
  <2>1. CASE Start(p)   BY <2>1 DEF Start
  <2>2. CASE Crash(p)   BY <2>2 DEF Crash
  <2>3. QED BY <2>1, <2>2
<1>3. ASSUME NEW d \in Dests PROVE Login(d) => SingleFlight'
  <2>1. CASE Login(d)   BY <2>1 DEF Login
  <2>2. QED BY <2>1
<1>4. ASSUME NEW g \in Gens PROVE GhostArrives(g) \/ AccessAges(g) \/ RefreshDies(g) => SingleFlight'
  <2>1. CASE GhostArrives(g)   BY <2>1 DEF GhostArrives
  <2>2. CASE AccessAges(g)   BY <2>2 DEF AccessAges
  <2>3. CASE RefreshDies(g)   BY <2>3 DEF RefreshDies
  <2>4. QED BY <2>1, <2>2, <2>3
<1>5. CASE UNCHANGED vars   BY <1>5 DEF vars
<1>6. QED BY <1>1, <1>2, <1>3, <1>4, <1>5 DEF Next

\* The holder of the lock keeps presenting what is on disk.
LEMMA PresentsStep == IInv /\ [Next]_vars => PresentsStored'
<1> SUFFICES ASSUME IInv, [Next]_vars PROVE PresentsStored'
  OBVIOUS
<1> USE DEF IInv, TypeOK, PresentsStored, SingleFlight, Leading, Locked,
            DownIdle, Return, issuerVars, timeVars, fileVars, procVars,
            reqVars
<1>1. ASSUME NEW r \in Reqs PROVE Goroutine(r) \/ NextRequest(r) \/ Cancel(r) => PresentsStored'
  <2>1. CASE Check(r)   BY <2>1 DEF Check
  <2>2. CASE WaiterGivesUp(r)   BY <2>2 DEF WaiterGivesUp
  <2>3. CASE LockFails(r)   BY <2>3 DEF LockFails
  <2>4. CASE AcquireLock(r)   BY <2>4 DEF AcquireLock
  <2>5. CASE ReloadFails(r)   BY <2>5 DEF ReloadFails
  <2>6. CASE Reload(r)
    <3>1. disk' = disk /\ bind' = bind /\ disk.dest = bind[ProcOf[r]]
      BY <2>6 DEF Reload
    <3>2. mem'[ProcOf[r]].ref = disk.cred.ref
      BY <2>6 DEF Reload, Adopted
    <3>3. ASSUME NEW q \in Reqs, q # r, pc'[q] = "net" PROVE FALSE
      <4>1. pc[q] = "net"
        BY <2>6, <3>3 DEF Reload, Return
      <4>2. QED
        BY <2>6, <3>3, <4>1 DEF Reload, SingleFlight, Locked
    <3>4. QED
      BY <3>1, <3>2, <3>3
  <2>7. CASE IssuerAnswers(r)   BY <2>7 DEF IssuerAnswers
  <2>8. CASE CallFails(r)   BY <2>8 DEF CallFails
  <2>9. CASE LoseAnswer(r)   BY <2>9 DEF LoseAnswer
  <2>10. CASE Denied(r)   BY <2>10 DEF Denied
  <2>11. CASE BlockConsumed(r)   BY <2>11 DEF BlockConsumed
  <2>12. CASE Retain(r)   BY <2>12 DEF Retain
  <2>13. CASE PersistFails(r)   BY <2>13 DEF PersistFails
  <2>14. CASE PersistSuperseded(r)   BY <2>14 DEF PersistSuperseded
  <2>15. CASE Persist(r)   BY <2>15 DEF Persist
  <2>16. CASE PersistUncertain(r)   BY <2>16 DEF PersistUncertain
  <2>17. CASE FlightDone(r)   BY <2>17 DEF FlightDone
  <2>18. CASE ReadToken(r)   BY <2>18 DEF ReadToken
  <2>19. CASE NextRequest(r)   BY <2>19 DEF NextRequest
  <2>20. CASE Cancel(r)   BY <2>20 DEF Cancel
  <2>21. QED BY <2>1, <2>2, <2>3, <2>4, <2>5, <2>6, <2>7, <2>8, <2>9, <2>10,
        <2>11, <2>12, <2>13, <2>14, <2>15, <2>16, <2>17, <2>18, <2>19, <2>20
        DEF Goroutine
<1>2. ASSUME NEW p \in Procs PROVE Start(p) \/ Crash(p) => PresentsStored'
  <2>1. CASE Start(p)   BY <2>1 DEF Start
  <2>2. CASE Crash(p)   BY <2>2 DEF Crash
  <2>3. QED BY <2>1, <2>2
<1>3. ASSUME NEW d \in Dests PROVE Login(d) => PresentsStored'
  <2>1. CASE Login(d)   BY <2>1 DEF Login
  <2>2. QED BY <2>1
<1>4. ASSUME NEW g \in Gens PROVE GhostArrives(g) \/ AccessAges(g) \/ RefreshDies(g) => PresentsStored'
  <2>1. CASE GhostArrives(g)   BY <2>1 DEF GhostArrives
  <2>2. CASE AccessAges(g)   BY <2>2 DEF AccessAges
  <2>3. CASE RefreshDies(g)   BY <2>3 DEF RefreshDies
  <2>4. QED BY <2>1, <2>2, <2>3
<1>5. CASE UNCHANGED vars   BY <1>5 DEF vars
<1>6. QED BY <1>1, <1>2, <1>3, <1>4, <1>5 DEF Next

\* Nothing survives the end of a process.
LEMMA DownStep == IInv /\ [Next]_vars => DownIdle'
<1> SUFFICES ASSUME IInv, [Next]_vars PROVE DownIdle'
  OBVIOUS
<1> USE DEF IInv, TypeOK, DownIdle, HasPending, NoPending, Return, issuerVars,
            timeVars, fileVars, procVars, reqVars
<1>1. ASSUME NEW r \in Reqs PROVE Goroutine(r) \/ NextRequest(r) \/ Cancel(r) => DownIdle'
  <2>1. CASE Check(r)   BY <2>1 DEF Check
  <2>2. CASE WaiterGivesUp(r)   BY <2>2 DEF WaiterGivesUp
  <2>3. CASE LockFails(r)   BY <2>3 DEF LockFails
  <2>4. CASE AcquireLock(r)   BY <2>4 DEF AcquireLock
  <2>5. CASE ReloadFails(r)   BY <2>5 DEF ReloadFails
  <2>6. CASE Reload(r)   BY <2>6 DEF Reload
  <2>7. CASE IssuerAnswers(r)   BY <2>7 DEF IssuerAnswers
  <2>8. CASE CallFails(r)   BY <2>8 DEF CallFails
  <2>9. CASE LoseAnswer(r)   BY <2>9 DEF LoseAnswer
  <2>10. CASE Denied(r)   BY <2>10 DEF Denied
  <2>11. CASE BlockConsumed(r)   BY <2>11 DEF BlockConsumed
  <2>12. CASE Retain(r)   BY <2>12 DEF Retain
  <2>13. CASE PersistFails(r)   BY <2>13 DEF PersistFails
  <2>14. CASE PersistSuperseded(r)   BY <2>14 DEF PersistSuperseded
  <2>15. CASE Persist(r)   BY <2>15 DEF Persist
  <2>16. CASE PersistUncertain(r)   BY <2>16 DEF PersistUncertain
  <2>17. CASE FlightDone(r)   BY <2>17 DEF FlightDone
  <2>18. CASE ReadToken(r)   BY <2>18 DEF ReadToken
  <2>19. CASE NextRequest(r)   BY <2>19 DEF NextRequest
  <2>20. CASE Cancel(r)   BY <2>20 DEF Cancel
  <2>21. QED BY <2>1, <2>2, <2>3, <2>4, <2>5, <2>6, <2>7, <2>8, <2>9, <2>10,
        <2>11, <2>12, <2>13, <2>14, <2>15, <2>16, <2>17, <2>18, <2>19, <2>20
        DEF Goroutine
<1>2. ASSUME NEW p \in Procs PROVE Start(p) \/ Crash(p) => DownIdle'
  <2>1. CASE Start(p)   BY <2>1 DEF Start
  <2>2. CASE Crash(p)   BY <2>2 DEF Crash
  <2>3. QED BY <2>1, <2>2
<1>3. ASSUME NEW d \in Dests PROVE Login(d) => DownIdle'
  <2>1. CASE Login(d)   BY <2>1 DEF Login
  <2>2. QED BY <2>1
<1>4. ASSUME NEW g \in Gens PROVE GhostArrives(g) \/ AccessAges(g) \/ RefreshDies(g) => DownIdle'
  <2>1. CASE GhostArrives(g)   BY <2>1 DEF GhostArrives
  <2>2. CASE AccessAges(g)   BY <2>2 DEF AccessAges
  <2>3. CASE RefreshDies(g)   BY <2>3 DEF RefreshDies
  <2>4. QED BY <2>1, <2>2, <2>3
<1>5. CASE UNCHANGED vars   BY <1>5 DEF vars
<1>6. QED BY <1>1, <1>2, <1>3, <1>4, <1>5 DEF Next

\* An answer succeeds the generation in memory until it is handled.
LEMMA AnswerStep == IInv /\ [Next]_vars => AnswerHeld'
<1> SUFFICES ASSUME IInv, [Next]_vars PROVE AnswerHeld'
  OBVIOUS
<1> USE DEF IInv, TypeOK, AnswerHeld, Derived, NoAnswer, SingleFlight,
            Leading, Locked, DownIdle, Return, issuerVars, timeVars, fileVars,
            procVars, reqVars
<1>1. ASSUME NEW r \in Reqs PROVE Goroutine(r) \/ NextRequest(r) \/ Cancel(r) => AnswerHeld'
  <2>1. CASE Check(r)   BY <2>1 DEF Check
  <2>2. CASE WaiterGivesUp(r)   BY <2>2 DEF WaiterGivesUp
  <2>3. CASE LockFails(r)   BY <2>3 DEF LockFails
  <2>4. CASE AcquireLock(r)   BY <2>4 DEF AcquireLock
  <2>5. CASE ReloadFails(r)   BY <2>5 DEF ReloadFails
  <2>6. CASE Reload(r)   BY <2>6 DEF Reload
  <2>7. CASE IssuerAnswers(r)
    <3>1. /\ mem' = mem
          /\ \A q \in Reqs \ {r} : pc'[q] = pc[q] /\ resp'[q] = resp[q]
          /\ pc'[r] = "resp"
      BY <2>7 DEF IssuerAnswers, procVars
    <3>2. \A q \in Reqs \ {r} : resp[q] = NoAnswer
      BY <2>7 DEF IssuerAnswers, SingleFlight, Locked
    <3>3. resp'[r].kind \in {"ok", "partial"} => Derived(resp[r].cred.ref, mem[ProcOf[r]].ref)'
      BY <2>7, <3>1, IssuerDerives
    <3>4. QED
      BY <3>1, <3>2, <3>3
  <2>8. CASE CallFails(r)   BY <2>8 DEF CallFails
  <2>9. CASE LoseAnswer(r)   BY <2>9 DEF LoseAnswer
  <2>10. CASE Denied(r)   BY <2>10 DEF Denied
  <2>11. CASE BlockConsumed(r)   BY <2>11 DEF BlockConsumed
  <2>12. CASE Retain(r)   BY <2>12 DEF Retain
  <2>13. CASE PersistFails(r)   BY <2>13 DEF PersistFails
  <2>14. CASE PersistSuperseded(r)   BY <2>14 DEF PersistSuperseded
  <2>15. CASE Persist(r)   BY <2>15 DEF Persist
  <2>16. CASE PersistUncertain(r)   BY <2>16 DEF PersistUncertain
  <2>17. CASE FlightDone(r)   BY <2>17 DEF FlightDone
  <2>18. CASE ReadToken(r)   BY <2>18 DEF ReadToken
  <2>19. CASE NextRequest(r)   BY <2>19 DEF NextRequest
  <2>20. CASE Cancel(r)   BY <2>20 DEF Cancel
  <2>21. QED BY <2>1, <2>2, <2>3, <2>4, <2>5, <2>6, <2>7, <2>8, <2>9, <2>10,
        <2>11, <2>12, <2>13, <2>14, <2>15, <2>16, <2>17, <2>18, <2>19, <2>20
        DEF Goroutine
<1>2. ASSUME NEW p \in Procs PROVE Start(p) \/ Crash(p) => AnswerHeld'
  <2>1. CASE Start(p)   BY <2>1 DEF Start
  <2>2. CASE Crash(p)   BY <2>2 DEF Crash
  <2>3. QED BY <2>1, <2>2
<1>3. ASSUME NEW d \in Dests PROVE Login(d) => AnswerHeld'
  <2>1. CASE Login(d)   BY <2>1 DEF Login
  <2>2. QED BY <2>1
<1>4. ASSUME NEW g \in Gens PROVE GhostArrives(g) \/ AccessAges(g) \/ RefreshDies(g) => AnswerHeld'
  <2>1. CASE GhostArrives(g)   BY <2>1 DEF GhostArrives
  <2>2. CASE AccessAges(g)   BY <2>2 DEF AccessAges
  <2>3. CASE RefreshDies(g)   BY <2>3 DEF RefreshDies
  <2>4. QED BY <2>1, <2>2, <2>3
<1>5. CASE UNCHANGED vars   BY <1>5 DEF vars
<1>6. QED BY <1>1, <1>2, <1>3, <1>4, <1>5 DEF Next

\* A pending generation stays the one in memory.
LEMMA PendingStep == IInv /\ [Next]_vars => PendingHeld'
<1> SUFFICES ASSUME IInv, [Next]_vars PROVE PendingHeld'
  OBVIOUS
<1> USE DEF IInv, TypeOK, PendingHeld, HasPending, NoPending, Derived,
            PendingStages, SingleFlight, Leading, Locked, DownIdle, Return,
            issuerVars, timeVars, fileVars, procVars, reqVars
<1>1. ASSUME NEW r \in Reqs PROVE Goroutine(r) \/ NextRequest(r) \/ Cancel(r) => PendingHeld'
  <2>1. CASE Check(r)   BY <2>1 DEF Check
  <2>2. CASE WaiterGivesUp(r)   BY <2>2 DEF WaiterGivesUp
  <2>3. CASE LockFails(r)   BY <2>3 DEF LockFails
  <2>4. CASE AcquireLock(r)   BY <2>4 DEF AcquireLock
  <2>5. CASE ReloadFails(r)   BY <2>5 DEF ReloadFails
  <2>6. CASE Reload(r)   BY <2>6 DEF Reload
  <2>7. CASE IssuerAnswers(r)
    <3>1. pend' = pend /\ mem' = mem
      BY <2>7 DEF IssuerAnswers, procVars
    <3>2. minted' \in Int /\ minted <= minted' /\ minted \in Int
      BY <2>7 DEF IssuerAnswers, Gens
    <3>3. \A g \in Gens : g <= minted => parent'[g] = parent[g]
      BY <2>7, <3>2 DEF IssuerAnswers, Gens
    <3>4. QED
      BY <3>1, <3>2, <3>3 DEF Gens
  <2>8. CASE CallFails(r)   BY <2>8 DEF CallFails
  <2>9. CASE LoseAnswer(r)   BY <2>9 DEF LoseAnswer
  <2>10. CASE Denied(r)   BY <2>10 DEF Denied
  <2>11. CASE BlockConsumed(r)   BY <2>11 DEF BlockConsumed
  <2>12. CASE Retain(r)
    <3>1. /\ minted' = minted /\ parent' = parent
          /\ \A q \in Procs \ {ProcOf[r]} : pend'[q] = pend[q] /\ mem'[q] = mem[q]
      BY <2>12 DEF Retain, issuerVars
    <3>2. mem'[ProcOf[r]] = pend'[ProcOf[r]].cred
      BY <2>12 DEF Retain
    <3>3. Derived(pend[ProcOf[r]].cred.ref, pend[ProcOf[r]].prev)'
      BY <2>12, <3>1, RetainDerives
    <3>4. QED
      BY <3>1, <3>2, <3>3
  <2>13. CASE PersistFails(r)   BY <2>13 DEF PersistFails
  <2>14. CASE PersistSuperseded(r)   BY <2>14 DEF PersistSuperseded
  <2>15. CASE Persist(r)   BY <2>15 DEF Persist
  <2>16. CASE PersistUncertain(r)   BY <2>16 DEF PersistUncertain
  <2>17. CASE FlightDone(r)   BY <2>17 DEF FlightDone
  <2>18. CASE ReadToken(r)   BY <2>18 DEF ReadToken
  <2>19. CASE NextRequest(r)   BY <2>19 DEF NextRequest
  <2>20. CASE Cancel(r)   BY <2>20 DEF Cancel
  <2>21. QED BY <2>1, <2>2, <2>3, <2>4, <2>5, <2>6, <2>7, <2>8, <2>9, <2>10,
        <2>11, <2>12, <2>13, <2>14, <2>15, <2>16, <2>17, <2>18, <2>19, <2>20
        DEF Goroutine
<1>2. ASSUME NEW p \in Procs PROVE Start(p) \/ Crash(p) => PendingHeld'
  <2>1. CASE Start(p)   BY <2>1 DEF Start
  <2>2. CASE Crash(p)   BY <2>2 DEF Crash
  <2>3. QED BY <2>1, <2>2
<1>3. ASSUME NEW d \in Dests PROVE Login(d) => PendingHeld'
  <2>1. CASE Login(d)
    <3>1. pend' = pend /\ mem' = mem /\ parent' = parent
      BY <2>1 DEF Login, procVars
    <3>2. minted' \in Int /\ minted <= minted' /\ minted \in Int
      BY <2>1 DEF Login, Gens
    <3>3. QED
      BY <3>1, <3>2 DEF Gens
  <2>2. QED BY <2>1
<1>4. ASSUME NEW g \in Gens PROVE GhostArrives(g) \/ AccessAges(g) \/ RefreshDies(g) => PendingHeld'
  <2>1. CASE GhostArrives(g)   BY <2>1 DEF GhostArrives
  <2>2. CASE AccessAges(g)   BY <2>2 DEF AccessAges
  <2>3. CASE RefreshDies(g)   BY <2>3 DEF RefreshDies
  <2>4. QED BY <2>1, <2>2, <2>3
<1>5. CASE UNCHANGED vars   BY <1>5 DEF vars
<1>6. QED BY <1>1, <1>2, <1>3, <1>4, <1>5 DEF Next

\* Stages before the network call have nothing pending.
LEMMA StagesStep == IInv /\ [Next]_vars => PendingStages'
<1> SUFFICES ASSUME IInv, [Next]_vars PROVE PendingStages'
  OBVIOUS
<1> USE DEF IInv, TypeOK, PendingStages, HasPending, NoPending, SingleFlight,
            Leading, Locked, DownIdle, Return, issuerVars, timeVars, fileVars,
            procVars, reqVars
<1>1. ASSUME NEW r \in Reqs PROVE Goroutine(r) \/ NextRequest(r) \/ Cancel(r) => PendingStages'
  <2>1. CASE Check(r)
    <3>1. \A q \in Reqs : pc'[q] \in {"reload", "net", "resp", "persist"} => pc'[q] = pc[q]
      BY <2>1 DEF Check
    <3>2. pend' = pend
      BY <2>1 DEF Check
    <3>3. QED
      BY <3>1, <3>2
  <2>2. CASE WaiterGivesUp(r)   BY <2>2 DEF WaiterGivesUp
  <2>3. CASE LockFails(r)   BY <2>3 DEF LockFails
  <2>4. CASE AcquireLock(r)   BY <2>4 DEF AcquireLock
  <2>5. CASE ReloadFails(r)   BY <2>5 DEF ReloadFails
  <2>6. CASE Reload(r)
    <3>1. \A q \in Reqs : pc'[q] \in {"reload", "net", "resp", "persist"}
                              => pc'[q] = pc[q] \/ (q = r /\ pc'[q] = "net")
      BY <2>6 DEF Reload, Return
    <3>2. pend' = pend /\ pc[r] = "reload"
      BY <2>6 DEF Reload
    <3>3. QED
      BY <3>1, <3>2
  <2>7. CASE IssuerAnswers(r)   BY <2>7 DEF IssuerAnswers
  <2>8. CASE CallFails(r)   BY <2>8 DEF CallFails
  <2>9. CASE LoseAnswer(r)   BY <2>9 DEF LoseAnswer
  <2>10. CASE Denied(r)   BY <2>10 DEF Denied
  <2>11. CASE BlockConsumed(r)   BY <2>11 DEF BlockConsumed
  <2>12. CASE Retain(r)
    <3>0. pend'[ProcOf[r]].cred.ref \in Gens
      BY <2>12, RetainDerives DEF Derived
    <3>1. HasPending(ProcOf[r])'
      <4>1. NoPending.cred.ref = 0 /\ 0 \notin Gens
        BY DEF NoCred, Gens
      <4>2. pend'[ProcOf[r]] # NoPending
        BY <3>0, <4>1 DEF NoPending
      <4>3. QED
        BY <4>2
    <3>2. /\ \A q \in Reqs \ {r} : pc'[q] = pc[q]
          /\ pc'[r] = "persist"
          /\ \A q \in Procs \ {ProcOf[r]} : pend'[q] = pend[q]
      BY <2>12 DEF Retain
    <3>3. \A q \in Reqs \ {r} : pc[q] \notin {"reload", "net", "resp", "persist"}
      BY <2>12 DEF Retain, SingleFlight, Locked
    <3>4. QED
      BY <3>1, <3>2, <3>3
  <2>13. CASE PersistFails(r)   BY <2>13 DEF PersistFails
  <2>14. CASE PersistSuperseded(r)   BY <2>14 DEF PersistSuperseded
  <2>15. CASE Persist(r)   BY <2>15 DEF Persist
  <2>16. CASE PersistUncertain(r)   BY <2>16 DEF PersistUncertain
  <2>17. CASE FlightDone(r)   BY <2>17 DEF FlightDone
  <2>18. CASE ReadToken(r)   BY <2>18 DEF ReadToken
  <2>19. CASE NextRequest(r)   BY <2>19 DEF NextRequest
  <2>20. CASE Cancel(r)   BY <2>20 DEF Cancel
  <2>21. QED BY <2>1, <2>2, <2>3, <2>4, <2>5, <2>6, <2>7, <2>8, <2>9, <2>10,
        <2>11, <2>12, <2>13, <2>14, <2>15, <2>16, <2>17, <2>18, <2>19, <2>20
        DEF Goroutine
<1>2. ASSUME NEW p \in Procs PROVE Start(p) \/ Crash(p) => PendingStages'
  <2>1. CASE Start(p)   BY <2>1 DEF Start
  <2>2. CASE Crash(p)   BY <2>2 DEF Crash
  <2>3. QED BY <2>1, <2>2
<1>3. ASSUME NEW d \in Dests PROVE Login(d) => PendingStages'
  <2>1. CASE Login(d)   BY <2>1 DEF Login
  <2>2. QED BY <2>1
<1>4. ASSUME NEW g \in Gens PROVE GhostArrives(g) \/ AccessAges(g) \/ RefreshDies(g) => PendingStages'
  <2>1. CASE GhostArrives(g)   BY <2>1 DEF GhostArrives
  <2>2. CASE AccessAges(g)   BY <2>2 DEF AccessAges
  <2>3. CASE RefreshDies(g)   BY <2>3 DEF RefreshDies
  <2>4. QED BY <2>1, <2>2, <2>3
<1>5. CASE UNCHANGED vars   BY <1>5 DEF vars
<1>6. QED BY <1>1, <1>2, <1>3, <1>4, <1>5 DEF Next

LEMMA Inductive == Spec => []IInv
<1>1. Init => IInv
  <2> SUFFICES ASSUME Init PROVE IInv
    OBVIOUS
  <2>1. TypeOK
    BY TypeInit
  <2>2. QED
    BY <2>1 DEF Init, IInv, SingleFlight, Leading, Locked, PresentsStored, DownIdle,
       AnswerHeld, NoAnswer, PendingHeld, HasPending, PendingStages
<1>2. IInv /\ [Next]_vars => IInv'
  BY TypeStep, FlightStep, PresentsStep, DownStep, AnswerStep, PendingStep, StagesStep
  DEF IInv
<1>3. QED
  BY <1>1, <1>2, PTL DEF Spec

-----------------------------------------------------------------------------
(***************************************************************************)
(* What follows from it.                                                   *)
(***************************************************************************)
\* maybeRefresh and the flock: one leader per process, one holder of the lock
\* across processes, however many goroutines and processes there are.
THEOREM OneFlightAtATime == Spec => []SingleFlight
BY Inductive, PTL DEF IInv

\* refreshAndPersist never presents a refresh token other than the one on disk:
\* between Reload and the network call no other process writes the file.
THEOREM OnlyStoredPresented == Spec => []PresentsStored
BY Inductive, PTL DEF IInv

\* refreshAndPersist returns nil only once the file holds what memory holds and
\* nothing is left to persist.
THEOREM SuccessPersists == Spec => SuccessMeansPersisted
<1>1. IInv /\ [Next]_vars => [\A r \in Reqs :
          ~ok[r] /\ ok'[r] => /\ mem'[ProcOf[r]] = disk'.cred
                              /\ pend'[ProcOf[r]] = NoPending]_vars
  <2> SUFFICES ASSUME IInv, [Next]_vars, NEW r \in Reqs, ~ok[r], ok'[r]
               PROVE  /\ mem'[ProcOf[r]] = disk'.cred
                      /\ pend'[ProcOf[r]] = NoPending
    OBVIOUS
  <2> USE DEF IInv, TypeOK
  <2>1. Reload(r) \/ Persist(r)
    <3>1. ASSUME NEW q \in Reqs, Goroutine(q) PROVE Reload(r) \/ Persist(r)
      <4>1. CASE Check(q) \/ WaiterGivesUp(q) \/ IssuerAnswers(q) \/ Retain(q)
                   \/ FlightDone(q) \/ ReadToken(q)
        BY <4>1 DEF Check, WaiterGivesUp, IssuerAnswers, Retain, FlightDone, ReadToken
      <4>2. CASE LockFails(q) \/ AcquireLock(q)
        BY <4>2 DEF LockFails, AcquireLock, Return
      <4>3. CASE ReloadFails(q) \/ CallFails(q) \/ LoseAnswer(q) \/ Denied(q)
                   \/ BlockConsumed(q) \/ PersistFails(q) \/ PersistSuperseded(q)
                   \/ PersistUncertain(q)
        <5>1. Return(q, FALSE)
          BY <4>3 DEF ReloadFails, CallFails, LoseAnswer, Denied, BlockConsumed,
             PersistFails, PersistSuperseded, PersistUncertain
        <5>2. QED
          BY <5>1 DEF Return
      <4>4. CASE Reload(q) \/ Persist(q)
        <5>1. CASE q = r
          BY <4>4, <5>1
        <5>2. CASE q # r
          BY <4>4, <5>2 DEF Reload, Persist, Return
        <5>3. QED
          BY <5>1, <5>2
      <4>5. QED
        BY <3>1, <4>1, <4>2, <4>3, <4>4 DEF Goroutine
    <3>2. ASSUME NEW q \in Reqs, NextRequest(q) \/ Cancel(q) PROVE FALSE
      BY <3>2 DEF NextRequest, Cancel
    <3>3. ASSUME NEW p \in Procs, Start(p) \/ Crash(p) PROVE FALSE
      BY <3>3 DEF Start, Crash, reqVars
    <3>4. ASSUME NEW d \in Dests, Login(d) PROVE FALSE
      BY <3>4 DEF Login, reqVars
    <3>5. ASSUME NEW g \in Gens, GhostArrives(g) \/ AccessAges(g) \/ RefreshDies(g) PROVE FALSE
      BY <3>5 DEF GhostArrives, AccessAges, RefreshDies, reqVars
    <3>6. CASE UNCHANGED vars
      BY <3>6 DEF vars, reqVars
    <3>7. QED
      BY <3>1, <3>2, <3>3, <3>4, <3>5, <3>6 DEF Next
  <2>2. CASE Reload(r)
    <3>1. ~HasPending(ProcOf[r]) /\ pend' = pend /\ disk' = disk
      BY <2>2 DEF Reload, PendingStages
    <3>2. Adopted(ProcOf[r]) # mem[ProcOf[r]]
      BY <2>2 DEF Reload, Return
    <3>3. mem'[ProcOf[r]] = disk.cred
      BY <2>2, <3>2 DEF Reload, Adopted
    <3>4. QED
      BY <3>1, <3>3 DEF HasPending
  <2>3. CASE Persist(r)
    BY <2>3 DEF Persist, PendingStages, PendingHeld
  <2>4. QED
    BY <2>1, <2>2, <2>3
<1>2. QED
  BY <1>1, Inductive, PTL DEF Spec, SuccessMeansPersisted

\* The compare-and-swap of OnRefresh: a refresh writes only what was issued for
\* the generation it replaces.
THEOREM OnlySuccessorsWritten == Spec => NeverOverwritesNewer
<1>1. IInv /\ [Next]_vars => [disk' # disk /\ lock # None =>
          /\ \/ parent[disk'.cred.ref] = disk.cred.ref
             \/ disk'.cred.ref = disk.cred.ref
          /\ disk'.dest = disk.dest]_vars
  <2> SUFFICES ASSUME IInv, [Next]_vars, disk' # disk, lock # None
               PROVE  /\ \/ parent[disk'.cred.ref] = disk.cred.ref
                         \/ disk'.cred.ref = disk.cred.ref
                      /\ disk'.dest = disk.dest
    OBVIOUS
  <2>1. PICK r \in Reqs : Persist(r) \/ PersistUncertain(r)
    BY DEF Next, Goroutine, Check, WaiterGivesUp, LockFails, AcquireLock, ReloadFails,
       Reload, IssuerAnswers, CallFails, LoseAnswer, Denied, BlockConsumed, Retain,
       PersistFails, PersistSuperseded, FlightDone, ReadToken,
       NextRequest, Cancel, Start, Crash, Login, GhostArrives, AccessAges, RefreshDies,
       vars, fileVars
  <2>2. disk' = [disk EXCEPT !.cred = pend[ProcOf[r]].cred]
    BY <2>1 DEF Persist, PersistUncertain
  <2>3. disk'.cred = pend[ProcOf[r]].cred /\ disk'.dest = disk.dest
    BY <2>2 DEF IInv, TypeOK
  <2>4. disk.cred # pend[ProcOf[r]].cred
    BY <2>2 DEF IInv, TypeOK
  <2>5. disk.cred.ref = pend[ProcOf[r]].prev
    BY <2>1, <2>4 DEF Persist, PersistUncertain, GenerationChanged
  <2>6. Derived(pend[ProcOf[r]].cred.ref, pend[ProcOf[r]].prev)
    BY <2>1 DEF Persist, PersistUncertain, IInv, PendingStages, PendingHeld
  <2>7. QED
    BY <2>3, <2>5, <2>6 DEF Derived
<1>2. QED
  BY <1>1, Inductive, PTL DEF Spec, NeverOverwritesNewer

-----------------------------------------------------------------------------
(***************************************************************************)
(* Destinations. What CameFrom says of a credential stays true only if the *)
(* issuer has handed out its generation already, and an answer on its way  *)
(* has to be accounted for as well.                                        *)
(***************************************************************************)
\* Credential c was issued by destination d, by records i of generations up to n.
IssuedBy(c, d, i, n) == /\ c.tok # 0 => i[c.tok] = d /\ c.tok <= n
                        /\ c.ref # 0 => i[c.ref] = d /\ c.ref <= n

Bound(c, d) == IssuedBy(c, d, issuer, minted)

DestHeld ==
    /\ Bound(disk.cred, disk.dest)
    /\ \A p \in Procs : up[p] => Bound(mem[p], bind[p]) /\ Bound(pend[p].cred, bind[p])
    /\ \A r \in Reqs : Bound(resp[r].cred, bind[ProcOf[r]])

\* The issuer only adds records.
RecordsKept == /\ minted <= minted'
               /\ \A g \in Gens : g <= minted => issuer'[g] = issuer[g]

LEMMA RecordsStep == TypeOK /\ [Next]_vars => RecordsKept
<1> SUFFICES ASSUME TypeOK, [Next]_vars PROVE RecordsKept
  OBVIOUS
<1> USE DEF RecordsKept
<1>0. minted \in Nat
  BY DEF TypeOK, Gens
<1>1. ASSUME NEW r \in Reqs, Goroutine(r) PROVE RecordsKept
  <2>1. CASE IssuerAnswers(r)
    BY <1>0, <2>1 DEF IssuerAnswers, TypeOK
  <2>2. CASE ~IssuerAnswers(r)
    <3>1. CASE Check(r) \/ WaiterGivesUp(r) \/ LockFails(r) \/ AcquireLock(r) \/ ReloadFails(r)
                 \/ Reload(r) \/ LoseAnswer(r) \/ Denied(r) \/ BlockConsumed(r) \/ Retain(r)
                 \/ PersistFails(r) \/ PersistSuperseded(r) \/ Persist(r) \/ PersistUncertain(r)
                 \/ FlightDone(r) \/ ReadToken(r)
      <4>1. issuerVars' = issuerVars
        BY <3>1, Zenon DEF Check, WaiterGivesUp, LockFails, AcquireLock, ReloadFails, Reload,
           LoseAnswer, Denied, BlockConsumed, Retain, PersistFails, PersistSuperseded, Persist,
           PersistUncertain, FlightDone, ReadToken
      <4>2. QED
        BY <1>0, <4>1 DEF issuerVars
    <3>2. CASE CallFails(r)
      BY <1>0, <3>2 DEF CallFails
    <3>3. QED
      BY <1>1, <2>2, <3>1, <3>2 DEF Goroutine
  <2>3. QED
    BY <2>1, <2>2
<1>2. ASSUME NEW r \in Reqs, NextRequest(r) \/ Cancel(r) PROVE RecordsKept
  BY <1>0, <1>2 DEF NextRequest, Cancel, issuerVars
<1>3. ASSUME NEW p \in Procs, Start(p) \/ Crash(p) PROVE RecordsKept
  <2>1. issuerVars' = issuerVars
    BY <1>3 DEF Start, Crash
  <2>2. QED
    BY <1>0, <2>1 DEF issuerVars
<1>4. ASSUME NEW d \in Dests, Login(d) PROVE RecordsKept
  BY <1>0, <1>4 DEF Login, TypeOK
<1>5. ASSUME NEW g \in Gens, GhostArrives(g) \/ AccessAges(g) \/ RefreshDies(g) PROVE RecordsKept
  BY <1>0, <1>5 DEF GhostArrives, AccessAges, RefreshDies, issuerVars
<1>6. CASE UNCHANGED vars
  BY <1>0, <1>6 DEF vars, issuerVars
<1>7. QED
  BY <1>1, <1>2, <1>3, <1>4, <1>5, <1>6 DEF Next

LEMMA BoundKept ==
    ASSUME TypeOK, TypeOK', RecordsKept, NEW c \in Credential, NEW d \in Dests, Bound(c, d)
    PROVE  IssuedBy(c, d, issuer', minted')
<1>1. minted \in Nat /\ minted' \in Nat
  BY DEF TypeOK, Gens
<1>2. QED
  BY <1>1 DEF RecordsKept, Bound, IssuedBy, Credential, Gens

\* It suffices to look at the credentials that a step has made or moved.
LEMMA DestFrame ==
    ASSUME IInv, TypeOK', RecordsKept, DestHeld,
           disk' # disk => IssuedBy(disk'.cred, disk'.dest, issuer', minted'),
           \A p \in Procs : up'[p] =>
              /\ <<up[p], mem[p], bind[p]>> # <<up'[p], mem'[p], bind'[p]>>
                    => IssuedBy(mem'[p], bind'[p], issuer', minted')
              /\ <<up[p], pend[p], bind[p]>> # <<up'[p], pend'[p], bind'[p]>>
                    => IssuedBy(pend'[p].cred, bind'[p], issuer', minted'),
           \A r \in Reqs : <<resp[r], bind[ProcOf[r]]>> # <<resp'[r], bind'[ProcOf[r]]>>
                    => IssuedBy(resp'[r].cred, bind'[ProcOf[r]], issuer', minted')
    PROVE  DestHeld'
<1> USE DEF IInv
<1>1. IssuedBy(disk'.cred, disk'.dest, issuer', minted')
  <2>1. CASE disk' = disk
    BY <2>1, BoundKept DEF DestHeld, TypeOK
  <2>2. QED
    BY <2>1
<1>2. ASSUME NEW p \in Procs, up'[p]
      PROVE  /\ IssuedBy(mem'[p], bind'[p], issuer', minted')
             /\ IssuedBy(pend'[p].cred, bind'[p], issuer', minted')
  <2>1. CASE <<up[p], mem[p], bind[p]>> = <<up'[p], mem'[p], bind'[p]>>
    <3>1. IssuedBy(mem'[p], bind'[p], issuer', minted')
      BY <1>2, <2>1, BoundKept DEF DestHeld, TypeOK
    <3>2. CASE pend[p] = pend'[p]
      <4>1. pend[p].cred \in Credential
        BY DEF TypeOK, PendingRefresh
      <4>2. QED
        BY <1>2, <2>1, <3>1, <3>2, <4>1, BoundKept DEF DestHeld, TypeOK
    <3>3. QED
      BY <1>2, <3>1, <3>2
  <2>2. CASE <<up[p], mem[p], bind[p]>> # <<up'[p], mem'[p], bind'[p]>>
    <3>1. IssuedBy(mem'[p], bind'[p], issuer', minted')
      BY <1>2, <2>2
    <3>2. CASE <<up[p], pend[p], bind[p]>> = <<up'[p], pend'[p], bind'[p]>>
      <4>1. pend[p].cred \in Credential
        BY DEF TypeOK, PendingRefresh
      <4>2. QED
        BY <1>2, <3>1, <3>2, <4>1, BoundKept DEF DestHeld, TypeOK
    <3>3. QED
      BY <1>2, <3>1, <3>2
  <2>3. QED
    BY <2>1, <2>2
<1>3. ASSUME NEW r \in Reqs
      PROVE  IssuedBy(resp'[r].cred, bind'[ProcOf[r]], issuer', minted')
  <2>1. CASE <<resp[r], bind[ProcOf[r]]>> = <<resp'[r], bind'[ProcOf[r]]>>
    <3>1. resp[r].cred \in Credential /\ bind[ProcOf[r]] \in Dests
      BY DEF TypeOK, Answer
    <3>2. QED
      BY <2>1, <3>1, BoundKept DEF DestHeld
  <2>2. QED
    BY <2>1
<1>4. QED
  BY <1>1, <1>2, <1>3 DEF DestHeld, Bound

\* Nothing is bound to nowhere.
LEMMA NothingBound ==
    \A d, i, n : /\ IssuedBy(NoCred, d, i, n)
                 /\ IssuedBy(NoPending.cred, d, i, n)
                 /\ IssuedBy(NoAnswer.cred, d, i, n)
BY DEF IssuedBy, NoCred, NoPending, NoAnswer

\* The issuer's answer carries what was issued to the destination asked.
LEMMA AnswerBound ==
    ASSUME IInv, TypeOK', RecordsKept, DestHeld, NEW r \in Reqs, IssuerAnswers(r)
    PROVE  IssuedBy(resp'[r].cred, bind[ProcOf[r]], issuer', minted')
<1> DEFINE d == bind[ProcOf[r]]
           old == mem[ProcOf[r]].ref
           new == minted + 1
<1> USE DEF IInv
<1>0. minted \in Nat /\ minted \in Gens /\ up[ProcOf[r]]
  BY DEF TypeOK, Gens, IssuerAnswers, DownIdle
<1>1. CASE Redeemable(old, d) /\ minted < MaxGen
  <2>1. new \in Gens /\ minted' = new /\ issuer' = [issuer EXCEPT ![new] = d]
    BY <1>0, <1>1 DEF IssuerAnswers, Gens
  <2>2. issuer'[new] = d
    BY <2>1 DEF TypeOK
  <2>3. old \in Gens /\ issuer[old] = d /\ old <= minted
    <3>1. old \in Gens /\ issuer[old] = d
      BY <1>1 DEF Redeemable, TypeOK
    <3>2. Bound(mem[ProcOf[r]], d)
      BY <1>0 DEF DestHeld
    <3>3. QED
      BY <3>1, <3>2 DEF Bound, IssuedBy, Gens
  <2>4. issuer'[old] = d /\ old <= new
    BY <1>0, <2>1, <2>2, <2>3 DEF RecordsKept, Gens
  <2>5. PICK f \in {old, new} : resp'[r] \in Answers(new, f)
    BY <1>1 DEF IssuerAnswers, TypeOK
  <2>6. /\ resp'[r].cred.tok \in {0, new}
        /\ resp'[r].cred.ref \in {0, f}
    BY <2>5 DEF Answers, NoCred
  <2>7. QED
    BY <1>0, <2>1, <2>2, <2>4, <2>6 DEF IssuedBy
<1>2. CASE ~Redeemable(old, d)
  BY <1>2, NothingBound DEF IssuerAnswers, TypeOK
<1>3. QED
  BY <1>1, <1>2 DEF IssuerAnswers

LEMMA DestStep == IInv /\ DestHeld /\ [Next]_vars => DestHeld'
<1> SUFFICES ASSUME IInv, DestHeld, [Next]_vars PROVE DestHeld'
  OBVIOUS
<1>0. TypeOK /\ TypeOK' /\ RecordsKept
  BY TypeStep, RecordsStep DEF IInv
<1>1. ASSUME NEW r \in Reqs, Goroutine(r) PROVE DestHeld'
  <2> DEFINE p == ProcOf[r]
  <2>0. p \in Procs
    OBVIOUS
  <2>1. CASE IssuerAnswers(r)
    <3>1. IssuedBy(resp'[r].cred, bind[p], issuer', minted')
      BY <1>0, <2>1, AnswerBound
    <3>2. \A q \in Reqs : q # r => resp'[q] = resp[q]
      BY <1>0, <2>1 DEF IssuerAnswers, TypeOK
    <3>3. disk' = disk /\ up' = up /\ mem' = mem /\ bind' = bind /\ pend' = pend
      BY <2>1 DEF IssuerAnswers, fileVars, procVars
    <3>4. QED
      BY <1>0, <3>1, <3>2, <3>3, DestFrame
  <2>3. CASE Retain(r)
    <3> DEFINE c == [resp[r].cred EXCEPT !.tok = IF resp[r].cred.tok = 0
                                                 THEN mem[p].tok ELSE resp[r].cred.tok]
    <3>1. disk' = disk /\ up' = up /\ bind' = bind
      BY <2>3 DEF Retain, fileVars
    <3>2. /\ \A q \in Procs : q # p => mem'[q] = mem[q] /\ pend'[q] = pend[q]
          /\ mem'[p] = c /\ pend'[p].cred = c
      BY <1>0, <2>3 DEF Retain, TypeOK
    <3>3. \A q \in Reqs : resp'[q] = resp[q] \/ resp'[q] = NoAnswer
      BY <1>0, <2>3 DEF Retain, TypeOK
    <3>4. \A q \in Reqs : IssuedBy(NoAnswer.cred, bind'[ProcOf[q]], issuer', minted')
      BY NothingBound
    <3>5. resp[r].cred \in Credential /\ mem[p] \in Credential /\ bind[p] \in Dests
      BY <1>0, <2>0 DEF TypeOK, Answer
    <3>6. up[p]
      BY <1>0, <2>3 DEF Retain, IInv, DownIdle, TypeOK
    <3>7. /\ IssuedBy(resp[r].cred, bind[p], issuer', minted')
          /\ IssuedBy(mem[p], bind[p], issuer', minted')
      BY <1>0, <2>0, <3>5, <3>6, BoundKept DEF DestHeld
    <3>8. c.tok \in {resp[r].cred.tok, mem[p].tok} /\ c.ref = resp[r].cred.ref
      BY <3>5 DEF Credential
    <3>9. IssuedBy(c, bind[p], issuer', minted')
      BY <3>7, <3>8 DEF IssuedBy
    <3>10. QED
      <4> HIDE DEF c
      <4> QED
        BY <1>0, <3>1, <3>2, <3>3, <3>4, <3>9, DestFrame
  <2>4. CASE Check(r) \/ WaiterGivesUp(r) \/ LockFails(r) \/ (AcquireLock(r) /\ ~Return(r, FALSE))
               \/ FlightDone(r) \/ ReadToken(r)
    <3>1. disk' = disk /\ up' = up /\ mem' = mem /\ bind' = bind /\ pend' = pend /\ resp' = resp
      BY <2>4 DEF Check, WaiterGivesUp, LockFails, AcquireLock, FlightDone, ReadToken, fileVars, procVars
    <3>2. QED
      BY <1>0, <3>1, DestFrame
  <2>2. CASE \E b \in BOOLEAN : Return(r, b)
    <3>1. \A q \in Reqs : resp'[q] = resp[q] \/ resp'[q] = NoAnswer
      BY <1>0, <2>2 DEF Return, TypeOK
    <3>2. \A q \in Reqs : IssuedBy(NoAnswer.cred, bind'[ProcOf[q]], issuer', minted')
      BY NothingBound
    <3>3. CASE AcquireLock(r) \/ ReloadFails(r) \/ CallFails(r) \/ LoseAnswer(r) \/ Denied(r)
                 \/ PersistFails(r)
      <4>1. disk' = disk /\ up' = up /\ mem' = mem /\ bind' = bind /\ pend' = pend
        BY <3>3 DEF AcquireLock, ReloadFails, CallFails, LoseAnswer, Denied, PersistFails, procVars
      <4>2. QED
        BY <1>0, <3>1, <3>2, <4>1, DestFrame
    <3>4. CASE Reload(r)
      <4>1. disk' = disk /\ up' = up /\ bind' = bind /\ pend' = pend
        BY <3>4 DEF Reload
      <4>2. disk.dest = bind[p] /\ mem' = [mem EXCEPT ![p] = Adopted(p)]
        BY <3>4 DEF Reload
      <4>3. mem'[p] = mem[p] \/ mem'[p] = disk.cred
        BY <1>0, <2>0, <4>2 DEF Adopted, TypeOK
      <4>4. IssuedBy(disk.cred, bind[p], issuer', minted')
        BY <1>0, <4>2, BoundKept DEF DestHeld, TypeOK
      <4>5. \A q \in Procs : q # p => mem'[q] = mem[q]
        BY <1>0, <4>2 DEF TypeOK
      <4>6. QED
        BY <1>0, <3>1, <3>2, <4>1, <4>3, <4>4, <4>5, DestFrame
    <3>5. CASE BlockConsumed(r)
      <4>1. disk' = disk /\ up' = up /\ bind' = bind /\ pend' = pend
        BY <3>5 DEF BlockConsumed
      <4>2. \A q \in Procs : mem'[q] = mem[q] \/ mem'[q] = NoCred
        BY <1>0, <3>5 DEF BlockConsumed, TypeOK
      <4>3. \A q \in Procs : IssuedBy(NoCred, bind'[q], issuer', minted')
        BY NothingBound
      <4>4. QED
        BY <1>0, <3>1, <3>2, <4>1, <4>2, <4>3, DestFrame
    <3>6. CASE PersistSuperseded(r)
      <4>1. disk' = disk /\ up' = up /\ bind' = bind
        BY <3>6 DEF PersistSuperseded
      <4>2. \A q \in Procs : pend'[q] = pend[q] \/ pend'[q] = NoPending
        BY <1>0, <3>6 DEF PersistSuperseded, TypeOK
      <4>3. \A q \in Procs : q # p => mem'[q] = mem[q]
        BY <1>0, <3>6 DEF PersistSuperseded, TypeOK
      <4>4. mem'[p].tok = 0 /\ mem'[p].ref = mem[p].ref
        BY <1>0, <2>0, <3>6 DEF PersistSuperseded, TypeOK, Credential
      <4>5. up[p] => IssuedBy(mem[p], bind[p], issuer', minted')
        BY <1>0, <2>0, BoundKept DEF DestHeld, TypeOK
      <4>6. up[p] => IssuedBy(mem'[p], bind[p], issuer', minted')
        BY <4>4, <4>5 DEF IssuedBy
      <4>7. \A q \in Procs : IssuedBy(NoPending.cred, bind'[q], issuer', minted')
        BY NothingBound
      <4>8. QED
        BY <1>0, <3>1, <3>2, <4>1, <4>2, <4>3, <4>6, <4>7, DestFrame
    <3>7. CASE Persist(r) \/ PersistUncertain(r)
      <4>1. up' = up /\ bind' = bind /\ mem' = mem /\ disk.dest = bind[p] /\ pc[r] = "persist"
        BY <3>7 DEF Persist, PersistUncertain, procVars
      <4>2. \A q \in Procs : pend'[q] = pend[q] \/ pend'[q] = NoPending
        BY <1>0, <3>7 DEF Persist, PersistUncertain, TypeOK, procVars
      <4>3. disk'.cred = pend[p].cred /\ disk'.dest = bind[p]
        BY <1>0, <3>7 DEF Persist, PersistUncertain, TypeOK
      <4>4. up[p]
        BY <1>0, <4>1 DEF IInv, DownIdle, TypeOK
      <4>5. pend[p].cred \in Credential /\ bind[p] \in Dests
        BY <1>0, <2>0 DEF TypeOK, PendingRefresh
      <4>6. IssuedBy(disk'.cred, disk'.dest, issuer', minted')
        BY <1>0, <2>0, <4>3, <4>4, <4>5, BoundKept DEF DestHeld
      <4>7. \A q \in Procs : IssuedBy(NoPending.cred, bind'[q], issuer', minted')
        BY NothingBound
      <4>8. QED
        BY <1>0, <3>1, <3>2, <4>1, <4>2, <4>6, <4>7, DestFrame
    <3>8. pc'[r] = "flight" /\ lock' = None
      BY <1>0, <2>2 DEF Return, TypeOK
    <3>9. CASE Check(r) \/ WaiterGivesUp(r) \/ LockFails(r) \/ FlightDone(r) \/ ReadToken(r)
      BY <3>9, <2>4
    <3>10. QED
      BY <1>1, <3>3, <3>4, <3>5, <3>6, <3>7, <3>9, <2>1, <2>3 DEF Goroutine
  <2>5. CASE Reload(r) /\ ~(\E b \in BOOLEAN : Return(r, b))
    <3>1. disk' = disk /\ up' = up /\ bind' = bind /\ pend' = pend /\ resp' = resp
      BY <2>5 DEF Reload
    <3>2. disk.dest = bind[p] /\ mem' = [mem EXCEPT ![p] = Adopted(p)]
      BY <2>5 DEF Reload
    <3>3. mem'[p] = mem[p] \/ mem'[p] = disk.cred
      BY <1>0, <2>0, <3>2 DEF Adopted, TypeOK
    <3>4. IssuedBy(disk.cred, bind[p], issuer', minted')
      BY <1>0, <3>2, BoundKept DEF DestHeld, TypeOK
    <3>5. \A q \in Procs : q # p => mem'[q] = mem[q]
      BY <1>0, <3>2 DEF TypeOK
    <3>6. QED
      BY <1>0, <3>1, <3>3, <3>4, <3>5, DestFrame
  <2>6. ~(\E b \in BOOLEAN : Return(r, b)) =>
           ~(ReloadFails(r) \/ CallFails(r) \/ LoseAnswer(r) \/ Denied(r) \/ BlockConsumed(r)
             \/ PersistFails(r) \/ PersistSuperseded(r) \/ Persist(r) \/ PersistUncertain(r))
    <3>1. (~pend[p].bad) \in BOOLEAN
      BY <1>0, <2>0 DEF TypeOK, PendingRefresh
    <3>2. QED
      BY <3>1 DEF ReloadFails, CallFails, LoseAnswer, Denied, BlockConsumed, PersistFails,
         PersistSuperseded, Persist, PersistUncertain
  <2>7. QED
    BY <1>1, <2>1, <2>2, <2>3, <2>4, <2>5, <2>6 DEF Goroutine
<1>2. ASSUME NEW r \in Reqs, NextRequest(r) \/ Cancel(r) PROVE DestHeld'
  <2>1. disk' = disk /\ up' = up /\ mem' = mem /\ bind' = bind /\ pend' = pend /\ resp' = resp
    BY <1>2 DEF NextRequest, Cancel, fileVars, procVars
  <2>2. QED
    BY <1>0, <2>1, DestFrame
<1>3. ASSUME NEW p \in Procs, Start(p) PROVE DestHeld'
  <2>1. /\ disk' = disk /\ pend' = pend /\ resp' = resp /\ ~up[p]
        /\ \A q \in Procs : q # p => mem'[q] = mem[q] /\ bind'[q] = bind[q] /\ up'[q] = up[q]
        /\ mem'[p] = disk.cred /\ bind'[p] = disk.dest
    BY <1>0, <1>3 DEF Start, fileVars, reqVars, TypeOK
  <2>2. IssuedBy(disk.cred, disk.dest, issuer', minted')
    BY <1>0, BoundKept DEF DestHeld, TypeOK
  <2>3. pend[p].cred = NoPending.cred
    BY <2>1 DEF IInv, DownIdle, HasPending
  <2>4. \A r \in Reqs : ProcOf[r] = p => resp[r] = NoAnswer
    BY <2>1 DEF IInv, DownIdle, AnswerHeld
  <2>5. \A r \in Reqs : ProcOf[r] # p => bind'[ProcOf[r]] = bind[ProcOf[r]]
    BY <2>1
  <2>6. /\ IssuedBy(NoPending.cred, bind'[p], issuer', minted')
        /\ \A r \in Reqs : IssuedBy(NoAnswer.cred, bind'[ProcOf[r]], issuer', minted')
    BY NothingBound
  <2>7. QED
    BY <1>0, <2>1, <2>2, <2>3, <2>4, <2>5, <2>6, DestFrame
<1>4. ASSUME NEW p \in Procs, Crash(p) PROVE DestHeld'
  <2>1. /\ disk' = disk /\ bind' = bind
        /\ \A q \in Procs : q # p => mem'[q] = mem[q] /\ pend'[q] = pend[q] /\ up'[q] = up[q]
        /\ ~up'[p]
    BY <1>0, <1>4 DEF Crash, TypeOK
  <2>2. \A r \in Reqs : resp'[r] = resp[r] \/ resp'[r] = NoAnswer
    BY <1>4 DEF Crash
  <2>3. \A r \in Reqs : IssuedBy(NoAnswer.cred, bind'[ProcOf[r]], issuer', minted')
    BY NothingBound
  <2>4. QED
    BY <1>0, <2>1, <2>2, <2>3, DestFrame
<1>5. ASSUME NEW d \in Dests, Login(d) PROVE DestHeld'
  <2> DEFINE new == minted + 1
  <2>1. minted \in Nat /\ new \in Gens
    BY <1>0, <1>5 DEF Login, TypeOK, Gens
  <2>2. up' = up /\ mem' = mem /\ bind' = bind /\ pend' = pend /\ resp' = resp
    BY <1>5 DEF Login, procVars, reqVars
  <2>3. disk'.cred.tok = new /\ disk'.cred.ref = new /\ disk'.dest = d
    BY <1>5 DEF Login, Issued
  <2>4. issuer'[new] = d /\ minted' = new
    BY <1>0, <1>5, <2>1 DEF Login, TypeOK
  <2>5. IssuedBy(disk'.cred, disk'.dest, issuer', minted')
    BY <2>1, <2>3, <2>4 DEF IssuedBy
  <2>6. QED
    BY <1>0, <2>2, <2>5, DestFrame
<1>6. ASSUME NEW g \in Gens, GhostArrives(g) \/ AccessAges(g) \/ RefreshDies(g) PROVE DestHeld'
  <2>1. disk' = disk /\ up' = up /\ mem' = mem /\ bind' = bind /\ pend' = pend /\ resp' = resp
    BY <1>6 DEF GhostArrives, AccessAges, RefreshDies, fileVars, procVars, reqVars
  <2>2. QED
    BY <1>0, <2>1, DestFrame
<1>7. CASE UNCHANGED vars
  <2>1. disk' = disk /\ up' = up /\ mem' = mem /\ bind' = bind /\ pend' = pend /\ resp' = resp
    BY <1>7 DEF vars, fileVars, procVars, reqVars
  <2>2. QED
    BY <1>0, <2>1, DestFrame
<1>8. QED
  BY <1>1, <1>2, <1>3, <1>4, <1>5, <1>6, <1>7 DEF Next

LEMMA DestInductive == Spec => []DestHeld
<1>1. Init => DestHeld
  <2> SUFFICES ASSUME Init PROVE DestHeld
    OBVIOUS
  <2>1. 1 \in Gens /\ minted = 1
    BY DEF Init, Gens
  <2>2. PICK d \in Dests : issuer = [g \in Gens |-> d] /\ disk = [cred |-> Issued(1, 1, 1), dest |-> d]
    BY DEF Init
  <2>3. Bound(disk.cred, disk.dest)
    BY <2>1, <2>2 DEF Bound, IssuedBy, Issued
  <2>4. \A p \in Procs : ~up[p]
    BY DEF Init
  <2>5. \A r \in Reqs : resp[r] = NoAnswer
    BY DEF Init
  <2>6. QED
    BY <2>3, <2>4, <2>5, NothingBound DEF DestHeld, Bound
<1>2. QED
  BY <1>1, DestStep, Inductive, PTL DEF Spec

\* WireTokenPersistence and NewNamespacedRESTConfig: a token is only ever next
\* to the destination that issued it, in memory, pending and on disk.
THEOREM TokensStayWithIssuer == Spec => []DestinationBound
<1>1. DestHeld => DestinationBound
  BY DEF DestHeld, DestinationBound, Bound, IssuedBy, CameFrom
<1>2. QED
  BY <1>1, DestInductive, PTL

-----------------------------------------------------------------------------
(***************************************************************************)
(* What becomes of a spent refresh token. With a rotating issuer the       *)
(* generations on disk only grow, so a pending generation that could still *)
(* be written has not been presented by anybody; with another one refresh  *)
(* tokens are never spent.                                                 *)
(***************************************************************************)
Alive == valid \cup lost

AnswerAlive ==
    \A r \in Reqs :
        /\ pc[r] = "resp" => mem[ProcOf[r]].ref = disk.cred.ref
        /\ resp[r].kind \in {"ok", "partial"} =>
              /\ resp[r].cred.ref \in Alive
              /\ Rotates => mem[ProcOf[r]].ref < resp[r].cred.ref

PendingAlive ==
    \A p \in Procs : HasPending(p) =>
        /\ Rotates => /\ pend[p].prev < pend[p].cred.ref
                      /\ pend[p].prev <= disk.cred.ref
        /\ ~Rotates \/ disk.cred.ref = pend[p].prev => pend[p].cred.ref \in Alive

HistHeld == /\ disk.cred.ref \in Gens
            /\ \A g \in valid : g <= minted
            /\ AnswerAlive
            /\ PendingAlive
            /\ NoLockout

\* Nothing is spent, and the issuer knows the tokens it has handed out.
NothingSpent == /\ Alive \subseteq Alive'
                /\ \A g \in valid' : g <= minted'

\* A step that leaves the file alone, drops what is pending or answered only
\* when it need not be kept, and otherwise leaves it with its process.
LEMMA HistFrame ==
    ASSUME IInv, HistHeld, NothingSpent, disk' = disk,
           \A p \in Procs :
              \/ pend'[p] = pend[p]
              \/ /\ pend'[p] = NoPending
                 /\ HasPending(p) /\ disk.cred.ref = pend[p].prev => disk.cred.ref \in Alive',
           \A r \in Reqs :
              \/ /\ pc'[r] = "resp" <=> pc[r] = "resp"
                 /\ resp'[r] = resp[r]
                 /\ pc[r] = "resp" => mem'[ProcOf[r]].ref = mem[ProcOf[r]].ref
              \/ /\ pc'[r] # "resp"
                 /\ resp'[r] = NoAnswer
                 /\ pc[r] = "resp" /\ resp[r].kind # "denied" => disk.cred.ref \in Alive'
    PROVE  HistHeld'
<1>1. AnswerAlive'
  <2> SUFFICES ASSUME NEW r \in Reqs
               PROVE  /\ pc'[r] = "resp" => mem'[ProcOf[r]].ref = disk'.cred.ref
                      /\ resp'[r].kind \in {"ok", "partial"} =>
                            /\ resp'[r].cred.ref \in Alive'
                            /\ Rotates => mem'[ProcOf[r]].ref < resp'[r].cred.ref
    BY DEF AnswerAlive
  <2>1. CASE resp'[r] = NoAnswer /\ pc'[r] # "resp"
    BY <2>1 DEF NoAnswer
  <2>2. CASE pc'[r] = "resp" /\ pc[r] = "resp" /\ resp'[r] = resp[r]
                /\ mem'[ProcOf[r]].ref = mem[ProcOf[r]].ref
    BY <2>2 DEF HistHeld, AnswerAlive, NothingSpent
  <2>3. CASE pc'[r] # "resp" /\ pc[r] # "resp" /\ resp'[r] = resp[r]
    BY <2>3 DEF IInv, AnswerHeld, NoAnswer
  <2>4. QED
    BY <2>1, <2>2, <2>3
<1>2. PendingAlive'
  <2> SUFFICES ASSUME NEW p \in Procs, HasPending(p)'
               PROVE  /\ Rotates => /\ pend'[p].prev < pend'[p].cred.ref
                                    /\ pend'[p].prev <= disk'.cred.ref
                      /\ ~Rotates \/ disk'.cred.ref = pend'[p].prev => pend'[p].cred.ref \in Alive'
    BY DEF PendingAlive
  <2>1. pend'[p] = pend[p] /\ HasPending(p)
    BY DEF HasPending
  <2>2. QED
    BY <2>1 DEF HistHeld, PendingAlive, NothingSpent
<1>3. NoLockout'
  <2>1. CASE disk.cred.ref \in Alive
    BY <2>1 DEF NothingSpent, NoLockout, Alive
  <2>2. ASSUME NEW p \in Procs, HasPending(p), pend[p].prev = disk.cred.ref PROVE NoLockout'
    BY <2>2 DEF NoLockout, Alive, HasPending
  <2>3. ASSUME NEW r \in Reqs, pc[r] = "resp", resp[r].kind # "denied",
               mem[ProcOf[r]].ref = disk.cred.ref
        PROVE  NoLockout'
    BY <2>3 DEF NoLockout, Alive
  <2>4. QED
    BY <2>1, <2>2, <2>3 DEF HistHeld, NoLockout, Alive
<1>4. QED
  BY <1>1, <1>2, <1>3 DEF HistHeld, NothingSpent

\* A write of a generation that is alive, later than the one it replaces.
LEMMA HistWrite ==
    ASSUME IInv, TypeOK', HistHeld, NothingSpent,
           disk'.cred.ref \in Gens \cap Alive',
           Rotates => disk.cred.ref < disk'.cred.ref,
           \A p \in Procs : pend'[p] = pend[p] \/ pend'[p] = NoPending,
           \A r \in Reqs : pc'[r] # "resp" /\ resp'[r] = NoAnswer
    PROVE  HistHeld'
<1>1. AnswerAlive'
  BY DEF AnswerAlive, NoAnswer
<1>2. PendingAlive'
  <2> SUFFICES ASSUME NEW p \in Procs, HasPending(p)'
               PROVE  /\ Rotates => /\ pend'[p].prev < pend'[p].cred.ref
                                    /\ pend'[p].prev <= disk'.cred.ref
                      /\ ~Rotates \/ disk'.cred.ref = pend'[p].prev => pend'[p].cred.ref \in Alive'
    BY DEF PendingAlive
  <2>1. pend'[p] = pend[p] /\ HasPending(p)
    BY DEF HasPending
  <2>2. pend[p].prev \in Nat /\ disk.cred.ref \in Nat /\ disk'.cred.ref \in Nat
    BY DEF IInv, TypeOK, PendingRefresh, HistHeld, Gens
  <2>3. QED
    BY <2>1, <2>2 DEF HistHeld, PendingAlive, NothingSpent
<1>3. NoLockout'
  BY DEF NoLockout, Alive
<1>4. QED
  BY <1>1, <1>2, <1>3 DEF HistHeld, NothingSpent

\* Only the holder of the lock has an answer.
LEMMA OneAnswer ==
    ASSUME IInv, NEW r \in Reqs, pc[r] \in Locked, NEW q \in Reqs, q # r
    PROVE  pc[q] # "resp"
BY DEF IInv, SingleFlight, Locked

\* The generation on disk is spent only by the one who then holds its successor.
LEMMA HistIssuer ==
    ASSUME IInv, TypeOK', DestHeld, HistHeld, NEW r \in Reqs, IssuerAnswers(r)
    PROVE  HistHeld'
<1> DEFINE p == ProcOf[r]
           old == mem[p].ref
           new == minted + 1
<1>0. /\ disk' = disk /\ pend' = pend /\ mem' = mem /\ lost' = lost
      /\ pc[r] = "net" /\ pc'[r] = "resp"
      /\ \A q \in Reqs : q # r => pc'[q] = pc[q] /\ resp'[q] = resp[q] /\ pc[q] # "resp"
      /\ disk.cred.ref = old
  BY OneAnswer DEF IssuerAnswers, fileVars, procVars, IInv, TypeOK, PresentsStored, Locked
<1>1. \A q \in Reqs : q # r => resp[q] = NoAnswer
  BY <1>0 DEF IInv, AnswerHeld
<1>2. CASE Redeemable(old, bind[p]) /\ minted < MaxGen
  <2>1. /\ old \in valid /\ old \in Gens /\ minted \in Nat /\ old <= minted
        /\ new \in Gens /\ minted' = new
    <3>1. old \in valid /\ old \in Gens /\ old <= minted
      BY <1>2 DEF Redeemable, IInv, TypeOK, HistHeld
    <3>2. minted \in Nat /\ 1 <= minted
      BY DEF IInv, TypeOK, Gens
    <3>3. minted' = new
      BY <1>2 DEF IssuerAnswers
    <3>4. QED
      BY <1>2, <3>1, <3>2, <3>3 DEF Gens
  <2>2. CASE Rotates
    <3>1. valid' = (valid \ {old}) \cup {new}
      BY <1>2, <2>2 DEF IssuerAnswers
    <3>2. resp'[r] \in Answers(new, new)
      BY <1>2, <2>2 DEF IssuerAnswers, IInv, TypeOK
    <3>3. /\ resp'[r].kind # "denied"
          /\ resp'[r].kind \in {"ok", "partial"} => resp'[r].cred.ref = new
      BY <3>2 DEF Answers
    <3>4. \A g \in valid' : g <= minted'
      BY <2>1, <3>1 DEF HistHeld, IInv, TypeOK, Gens
    <3>5. AnswerAlive'
      BY <1>0, <1>1, <2>1, <3>1, <3>3 DEF AnswerAlive, NoAnswer, Alive, Gens
    <3>6. PendingAlive'
      <4> SUFFICES ASSUME NEW q \in Procs, HasPending(q), disk.cred.ref = pend[q].prev
                   PROVE  pend[q].cred.ref \in Alive'
        BY <1>0, <2>2 DEF PendingAlive, HasPending, HistHeld
      <4>1. pend[q].cred.ref \in Alive /\ old < pend[q].cred.ref
        BY <1>0, <2>2 DEF HistHeld, PendingAlive
      <4>2. QED
        BY <1>0, <2>1, <3>1, <4>1 DEF Alive, Gens
    <3>7. NoLockout'
      BY <1>0, <3>3 DEF NoLockout
    <3>8. QED
      BY <1>0, <3>4, <3>5, <3>6, <3>7 DEF HistHeld
  <2>3. CASE ~Rotates
    <3>1. valid' = valid
      BY <1>2, <2>3 DEF IssuerAnswers
    <3>2. resp'[r] \in Answers(new, old)
      BY <1>2, <2>3 DEF IssuerAnswers, IInv, TypeOK
    <3>3. /\ resp'[r].kind # "denied"
          /\ resp'[r].kind \in {"ok", "partial"} => resp'[r].cred.ref = old
      BY <3>2 DEF Answers
    <3>4. \A g \in valid' : g <= minted'
      BY <2>1, <3>1 DEF HistHeld, IInv, TypeOK, Gens
    <3>5. AnswerAlive'
      BY <1>0, <1>1, <2>1, <2>3, <3>1, <3>3 DEF AnswerAlive, NoAnswer, Alive
    <3>6. PendingAlive'
      BY <1>0, <3>1 DEF HistHeld, PendingAlive, HasPending, Alive
    <3>7. NoLockout'
      BY <1>0, <3>3 DEF NoLockout
    <3>8. QED
      BY <1>0, <3>4, <3>5, <3>6, <3>7 DEF HistHeld
  <2>4. QED
    BY <2>2, <2>3
<1>3. CASE ~Redeemable(old, bind[p])
  <2>1. valid' = valid /\ minted' = minted /\ resp'[r].kind = "denied"
    BY <1>3 DEF IssuerAnswers, IInv, TypeOK
  <2>2. AnswerAlive'
    BY <1>0, <1>1, <2>1 DEF AnswerAlive, NoAnswer
  <2>3. PendingAlive'
    BY <1>0, <2>1 DEF HistHeld, PendingAlive, HasPending, Alive
  <2>4. NoLockout'
    BY <1>0, <2>1 DEF HistHeld, NoLockout, HasPending
  <2>5. QED
    BY <1>0, <2>1, <2>2, <2>3, <2>4 DEF HistHeld
<1>4. QED
  BY <1>2, <1>3 DEF IssuerAnswers

\* The answer becomes what is pending.
LEMMA HistRetain ==
    ASSUME IInv, TypeOK', HistHeld, NEW r \in Reqs, Retain(r)
    PROVE  HistHeld'
<1> DEFINE p == ProcOf[r]
<1>0. /\ disk' = disk /\ valid' = valid /\ lost' = lost /\ minted' = minted
      /\ pc[r] = "resp" /\ resp[r].kind \in {"ok", "partial"}
      /\ \A q \in Procs : q # p => pend'[q] = pend[q]
      /\ pend'[p].prev = mem[p].ref /\ pend'[p].cred.ref = resp[r].cred.ref
      /\ mem[p].ref = disk.cred.ref
  <2>1. /\ disk' = disk /\ valid' = valid /\ lost' = lost /\ minted' = minted
        /\ pc[r] = "resp" /\ resp[r].kind \in {"ok", "partial"}
    BY DEF Retain, fileVars, issuerVars
  <2>2. /\ \A q \in Procs : q # p => pend'[q] = pend[q]
        /\ pend'[p].prev = mem[p].ref /\ pend'[p].cred.ref = resp[r].cred.ref
    BY DEF Retain, IInv, TypeOK, Answer, Credential
  <2>3. QED
    BY <2>1, <2>2 DEF HistHeld, AnswerAlive
<1>1. \A q \in Reqs : pc'[q] # "resp" /\ resp'[q] = NoAnswer
  <2>1. pc'[r] # "resp" /\ resp'[r] = NoAnswer
    BY DEF Retain, IInv, TypeOK
  <2>2. \A q \in Reqs : q # r => pc[q] # "resp"
    BY <1>0, OneAnswer DEF Locked
  <2>3. \A q \in Reqs : q # r => pc'[q] = pc[q] /\ resp'[q] = resp[q]
    BY DEF Retain, IInv, TypeOK
  <2>4. QED
    BY <2>1, <2>2, <2>3 DEF IInv, AnswerHeld
<1>2. AnswerAlive'
  BY <1>1 DEF AnswerAlive, NoAnswer
<1>3. PendingAlive'
  <2> SUFFICES ASSUME NEW q \in Procs, HasPending(q)'
               PROVE  /\ Rotates => /\ pend'[q].prev < pend'[q].cred.ref
                                    /\ pend'[q].prev <= disk'.cred.ref
                      /\ ~Rotates \/ disk'.cred.ref = pend'[q].prev => pend'[q].cred.ref \in Alive'
    BY DEF PendingAlive
  <2>1. CASE q = p
    BY <1>0, <2>1 DEF HistHeld, AnswerAlive, Alive, Gens
  <2>2. CASE q # p
    BY <1>0, <2>2 DEF HistHeld, PendingAlive, HasPending, Alive
  <2>3. QED
    BY <2>1, <2>2
<1>4. NoLockout'
  <2>1. disk.cred.ref # 0
    BY DEF HistHeld, Gens
  <2>2. HasPending(p)'
    BY <1>0, <2>1 DEF HasPending, NoPending
  <2>3. QED
    BY <1>0, <2>2 DEF NoLockout
<1>5. QED
  BY <1>0, <1>2, <1>3, <1>4 DEF HistHeld

\* The end of refreshAndPersist without a write.
LEMMA HistReturn ==
    ASSUME IInv, HistHeld, NothingSpent, disk' = disk, NEW r \in Reqs, NEW b \in BOOLEAN,
           Return(r, b),
           \A p \in Procs :
              \/ pend'[p] = pend[p]
              \/ /\ pend'[p] = NoPending
                 /\ HasPending(p) /\ disk.cred.ref = pend[p].prev => disk.cred.ref \in Alive',
           \A q \in Reqs \ {r} : pc[q] = "resp" => mem'[ProcOf[q]].ref = mem[ProcOf[q]].ref,
           pc[r] = "resp" /\ resp[r].kind # "denied" => disk.cred.ref \in Alive'
    PROVE  HistHeld'
<1>1. pc'[r] # "resp" /\ resp'[r] = NoAnswer
  BY DEF Return, IInv, TypeOK
<1>2. \A q \in Reqs \ {r} : pc'[q] = pc[q] /\ resp'[q] = resp[q]
  BY DEF Return, IInv, TypeOK
<1>3. QED
  BY <1>1, <1>2, HistFrame

\* A write ends what is pending, or leaves it when its outcome is uncertain.
LEMMA HistPersist ==
    ASSUME IInv, TypeOK', HistHeld, NEW r \in Reqs, Persist(r) \/ PersistUncertain(r)
    PROVE  HistHeld'
<1> DEFINE p == ProcOf[r]
           c == pend[p].cred
<1>0. /\ pc[r] = "persist" /\ disk'.cred = c /\ valid' = valid /\ lost' = lost /\ minted' = minted
      /\ \A q \in Procs : q # p => pend'[q] = pend[q]
      /\ pend'[p] = pend[p] \/ pend'[p] = NoPending
      /\ mem' = mem /\ disk'.dest = disk.dest
  BY DEF Persist, PersistUncertain, IInv, TypeOK, issuerVars, procVars
<1>1. PICK b \in BOOLEAN : Return(r, b)
  <2>1. (~pend[p].bad) \in BOOLEAN
    BY DEF IInv, TypeOK, PendingRefresh
  <2>2. QED
    BY <2>1 DEF Persist, PersistUncertain
<1>2. NothingSpent
  BY <1>0 DEF NothingSpent, Alive, HistHeld
<1>3. HasPending(p)
  BY <1>0 DEF IInv, PendingStages
<1>4. CASE disk.cred = c
  <2>1. disk' = disk
    BY <1>0, <1>4 DEF Persist, PersistUncertain, IInv, TypeOK
  <2>2. disk.cred.ref = pend[p].prev => disk.cred.ref \in Alive'
    BY <1>0, <1>3, <1>4 DEF HistHeld, PendingAlive, Alive
  <2>3. QED
    BY <1>0, <1>1, <1>2, <2>1, <2>2, HistReturn
<1>5. CASE disk.cred # c
  <2>1. disk.cred.ref = pend[p].prev
    BY <1>5 DEF Persist, PersistUncertain, GenerationChanged
  <2>2. c.ref \in Gens /\ c.ref \in Alive' /\ (Rotates => disk.cred.ref < c.ref)
    BY <1>0, <1>3, <2>1 DEF HistHeld, PendingAlive, Alive, IInv, PendingHeld, Derived
  <2>3. pc'[r] # "resp" /\ resp'[r] = NoAnswer
    BY <1>1 DEF Return, IInv, TypeOK
  <2>4. \A q \in Reqs : q # r => pc'[q] = pc[q] /\ resp'[q] = resp[q] /\ pc[q] # "resp"
    BY <1>0, <1>1, OneAnswer DEF Return, IInv, TypeOK, Locked
  <2>5. \A q \in Reqs : pc'[q] # "resp" /\ resp'[q] = NoAnswer
    BY <2>3, <2>4 DEF IInv, AnswerHeld
  <2>6. QED
    BY <1>0, <1>2, <2>2, <2>5, HistWrite
<1>6. QED
  BY <1>4, <1>5

LEMMA HistStep == IInv /\ DestHeld /\ HistHeld /\ [Next]_vars => HistHeld'
<1> SUFFICES ASSUME IInv, DestHeld, HistHeld, [Next]_vars PROVE HistHeld'
  OBVIOUS
<1>0. TypeOK /\ TypeOK'
  BY TypeStep DEF IInv
<1>1. ASSUME NEW r \in Reqs, Goroutine(r) PROVE HistHeld'
  <2> DEFINE p == ProcOf[r]
  <2>1. CASE IssuerAnswers(r)
    BY <1>0, <2>1, HistIssuer
  <2>2. CASE Retain(r)
    BY <1>0, <2>2, HistRetain
  <2>3. CASE Persist(r) \/ PersistUncertain(r)
    BY <1>0, <2>3, HistPersist
  <2>4. CASE Check(r) \/ WaiterGivesUp(r) \/ LockFails(r) \/ FlightDone(r) \/ ReadToken(r)
    <3>1. /\ disk' = disk /\ pend' = pend /\ resp' = resp /\ mem' = mem
          /\ valid' = valid /\ lost' = lost /\ minted' = minted
      BY <2>4 DEF Check, WaiterGivesUp, LockFails, FlightDone, ReadToken, fileVars, procVars, issuerVars
    <3>2. \A q \in Reqs : pc'[q] = "resp" <=> pc[q] = "resp"
      BY <1>0, <2>4 DEF Check, WaiterGivesUp, LockFails, FlightDone, ReadToken, TypeOK
    <3>3. NothingSpent
      BY <3>1 DEF NothingSpent, Alive, HistHeld
    <3>4. QED
      BY <3>1, <3>2, <3>3, HistFrame
  <2>5. CASE AcquireLock(r)
    <3>1. /\ disk' = disk /\ pend' = pend /\ mem' = mem
          /\ valid' = valid /\ lost' = lost /\ minted' = minted /\ pc[r] = "lock"
      BY <2>5 DEF AcquireLock, procVars, issuerVars
    <3>2. NothingSpent
      BY <3>1 DEF NothingSpent, Alive, HistHeld
    <3>3. CASE Return(r, FALSE)
      BY <3>1, <3>2, <3>3, HistReturn
    <3>4. CASE ~Return(r, FALSE)
      <4>1. resp' = resp /\ (\A q \in Reqs : pc'[q] = "resp" <=> pc[q] = "resp")
        BY <1>0, <2>5, <3>4 DEF AcquireLock, TypeOK
      <4>2. QED
        BY <3>1, <3>2, <4>1, HistFrame
    <3>5. QED
      BY <3>3, <3>4
  <2>6. CASE Reload(r)
    <3>1. /\ disk' = disk /\ pend' = pend
          /\ valid' = valid /\ lost' = lost /\ minted' = minted /\ pc[r] = "reload"
      BY <2>6 DEF Reload, issuerVars
    <3>2. NothingSpent
      BY <3>1 DEF NothingSpent, Alive, HistHeld
    <3>3. \A q \in Reqs : pc[q] # "resp"
      BY <3>1, OneAnswer DEF Locked
    <3>4. CASE \E b \in BOOLEAN : Return(r, b)
      BY <3>1, <3>2, <3>3, <3>4, HistReturn
    <3>5. CASE ~\E b \in BOOLEAN : Return(r, b)
      <4>1. resp' = resp /\ (\A q \in Reqs : pc'[q] = "resp" <=> pc[q] = "resp")
        BY <1>0, <2>6, <3>5 DEF Reload, TypeOK
      <4>2. QED
        BY <3>1, <3>2, <3>3, <4>1, HistFrame
    <3>6. QED
      BY <3>4, <3>5
  <2>7. CASE ReloadFails(r) \/ CallFails(r) \/ Denied(r) \/ PersistFails(r)
    <3>1. /\ disk' = disk /\ pend' = pend /\ mem' = mem
          /\ valid' = valid /\ lost' = lost /\ minted' = minted /\ Return(r, FALSE)
          /\ pc[r] = "resp" => resp[r].kind = "denied"
      BY <2>7 DEF ReloadFails, CallFails, Denied, PersistFails, procVars, issuerVars
    <3>2. NothingSpent
      BY <3>1 DEF NothingSpent, Alive, HistHeld
    <3>3. QED
      BY <3>1, <3>2, HistReturn
  <2>8. CASE LoseAnswer(r) \/ BlockConsumed(r)
    <3>1. /\ disk' = disk /\ pend' = pend /\ pc[r] = "resp"
          /\ valid' = valid /\ minted' = minted /\ Return(r, FALSE)
          /\ lost' = lost \cup ({mem[p].ref} \ valid)
      BY <2>8 DEF LoseAnswer, BlockConsumed, procVars, issuerVars
    <3>2. NothingSpent
      BY <3>1 DEF NothingSpent, Alive, HistHeld
    <3>3. disk.cred.ref \in Alive'
      BY <3>1 DEF HistHeld, AnswerAlive, Alive
    <3>4. \A q \in Reqs \ {r} : pc[q] # "resp"
      BY <3>1, OneAnswer DEF Locked
    <3>5. QED
      BY <3>1, <3>2, <3>3, <3>4, HistReturn
  <2>9. CASE PersistSuperseded(r)
    <3>1. /\ disk' = disk /\ valid' = valid /\ lost' = lost /\ minted' = minted
          /\ pc[r] = "persist" /\ Return(r, FALSE)
          /\ \A q \in Procs : q # p => pend'[q] = pend[q]
          /\ pend'[p] = NoPending
          /\ disk.cred.ref # pend[p].prev
      BY <1>0, <2>9 DEF PersistSuperseded, GenerationChanged, issuerVars, TypeOK
    <3>2. NothingSpent
      BY <3>1 DEF NothingSpent, Alive, HistHeld
    <3>3. \A q \in Reqs : pc[q] # "resp"
      BY <3>1, OneAnswer DEF Locked
    <3>4. QED
      BY <3>1, <3>2, <3>3, HistReturn
  <2>10. QED
    BY <1>1, <2>1, <2>2, <2>3, <2>4, <2>5, <2>6, <2>7, <2>8, <2>9 DEF Goroutine
<1>2. ASSUME NEW r \in Reqs, NextRequest(r) \/ Cancel(r) PROVE HistHeld'
  <2>1. /\ disk' = disk /\ pend' = pend /\ resp' = resp /\ mem' = mem
        /\ valid' = valid /\ lost' = lost /\ minted' = minted
    BY <1>2 DEF NextRequest, Cancel, fileVars, procVars, issuerVars
  <2>2. \A q \in Reqs : pc'[q] = "resp" <=> pc[q] = "resp"
    BY <1>0, <1>2 DEF NextRequest, Cancel, TypeOK
  <2>3. NothingSpent
    BY <2>1 DEF NothingSpent, Alive, HistHeld
  <2>4. QED
    BY <2>1, <2>2, <2>3, HistFrame
<1>3. ASSUME NEW p \in Procs, Start(p) PROVE HistHeld'
  <2>1. /\ disk' = disk /\ pend' = pend /\ resp' = resp /\ pc' = pc /\ ~up[p]
        /\ valid' = valid /\ lost' = lost /\ minted' = minted
        /\ \A q \in Procs : q # p => mem'[q] = mem[q]
    BY <1>0, <1>3 DEF Start, fileVars, issuerVars, reqVars, TypeOK
  <2>2. \A r \in Reqs : pc[r] = "resp" => ProcOf[r] # p
    BY <2>1 DEF IInv, DownIdle
  <2>3. NothingSpent
    BY <2>1 DEF NothingSpent, Alive, HistHeld
  <2>4. QED
    BY <2>1, <2>2, <2>3, HistFrame
<1>4. ASSUME NEW p \in Procs, Crash(p) PROVE HistHeld'
  <2>1. /\ disk' = disk /\ valid' = valid /\ minted' = minted
        /\ lost' = lost \cup (Consumed(p) \ valid)
        /\ \A q \in Procs : q # p => mem'[q] = mem[q] /\ pend'[q] = pend[q]
        /\ pend'[p] = NoPending
    BY <1>0, <1>4 DEF Crash, issuerVars, TypeOK
  <2>2. \A r \in Reqs : IF ProcOf[r] = p THEN pc'[r] = "idle" /\ resp'[r] = NoAnswer
                                         ELSE pc'[r] = pc[r] /\ resp'[r] = resp[r]
    BY <1>0, <1>4 DEF Crash, TypeOK
  <2>3. NothingSpent
    BY <2>1 DEF NothingSpent, Alive, HistHeld
  <2>4. ASSUME HasPending(p), disk.cred.ref = pend[p].prev PROVE disk.cred.ref \in Alive'
    <3>1. CASE disk.cred = pend[p].cred
      BY <2>3, <2>4, <3>1 DEF HistHeld, PendingAlive, NothingSpent
    <3>2. CASE disk.cred # pend[p].cred
      <4>1. pend[p].prev \in Consumed(p)
        BY <2>4, <3>2 DEF Consumed
      <4>2. QED
        BY <2>1, <2>4, <4>1 DEF Alive
    <3>3. QED
      BY <3>1, <3>2
  <2>5. ASSUME NEW r \in Reqs, ProcOf[r] = p, pc[r] = "resp", resp[r].kind # "denied"
        PROVE  disk.cred.ref \in Alive'
    <3>1. mem[p].ref \in Consumed(p)
      BY <2>5 DEF Consumed
    <3>2. mem[p].ref = disk.cred.ref
      BY <2>5 DEF HistHeld, AnswerAlive
    <3>3. QED
      BY <2>1, <3>1, <3>2 DEF Alive
  <2>6. QED
    BY <2>1, <2>2, <2>3, <2>4, <2>5, HistFrame
<1>5. ASSUME NEW d \in Dests, Login(d) PROVE HistHeld'
  <2> DEFINE new == minted + 1
  <2>1. /\ minted \in Nat /\ new \in Gens /\ minted' = new /\ valid' = valid \cup {new}
        /\ disk'.cred.ref = new /\ lock = None
        /\ pend' = pend /\ pc' = pc /\ resp' = resp /\ lost' = lost
    BY <1>0, <1>5 DEF Login, Issued, TypeOK, Gens, procVars, reqVars
  <2>2. disk.cred.ref \in Gens /\ disk.cred.ref <= minted
    BY DEF HistHeld, DestHeld, Bound, IssuedBy, Gens
  <2>3. \A r \in Reqs : pc[r] # "resp" /\ resp[r] = NoAnswer
    BY <2>1 DEF IInv, SingleFlight, Locked, AnswerHeld
  <2>4. NothingSpent
    BY <1>0, <2>1 DEF NothingSpent, Alive, HistHeld, TypeOK, Gens
  <2>5. disk.cred.ref < new
    BY <2>1, <2>2 DEF Gens
  <2>6. QED
    BY <1>0, <2>1, <2>3, <2>4, <2>5, HistWrite DEF Alive
<1>6. ASSUME NEW g \in Gens, GhostArrives(g) \/ AccessAges(g) \/ RefreshDies(g) PROVE HistHeld'
  <2>1. /\ disk' = disk /\ pend' = pend /\ resp' = resp /\ mem' = mem /\ pc' = pc
        /\ minted' = minted
    BY <1>6 DEF GhostArrives, AccessAges, RefreshDies, fileVars, procVars, reqVars, issuerVars
  <2>2. NothingSpent
    <3>1. CASE GhostArrives(g)
      BY <2>1, <3>1 DEF GhostArrives, NothingSpent, Alive, HistHeld
    <3>2. CASE AccessAges(g) \/ RefreshDies(g)
      BY <3>2 DEF AccessAges, RefreshDies, NothingSpent, Alive, HistHeld, issuerVars
    <3>3. QED
      BY <1>6, <3>1, <3>2
  <2>3. QED
    BY <2>1, <2>2, HistFrame
<1>7. CASE UNCHANGED vars
  <2>1. /\ disk' = disk /\ pend' = pend /\ resp' = resp /\ mem' = mem /\ pc' = pc
        /\ minted' = minted /\ valid' = valid /\ lost' = lost
    BY <1>7 DEF vars, fileVars, procVars, reqVars, issuerVars
  <2>2. NothingSpent
    BY <2>1 DEF NothingSpent, Alive, HistHeld
  <2>3. QED
    BY <2>1, <2>2, HistFrame
<1>8. QED
  BY <1>1, <1>2, <1>3, <1>4, <1>5, <1>6, <1>7 DEF Next

\* gcx never locks its user out by itself: whatever goroutines and processes do,
\* crash and retry, the refresh token of the file can be redeemed, or its successor
\* is still owed by a running process, or an answer of the issuer was lost.
THEOREM NeverLockedOut == Spec => []NoLockout
<1>1. Init => HistHeld
  <2> SUFFICES ASSUME Init PROVE HistHeld
    OBVIOUS
  <2>1. /\ 1 \in Gens /\ minted = 1 /\ valid = {1} /\ lost = {} /\ disk.cred.ref = 1
        /\ \A p \in Procs : pend[p] = NoPending
        /\ \A r \in Reqs : pc[r] = "idle" /\ resp[r] = NoAnswer
    BY DEF Init, Gens, Issued
  <2>2. QED
    BY <2>1 DEF HistHeld, AnswerAlive, PendingAlive, NoLockout, HasPending, NoAnswer
<1>2. HistHeld => NoLockout
  BY DEF HistHeld
<1>3. QED
  BY <1>1, <1>2, HistStep, Inductive, DestInductive, PTL DEF Spec
=============================================================================

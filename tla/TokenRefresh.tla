----------------------------- MODULE TokenRefresh -----------------------------
(***************************************************************************)
(* The OAuth token lifecycle of gcx: internal/auth/transport.go (one       *)
(* RefreshTransport per process, used by many goroutines at once) wired by *)
(* WireTokenPersistence of internal/config/rest.go to a config file that   *)
(* several gcx processes share, in front of an issuer whose refresh tokens *)
(* are good for one use (Rotates) or for many.                             *)
(*                                                                         *)
(* A generation g stands for an access token and the refresh token issued  *)
(* with it; 0 stands for the empty string. An expiry is the token whose    *)
(* deadline it records, NoExpiry (the zero time) or LongPast (the    *)
(* Unix epoch the transport stores to force a renewal). Time is the pair   *)
(* of growing sets `aged' (access tokens inside refreshThreshold) and      *)
(* `dead' (refresh tokens past their expiry).                              *)
(***************************************************************************)
EXTENDS Integers

CONSTANTS
    Procs,          \* gcx processes sharing one config file
    Reqs,           \* goroutines issuing HTTP requests, or calling FreshToken
    ProcOf,         \* the process each goroutine belongs to
    Dests,          \* credential destinations (server, proxy and TLS trust)
    MaxGen,         \* bound: generations the issuer hands out
    Rotates,        \* whether the issuer replaces refresh tokens
    MayOmitExpiry,  \* whether the issuer may leave expiry timestamps blank
    Faults,         \* what the environment does in this instance (AllFaults)
    None            \* no request, no process

\* Processes end at any point, callers cancel, timed-out requests arrive late,
\* refresh tokens expire, users log in again.
AllFaults == {"crash", "cancel", "ghost", "expire", "login"}

ASSUME TokenRefreshAssumption ==
    /\ Faults \subseteq AllFaults
    /\ ProcOf \in [Reqs -> Procs]
    /\ MaxGen \in Nat \ {0}
    /\ Rotates \in BOOLEAN
    /\ MayOmitExpiry \in BOOLEAN
    /\ None \notin Reqs

VARIABLES
    minted, valid, parent, issuer,      \* the issuer
    ghosts,                             \* refresh requests still on their way
    aged, dead,                         \* time
    disk, lock,                         \* the config file and its flock
    up, mem, bind, pend, blocked, inflight,     \* one RefreshTransport each
    pc, cancelled, resp, ok, bearer,    \* goroutines
    lost                                \* history: see LoseAnswer

issuerVars == <<minted, valid, parent, issuer, ghosts>>
timeVars   == <<aged, dead>>
fileVars   == <<disk, lock>>
procVars   == <<up, mem, bind, pend, blocked, inflight>>
reqVars    == <<pc, cancelled, resp, ok, bearer>>
vars == <<issuerVars, timeVars, fileVars, procVars, reqVars, lost>>

-----------------------------------------------------------------------------
Gens     == 1 .. MaxGen
NoExpiry == 0
LongPast == -1
Expiry   == Gens \cup {NoExpiry, LongPast}

\* The four OAuth fields kept together in memory (RefreshTransport), on disk
\* (GrafanaConfig) and in a refresh response (RefreshResult).
Credential == [tok: Gens \cup {0}, ref: Gens \cup {0}, exp: Expiry, rexp: Expiry]
NoCred     == [tok |-> 0, ref |-> 0, exp |-> NoExpiry, rexp |-> NoExpiry]
Issued(g, e, re) == [tok |-> g, ref |-> g, exp |-> e, rexp |-> re]

\* pendingRefresh: a rotated generation that is not yet durably persisted.
PendingRefresh == [prev: Gens \cup {0}, cred: Credential, bad: BOOLEAN]
NoPending      == [prev |-> 0, cred |-> NoCred, bad |-> FALSE]
HasPending(p)  == pend[p] # NoPending

AnswerKind == {"none", "ok", "partial", "unusable", "denied"}
Answer     == [kind: AnswerKind, cred: Credential]
NoAnswer   == [kind |-> "none", cred |-> NoCred]

Stage == {"idle", "wait", "lock", "reload", "net", "resp", "persist",
          "flight", "read", "sent", "failed"}

\* The access token can be used without renewal: maybeRefresh's fast path.
Usable(c) == c.tok # 0 /\ (c.exp = NoExpiry \/ (c.exp # LongPast /\ c.exp \notin aged))

RefreshExpired(c) == c.rexp \in dead

-----------------------------------------------------------------------------
Init ==
    /\ minted = 1
    /\ valid = {1}
    /\ parent = [g \in Gens |-> 0]
    /\ \E d \in Dests :
        /\ issuer = [g \in Gens |-> d]
        /\ disk = [cred |-> Issued(1, 1, 1), dest |-> d]
        /\ bind = [p \in Procs |-> d]
    /\ ghosts = {}
    /\ aged = {}
    /\ dead = {}
    /\ lock = None
    /\ up = [p \in Procs |-> FALSE]
    /\ mem = [p \in Procs |-> NoCred]
    /\ pend = [p \in Procs |-> NoPending]
    /\ blocked = [p \in Procs |-> FALSE]
    /\ inflight = [p \in Procs |-> None]
    /\ pc = [r \in Reqs |-> "idle"]
    /\ cancelled = [r \in Reqs |-> FALSE]
    /\ resp = [r \in Reqs |-> NoAnswer]
    /\ ok = [r \in Reqs |-> FALSE]
    /\ bearer = [r \in Reqs |-> 0]
    /\ lost = {}

-----------------------------------------------------------------------------
(***************************************************************************)
(* The first critical section of maybeRefresh: fail, use the token as it   *)
(* is, join the refresh under way, or lead a new one. A pending generation *)
(* bypasses every check but `blocked'.                                     *)
(***************************************************************************)
CheckFails(p, r) ==
    \/ blocked[p]
    \/ /\ ~HasPending(p)
       /\ ~Usable(mem[p])
       /\ mem[p].ref = 0 \/ RefreshExpired(mem[p]) \/ cancelled[r]

FastPath(p) == ~blocked[p] /\ ~HasPending(p) /\ Usable(mem[p])

\* Bug variant: no single flight, every caller leads a refresh of its own.
CheckNeverJoins(r) ==
    LET p == ProcOf[r] IN
    /\ pc[r] = "idle"
    /\ up[p]
    /\ ~CheckFails(p, r)
    /\ pc' = [pc EXCEPT ![r] = IF FastPath(p) THEN "read" ELSE "lock"]
    /\ inflight' = [inflight EXCEPT ![p] = IF FastPath(p) THEN @ ELSE r]
    /\ UNCHANGED <<issuerVars, timeVars, fileVars, up, mem, bind, pend, blocked,
                   cancelled, resp, ok, bearer, lost>>

Check(r) ==
    LET p == ProcOf[r] IN
    /\ pc[r] = "idle"
    /\ up[p]
    /\ \/ /\ CheckFails(p, r)
          /\ pc' = [pc EXCEPT ![r] = "failed"]
          /\ UNCHANGED inflight
       \/ /\ FastPath(p)
          /\ pc' = [pc EXCEPT ![r] = "read"]
          /\ UNCHANGED inflight
       \/ /\ ~CheckFails(p, r)
          /\ ~FastPath(p)
          /\ inflight[p] # None
          /\ pc' = [pc EXCEPT ![r] = "wait"]
          /\ UNCHANGED inflight
       \/ /\ ~CheckFails(p, r)
          /\ ~FastPath(p)
          /\ inflight[p] = None
          /\ pc' = [pc EXCEPT ![r] = "lock"]
          /\ inflight' = [inflight EXCEPT ![p] = r]
    /\ UNCHANGED <<issuerVars, timeVars, fileVars, up, mem, bind, pend, blocked,
                   cancelled, resp, ok, bearer, lost>>

\* A waiter leaves the flight because its own context is done.
WaiterGivesUp(r) ==
    /\ pc[r] = "wait"
    /\ cancelled[r]
    /\ pc' = [pc EXCEPT ![r] = "failed"]
    /\ UNCHANGED <<issuerVars, timeVars, fileVars, procVars,
                   cancelled, resp, ok, bearer, lost>>

\* refreshAndPersist returns to maybeRefresh: the deferred release runs.
Return(r, success) ==
    /\ lock' = None
    /\ ok' = [ok EXCEPT ![r] = success]
    /\ pc' = [pc EXCEPT ![r] = "flight"]
    /\ resp' = [resp EXCEPT ![r] = NoAnswer]

\* The lock attempt ends without the lock: the callback failed, it timed out,
\* or (before any rotation) the caller's context was cancelled.
LockFails(r) ==
    /\ pc[r] = "lock"
    /\ ok' = [ok EXCEPT ![r] = FALSE]
    /\ pc' = [pc EXCEPT ![r] = "flight"]
    /\ UNCHANGED <<issuerVars, timeVars, fileVars, procVars,
                   cancelled, resp, bearer, lost>>

\* Bug variant: the refresh goes on without the lock it could not get.
AcquireLockIgnored(r) ==
    /\ pc[r] = "lock"
    /\ lock' = r
    /\ pc' = [pc EXCEPT ![r] = IF HasPending(ProcOf[r]) THEN "persist" ELSE "reload"]
    /\ UNCHANGED <<issuerVars, timeVars, disk, procVars, cancelled, resp, ok,
                   bearer, lost>>

\* A held lock with a pending generation goes straight to the retry of its
\* persistence; otherwise the caller's context is checked once more.
AcquireLock(r) ==
    LET p == ProcOf[r] IN
    /\ pc[r] = "lock"
    /\ lock = None
    /\ \/ /\ HasPending(p)
          /\ lock' = r
          /\ pc' = [pc EXCEPT ![r] = "persist"]
          /\ UNCHANGED <<ok, resp>>
       \/ /\ ~HasPending(p)
          /\ ~cancelled[r]
          /\ lock' = r
          /\ pc' = [pc EXCEPT ![r] = "reload"]
          /\ UNCHANGED <<ok, resp>>
       \/ /\ ~HasPending(p)
          /\ cancelled[r]
          /\ Return(r, FALSE)
    /\ UNCHANGED <<issuerVars, timeVars, disk, procVars, cancelled, bearer, lost>>

(***************************************************************************)
(* adoptFreshStoredTokens over the Reload callback, and the checks between *)
(* it and the network call. The file is read under the lock; a stack entry *)
(* whose destination is no longer the bound one is an error, never adopted.*)
(***************************************************************************)
Adopted(p) ==
    IF disk.cred.ref = mem[p].ref /\ disk.cred.tok = mem[p].tok
    THEN mem[p] ELSE disk.cred

ReloadFails(r) ==
    /\ pc[r] = "reload"
    /\ Return(r, FALSE)
    /\ UNCHANGED <<issuerVars, timeVars, disk, procVars, cancelled, bearer, lost>>

\* Bug variants: no reload under the lock; a reload that adopts whatever the
\* entry holds, for whichever destination.
ReloadSkipped(r) ==
    /\ pc[r] = "reload"
    /\ pc' = [pc EXCEPT ![r] = "net"]
    /\ UNCHANGED <<issuerVars, timeVars, fileVars, procVars, cancelled, resp, ok,
                   bearer, lost>>

ReloadAnyDestination(r) ==
    LET p == ProcOf[r] IN
    /\ pc[r] = "reload"
    /\ mem' = [mem EXCEPT ![p] = Adopted(p)]
    /\ Return(r, Usable(Adopted(p)))
    /\ UNCHANGED <<issuerVars, timeVars, disk, up, bind, pend, blocked, inflight,
                   cancelled, bearer, lost>>

Reload(r) ==
    LET p == ProcOf[r]
        c == Adopted(p)
        fresh == c # mem[p] /\ Usable(c)
    IN
    /\ pc[r] = "reload"
    /\ disk.dest = bind[p]
    /\ disk.cred.ref # 0
    /\ mem' = [mem EXCEPT ![p] = c]
    /\ \/ /\ cancelled[r] \/ (~fresh /\ RefreshExpired(c))
          /\ Return(r, FALSE)
       \/ /\ ~cancelled[r]
          /\ fresh
          /\ Return(r, TRUE)
       \/ /\ ~cancelled[r]
          /\ ~fresh
          /\ ~RefreshExpired(c)
          /\ pc' = [pc EXCEPT ![r] = "net"]
          /\ UNCHANGED <<lock, ok, resp>>
    /\ UNCHANGED <<issuerVars, timeVars, disk, up, bind, pend, blocked, inflight,
                   cancelled, bearer, lost>>

-----------------------------------------------------------------------------
(***************************************************************************)
(* doProxyRefresh and the issuer behind it. A rotating issuer redeems a    *)
(* refresh token once; the answer may then be unusable, partly malformed,  *)
(* or lost. Another one answers with the refresh token it was given.       *)
(***************************************************************************)
Blank(g) == IF MayOmitExpiry THEN {g, NoExpiry} ELSE {g}

\* The 200 answers that carry access token g and refresh token f.
Answers(g, f) ==
    [kind: {"ok"},
     cred: {[tok |-> g, ref |-> f, exp |-> e, rexp |-> re] :
                e \in Blank(g), re \in Blank(f)}]
      \cup
    [kind: {"partial"},
     cred: {[tok |-> t, ref |-> f, exp |-> LongPast, rexp |-> re] :
                t \in {0, g}, re \in {f, NoExpiry}}]
      \cup
    [kind: {"unusable"}, cred: {NoCred}]

Redeemable(g, d) == g \in valid /\ g \notin dead /\ issuer[g] = d

IssuerAnswers(r) ==
    LET p == ProcOf[r]
        old == mem[p].ref
        new == minted + 1
    IN
    /\ pc[r] = "net"
    /\ pc' = [pc EXCEPT ![r] = "resp"]
    /\ \/ /\ Redeemable(old, bind[p])
          /\ minted < MaxGen
          /\ minted' = new
          /\ issuer' = [issuer EXCEPT ![new] = bind[p]]
          /\ \/ /\ Rotates
                /\ valid' = (valid \ {old}) \cup {new}
                /\ parent' = [parent EXCEPT ![new] = old]
                /\ \E a \in Answers(new, new) : resp' = [resp EXCEPT ![r] = a]
             \/ /\ ~Rotates
                /\ \E a \in Answers(new, old) : resp' = [resp EXCEPT ![r] = a]
                /\ UNCHANGED <<valid, parent>>
       \/ /\ ~Redeemable(old, bind[p])
          /\ resp' = [resp EXCEPT ![r] = [kind |-> "denied", cred |-> NoCred]]
          /\ UNCHANGED <<minted, valid, parent, issuer>>
    /\ UNCHANGED <<ghosts, timeVars, fileVars, procVars, cancelled, ok, bearer, lost>>

\* The 30s timeout, a transport error or a 5xx before the issuer acted. The
\* request may still reach the issuer later.
CallFails(r) ==
    /\ pc[r] = "net"
    /\ \/ UNCHANGED ghosts
       \/ /\ "ghost" \in Faults
          /\ ghosts' = ghosts \cup {mem[ProcOf[r]].ref}
    /\ Return(r, FALSE)
    /\ UNCHANGED <<minted, valid, parent, issuer, timeVars, disk, procVars,
                   cancelled, bearer, lost>>

GhostArrives(g) ==
    /\ Rotates
    /\ g \in ghosts \cap valid
    /\ g \notin dead
    /\ ghosts' = ghosts \ {g}
    /\ valid' = valid \ {g}
    /\ lost' = lost \cup {g}
    /\ UNCHANGED <<minted, parent, issuer, timeVars, fileVars, procVars, reqVars>>

\* The issuer rotated but its answer never arrived. `lost' records the refresh
\* tokens that were consumed and whose successor no process can persist.
LoseAnswer(r) ==
    /\ pc[r] = "resp"
    /\ resp[r].kind # "denied"
    /\ lost' = lost \cup ({mem[ProcOf[r]].ref} \ valid)
    /\ Return(r, FALSE)
    /\ UNCHANGED <<issuerVars, timeVars, disk, procVars, cancelled, bearer>>

-----------------------------------------------------------------------------
(***************************************************************************)
(* The rest of refreshAndPersist, after the answer.                        *)
(***************************************************************************)
Denied(r) ==
    /\ pc[r] = "resp"
    /\ resp[r].kind = "denied"
    /\ Return(r, FALSE)
    /\ UNCHANGED <<issuerVars, timeVars, disk, procVars, cancelled, bearer, lost>>

\* blockConsumedGeneration: a 200 without a replacement refresh token.
BlockConsumed(r) ==
    LET p == ProcOf[r] IN
    /\ pc[r] = "resp"
    /\ resp[r].kind = "unusable"
    /\ mem' = [mem EXCEPT ![p] = NoCred]
    /\ blocked' = [blocked EXCEPT ![p] = TRUE]
    /\ lost' = lost \cup ({mem[p].ref} \ valid)
    /\ Return(r, FALSE)
    /\ UNCHANGED <<issuerVars, timeVars, disk, up, bind, pend, inflight,
                   cancelled, bearer>>

\* Bug variant: the generation to compare with is read after it was replaced.
RetainSwapped(r) ==
    LET p == ProcOf[r]
        c == resp[r].cred
    IN
    /\ pc[r] = "resp"
    /\ resp[r].kind = "ok"
    /\ mem' = [mem EXCEPT ![p] = c]
    /\ pend' = [pend EXCEPT ![p] = [prev |-> c.ref, cred |-> c, bad |-> FALSE]]
    /\ pc' = [pc EXCEPT ![r] = "persist"]
    /\ resp' = [resp EXCEPT ![r] = NoAnswer]
    /\ UNCHANGED <<issuerVars, timeVars, fileVars, up, bind, blocked, inflight,
                   cancelled, ok, bearer, lost>>

\* The replacement generation becomes the token in memory and is retained as
\* pending; a missing access token keeps the old one, marked stale.
Retain(r) ==
    LET p == ProcOf[r]
        a == resp[r].cred
        c == [a EXCEPT !.tok = IF a.tok = 0 THEN mem[p].tok ELSE a.tok]
    IN
    /\ pc[r] = "resp"
    /\ resp[r].kind \in {"ok", "partial"}
    /\ mem' = [mem EXCEPT ![p] = c]
    /\ pend' = [pend EXCEPT ![p] = [prev |-> mem[p].ref, cred |-> c,
                                    bad |-> resp[r].kind = "partial"]]
    /\ pc' = [pc EXCEPT ![r] = "persist"]
    /\ resp' = [resp EXCEPT ![r] = NoAnswer]
    /\ UNCHANGED <<issuerVars, timeVars, fileVars, up, bind, blocked, inflight,
                   cancelled, ok, bearer, lost>>

(***************************************************************************)
(* persistPendingRefresh over the OnRefresh callback of rest.go.           *)
(***************************************************************************)
\* Bug variant: a failed write drops the rotated generation.
PersistFailsDropping(r) ==
    /\ pc[r] = "persist"
    /\ pend' = [pend EXCEPT ![ProcOf[r]] = NoPending]
    /\ Return(r, FALSE)
    /\ UNCHANGED <<issuerVars, timeVars, disk, up, mem, bind, blocked, inflight,
                   cancelled, bearer, lost>>

\* Loading failed, the destination changed, the keychain could not prove the
\* stored generation, or the write failed before its rename.
PersistFails(r) ==
    /\ pc[r] = "persist"
    /\ Return(r, FALSE)
    /\ UNCHANGED <<issuerVars, timeVars, disk, procVars, cancelled, bearer, lost>>

\* Bug variant: persistence without the compare-and-swap.
NeverChanged(p) == FALSE

\* The compare-and-swap: another login or refresh owns the stack entry now.
GenerationChanged(p) == disk.cred # pend[p].cred /\ disk.cred.ref # pend[p].prev

\* Bug variants: a stored generation that cannot be read counts as replaced;
\* losing the compare-and-swap counts as success.
PersistSupersededUnproven(r) ==
    LET p == ProcOf[r] IN
    /\ pc[r] = "persist"
    /\ disk.cred # pend[p].cred
    /\ pend' = [pend EXCEPT ![p] = NoPending]
    /\ mem' = [mem EXCEPT ![p].tok = 0, ![p].exp = NoExpiry]
    /\ Return(r, FALSE)
    /\ UNCHANGED <<issuerVars, timeVars, disk, up, bind, blocked, inflight,
                   cancelled, bearer, lost>>

PersistSupersededOk(r) ==
    LET p == ProcOf[r] IN
    /\ pc[r] = "persist"
    /\ disk.dest = bind[p]
    /\ GenerationChanged(p)
    /\ pend' = [pend EXCEPT ![p] = NoPending]
    /\ Return(r, TRUE)
    /\ UNCHANGED <<issuerVars, timeVars, disk, up, mem, bind, blocked, inflight,
                   cancelled, bearer, lost>>

PersistSuperseded(r) ==
    LET p == ProcOf[r] IN
    /\ pc[r] = "persist"
    /\ disk.dest = bind[p]
    /\ GenerationChanged(p)
    /\ pend' = [pend EXCEPT ![p] = NoPending]
    /\ mem' = [mem EXCEPT ![p].tok = 0, ![p].exp = NoExpiry]
    /\ Return(r, FALSE)
    /\ UNCHANGED <<issuerVars, timeVars, disk, up, bind, blocked, inflight,
                   cancelled, bearer, lost>>

\* The write committed (now, or earlier with a durability error).
Persist(r) ==
    LET p == ProcOf[r] IN
    /\ pc[r] = "persist"
    /\ disk.dest = bind[p]
    /\ ~GenerationChanged(p)
    /\ disk' = [disk EXCEPT !.cred = pend[p].cred]
    /\ pend' = [pend EXCEPT ![p] = NoPending]
    /\ blocked' = [blocked EXCEPT ![p] = pend[p].bad]
    /\ Return(r, ~pend[p].bad)
    /\ UNCHANGED <<issuerVars, timeVars, up, mem, bind, inflight,
                   cancelled, bearer, lost>>

\* Bug variant: a durability error of the write is swallowed.
PersistUncertainOk(r) ==
    LET p == ProcOf[r] IN
    /\ pc[r] = "persist"
    /\ disk.dest = bind[p]
    /\ disk.cred # pend[p].cred
    /\ disk.cred.ref = pend[p].prev
    /\ disk' = [disk EXCEPT !.cred = pend[p].cred]
    /\ Return(r, TRUE)
    /\ UNCHANGED <<issuerVars, timeVars, procVars, cancelled, bearer, lost>>

\* The rename took effect but the write still reported an error: the
\* generation stays pending although it is already on disk.
PersistUncertain(r) ==
    LET p == ProcOf[r] IN
    /\ pc[r] = "persist"
    /\ disk.dest = bind[p]
    /\ disk.cred # pend[p].cred
    /\ disk.cred.ref = pend[p].prev
    /\ disk' = [disk EXCEPT !.cred = pend[p].cred]
    /\ Return(r, FALSE)
    /\ UNCHANGED <<issuerVars, timeVars, procVars, cancelled, bearer, lost>>

\* Bug variant: the flight's channel is never closed.
FlightDoneSilently(r) ==
    /\ pc[r] = "flight"
    /\ inflight' = [inflight EXCEPT ![ProcOf[r]] = None]
    /\ pc' = [pc EXCEPT ![r] = IF ok[r] THEN "read" ELSE "failed"]
    /\ UNCHANGED <<issuerVars, timeVars, fileVars, up, mem, bind, pend, blocked,
                   cancelled, resp, ok, bearer, lost>>

\* The end of maybeRefresh: the flight closes and its waiters see its outcome.
FlightDone(r) ==
    LET p == ProcOf[r]
        next == IF ok[r] THEN "read" ELSE "failed"
    IN
    /\ pc[r] = "flight"
    /\ inflight' = [inflight EXCEPT ![p] = None]
    /\ pc' = [q \in Reqs |->
                IF q = r \/ (ProcOf[q] = p /\ pc[q] = "wait") THEN next ELSE pc[q]]
    /\ UNCHANGED <<issuerVars, timeVars, fileVars, up, mem, bind, pend, blocked,
                   cancelled, resp, ok, bearer, lost>>

\* The second critical section of RoundTrip and FreshToken.
ReadToken(r) ==
    /\ pc[r] = "read"
    /\ bearer' = [bearer EXCEPT ![r] = mem[ProcOf[r]].tok]
    /\ pc' = [pc EXCEPT ![r] = "sent"]
    /\ UNCHANGED <<issuerVars, timeVars, fileVars, procVars, cancelled, resp, ok, lost>>

-----------------------------------------------------------------------------
(***************************************************************************)
(* The environment.                                                        *)
(***************************************************************************)
\* The goroutine goes on to its next request.
NextRequest(r) ==
    /\ pc[r] \in {"sent", "failed"}
    /\ pc' = [pc EXCEPT ![r] = "idle"]
    /\ cancelled' = [cancelled EXCEPT ![r] = FALSE]
    /\ ok' = [ok EXCEPT ![r] = FALSE]
    /\ bearer' = [bearer EXCEPT ![r] = 0]
    /\ UNCHANGED <<issuerVars, timeVars, fileVars, procVars, resp, lost>>

\* The caller's context ends. From the network call on, nobody looks at it.
Cancel(r) ==
    /\ "cancel" \in Faults
    /\ up[ProcOf[r]]
    /\ pc[r] \in {"idle", "wait", "lock", "reload"}
    /\ ~cancelled[r]
    /\ cancelled' = [cancelled EXCEPT ![r] = TRUE]
    /\ UNCHANGED <<issuerVars, timeVars, fileVars, procVars, pc, resp, ok, bearer, lost>>

\* NewNamespacedRESTConfig: the transport starts from the entry on disk.
Start(p) ==
    /\ ~up[p]
    /\ up' = [up EXCEPT ![p] = TRUE]
    /\ mem' = [mem EXCEPT ![p] = disk.cred]
    /\ bind' = [bind EXCEPT ![p] = disk.dest]
    /\ UNCHANGED <<issuerVars, timeVars, fileVars, pend, blocked, inflight, reqVars, lost>>

\* The process ends at any point: memory is gone, the flock is released.
Consumed(p) ==
    {pend[p].prev : x \in {y \in {p} : HasPending(y) /\ disk.cred # pend[y].cred}}
      \cup {mem[p].ref : r \in {s \in Reqs : ProcOf[s] = p /\ pc[s] = "resp"
                                             /\ resp[s].kind # "denied"}}

Crash(p) ==
    LET mine == {r \in Reqs : ProcOf[r] = p} IN
    /\ "crash" \in Faults
    /\ up[p]
    /\ up' = [up EXCEPT ![p] = FALSE]
    /\ mem' = [mem EXCEPT ![p] = NoCred]
    /\ pend' = [pend EXCEPT ![p] = NoPending]
    /\ blocked' = [blocked EXCEPT ![p] = FALSE]
    /\ inflight' = [inflight EXCEPT ![p] = None]
    /\ lock' = IF lock \in mine THEN None ELSE lock
    /\ lost' = lost \cup (Consumed(p) \ valid)
    /\ pc' = [r \in Reqs |-> IF r \in mine THEN "idle" ELSE pc[r]]
    /\ cancelled' = [r \in Reqs |-> IF r \in mine THEN FALSE ELSE cancelled[r]]
    /\ resp' = [r \in Reqs |-> IF r \in mine THEN NoAnswer ELSE resp[r]]
    /\ ok' = [r \in Reqs |-> IF r \in mine THEN FALSE ELSE ok[r]]
    /\ bearer' = [r \in Reqs |-> IF r \in mine THEN 0 ELSE bearer[r]]
    /\ UNCHANGED <<issuerVars, timeVars, disk, bind>>

\* Another gcx invocation logs in again, possibly to another destination; its
\* Write holds the same lock.
Login(d) ==
    LET new == minted + 1 IN
    /\ "login" \in Faults
    /\ lock = None
    /\ minted < MaxGen
    /\ minted' = new
    /\ valid' = valid \cup {new}
    /\ issuer' = [issuer EXCEPT ![new] = d]
    /\ disk' = [cred |-> Issued(new, new, new), dest |-> d]
    /\ UNCHANGED <<parent, ghosts, timeVars, lock, procVars, reqVars, lost>>

AccessAges(g) ==
    /\ g <= minted
    /\ g \notin aged
    /\ aged' = aged \cup {g}
    /\ UNCHANGED <<issuerVars, dead, fileVars, procVars, reqVars, lost>>

RefreshDies(g) ==
    /\ "expire" \in Faults
    /\ g \in aged
    /\ g \notin dead
    /\ dead' = dead \cup {g}
    /\ UNCHANGED <<issuerVars, aged, fileVars, procVars, reqVars, lost>>

-----------------------------------------------------------------------------
\* What the goroutine itself does, as opposed to what happens to it.
Goroutine(r) ==
    \/ Check(r) \/ WaiterGivesUp(r)
    \/ LockFails(r) \/ AcquireLock(r)
    \/ ReloadFails(r) \/ Reload(r)
    \/ IssuerAnswers(r) \/ CallFails(r) \/ LoseAnswer(r)
    \/ Denied(r) \/ BlockConsumed(r) \/ Retain(r)
    \/ PersistFails(r) \/ PersistSuperseded(r) \/ Persist(r) \/ PersistUncertain(r)
    \/ FlightDone(r) \/ ReadToken(r)

Next ==
    \/ \E r \in Reqs : Goroutine(r) \/ NextRequest(r) \/ Cancel(r)
    \/ \E p \in Procs : Start(p) \/ Crash(p)
    \/ \E d \in Dests : Login(d)
    \/ \E g \in Gens : GhostArrives(g) \/ AccessAges(g) \/ RefreshDies(g)

Spec == Init /\ [][Next]_vars

\* The Go scheduler runs every goroutine that can run; the lock attempt and
\* the network call are bounded by 30s timeouts, so both always end.
FairSpec == Spec /\ \A r \in Reqs : WF_vars(Goroutine(r))

-----------------------------------------------------------------------------
(***************************************************************************)
(* Properties.                                                             *)
(***************************************************************************)
\* The types of the variables: RefreshTransport, the stored credential and
\* the issuer's records.
TypeOK ==
    /\ minted \in Gens
    /\ valid \subseteq Gens
    /\ parent \in [Gens -> Gens \cup {0}]
    /\ issuer \in [Gens -> Dests]
    /\ ghosts \subseteq Gens \cup {0}
    /\ aged \subseteq Gens
    /\ dead \subseteq Gens
    /\ disk \in [cred: Credential, dest: Dests]
    /\ lock \in Reqs \cup {None}
    /\ up \in [Procs -> BOOLEAN]
    /\ mem \in [Procs -> Credential]
    /\ bind \in [Procs -> Dests]
    /\ pend \in [Procs -> PendingRefresh]
    /\ blocked \in [Procs -> BOOLEAN]
    /\ inflight \in [Procs -> Reqs \cup {None}]
    /\ pc \in [Reqs -> Stage]
    /\ cancelled \in [Reqs -> BOOLEAN]
    /\ resp \in [Reqs -> Answer]
    /\ ok \in [Reqs -> BOOLEAN]
    /\ bearer \in [Reqs -> Gens \cup {0}]
    /\ lost \subseteq Gens \cup {0}

Leading == {"lock", "reload", "net", "resp", "persist", "flight"}
Locked  == {"reload", "net", "resp", "persist"}

\* Within a process at most one goroutine leads a refresh (inflight), and
\* across processes only the holder of the flock is between reloading the
\* stored tokens and persisting their successor.
SingleFlight ==
    \A r \in Reqs :
        /\ pc[r] \in Leading => inflight[ProcOf[r]] = r
        /\ pc[r] \in Locked => lock = r

\* What refreshAndPersist presents to the issuer is the generation on disk,
\* whatever other processes did while it waited for the lock: presenting an
\* older one would spend a refresh token twice and lock the user out.
PresentsStored ==
    \A r \in Reqs : pc[r] = "net" => /\ disk.cred.ref = mem[ProcOf[r]].ref
                                     /\ disk.dest = bind[ProcOf[r]]

\* The user is never locked out by gcx itself: the refresh token on disk can
\* be redeemed, or its successor is held by a live process that still owes
\* its persistence, or the issuer's answer was lost on the way (a crash, the
\* network, a response without a replacement).
NoLockout ==
    \/ disk.cred.ref \in valid \cup lost
    \/ \E p \in Procs : HasPending(p) /\ pend[p].prev = disk.cred.ref
    \/ \E r \in Reqs : pc[r] = "resp" /\ resp[r].kind # "denied"
                                      /\ mem[ProcOf[r]].ref = disk.cred.ref

\* Tokens only ever meet the destination that issued them: in memory and
\* pending next to the bound destination, on disk next to the stored one.
CameFrom(c, d) == /\ c.tok # 0 => issuer[c.tok] = d
                  /\ c.ref # 0 => issuer[c.ref] = d
DestinationBound ==
    /\ CameFrom(disk.cred, disk.dest)
    /\ \A p \in Procs : up[p] => /\ CameFrom(mem[p], bind[p])
                                 /\ CameFrom(pend[p].cred, bind[p])

\* The OnRefresh compare-and-swap: a refresh only ever replaces the generation
\* it was derived from, so no late retry undoes a login or a newer refresh.
\* (A login is the only step that writes while no goroutine holds the lock.)
NeverOverwritesNewer ==
    [][disk' # disk /\ lock # None =>
          /\ \/ parent[disk'.cred.ref] = disk.cred.ref
             \/ disk'.cred.ref = disk.cred.ref
          /\ disk'.dest = disk.dest]_vars

\* A refresh reports success to its callers only with the file holding exactly
\* the token they will use, and nothing left to persist.
SuccessMeansPersisted ==
    [][\A r \in Reqs :
          ~ok[r] /\ ok'[r] => /\ mem'[ProcOf[r]] = disk'.cred
                              /\ pend'[ProcOf[r]] = NoPending]_vars

\* Every request, leader or waiter, is eventually answered: sent with a token
\* or failed (or its process ended).
RequestCompletes ==
    \A r \in Reqs : pc[r] \in Leading \cup {"wait", "read"}
                        ~> pc[r] \in {"sent", "failed", "idle"}
===============================================================================

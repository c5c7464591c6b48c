------------------------------ MODULE LoginFlow ------------------------------
(***************************************************************************)
(* The browser login of gcx (internal/auth/flow.go, gcom.go, callback.go,  *)
(* paste.go, manual.go). A local callback server waits for the redirect of *)
(* the browser; in an SSH session a goroutine reads redirect URLs that the *)
(* user pastes into the terminal as well. Both routes carry the same       *)
(* single-use code, and an exchangeGuard lets one of them exchange it. In  *)
(* manual mode there is no server, and the user has a few tries.           *)
(*                                                                         *)
(* A URL is what its checks make of it; a line may also be no URL, or      *)
(* blank. The authorization server is external: it redeems the code once.  *)
(***************************************************************************)
EXTENDS Integers

CONSTANTS
    MaxLines,       \* bound: lines the user types
    ManualTries,    \* manualPasteTries: 3 in the code
    Faults          \* what the environment does in this instance (AllFaults)

\* The user cancels the command, the listener fails, an exchange fails.
AllFaults == {"cancel", "listener", "exchange"}

ASSUME LoginFlowAssumption ==
    /\ MaxLines \in Nat /\ ManualTries \in Nat \ {0}
    /\ Faults \subseteq AllFaults

VARIABLES
    mode,       \* "callback", "both" (with the paste watcher) or "manual"
    main,       \* the goroutine of Run
    outcome,    \* what Run returns
    tries, lastErr, \* the lines tried in manual mode, and the last failed line or paste
    handler,    \* the one request that gets through the callback's sync.Once
    page,       \* what the browser of that request shows
    server,     \* http.Server.Serve, in a goroutine of its own
    resultCh, errCh,    \* the two channels of capacity 1
    guard,      \* exchangeGuard.taken
    code,       \* the authorization code, at the server
    minted,     \* the server has issued a token and its answer has passed the checks
    exchanges,  \* exchange requests made
    watcher,    \* the pasteWatcher's goroutine
    values,     \* its channel of capacity 1
    stop,       \* its stop channel is closed
    tty,        \* lines typed and not read
    typed,      \* lines typed so far
    flushed,    \* and when the terminal was flushed
    cancelled   \* the context is done

vars == <<mode, main, outcome, tries, lastErr, handler, page, server, resultCh, errCh, guard,
          code, minted, exchanges, watcher, values, stop, tty, typed, flushed, cancelled>>

\* What checkCallbackBasics and the check of the endpoint make of a URL. Every
\* good one carries the code of this attempt.
Checked == {"foreign", "refused", "good"}
Line    == Checked \cup {"malformed", "closed"}     \* pastedInput
Failure == {"foreign", "refused", "malformed", "exchange", "listener", "cancel", "input"}
Outcome == {"none", "result"} \cup Failure

MainState    == {"select", "exchange", "close", "wait", "flush", "shutdown", "returned"}
HandlerState == {"none", "exchange", "send", "done"}
WatcherState == {"none", "reading", "deliver", "ended"}

Init ==
    /\ mode \in {"callback", "both", "manual"}
    /\ main = "select" /\ outcome = "none" /\ tries = 0 /\ lastErr = "none"
    /\ handler = "none" /\ page = "none"
    /\ server = IF mode = "manual" THEN "none" ELSE "serving"
    /\ resultCh = "none" /\ errCh = "none"
    /\ guard = FALSE
    /\ code = "unused" /\ minted = FALSE /\ exchanges = 0
    /\ watcher = IF mode = "both" THEN "reading" ELSE "none"
    /\ values = "none" /\ stop = FALSE
    /\ tty = 0 /\ typed = 0 /\ flushed = 0
    /\ cancelled = FALSE

manual  == <<tries, lastErr>>
flow    == <<main, outcome, manual>>
browser == <<handler, page, server>>
issuer  == <<code, minted, exchanges>>
paste   == <<watcher, values, stop, tty, typed, flushed>>

-----------------------------------------------------------------------------
(***************************************************************************)
(* handleCallbackParams and handleGCOMCallbackParams: the checks, the      *)
(* claim, the exchange, and the checks of its answer.                      *)
(***************************************************************************)
\* A mutant: no guard.
AlwaysGranted == TRUE

\* exchangeGuard.claim; the manual flow passes no guard.
Granted == mode = "manual" \/ ~guard
Claim   == /\ Granted
           /\ guard' = IF mode = "manual" THEN guard ELSE TRUE

\* The server redeems the code once. A request or its answer may be lost, and an
\* answer may fail the checks: "failed" is all of these.
ExchangeOk ==
    /\ code = "unused"
    /\ code' = "redeemed" /\ minted' = TRUE
    /\ exchanges' = exchanges + 1

ExchangeFails ==
    /\ \/ code = "redeemed" /\ UNCHANGED code
       \/ /\ "exchange" \in Faults \/ cancelled
          /\ code = "unused" /\ code' \in {"unused", "redeemed"}
    /\ exchanges' = exchanges + 1
    /\ UNCHANGED minted

Return(o) == main' = "close" /\ outcome' = o

\* After a failure main waits for the next line; in manual mode, unless the
\* tries are used up.
Again(t, failure) ==
    IF mode = "manual" /\ t = ManualTries
    THEN Return(failure)
    ELSE main' = "select" /\ UNCHANGED outcome

-----------------------------------------------------------------------------
(***************************************************************************)
(* awaitCallbackOrPaste: the select of the goroutine of Run.               *)
(***************************************************************************)
TakeResult ==
    /\ main = "select" /\ resultCh # "none"
    /\ Return("result")
    /\ resultCh' = "none"
    /\ UNCHANGED <<mode, manual, browser, errCh, guard, issuer, paste, cancelled>>

TakeError ==
    /\ main = "select" /\ errCh # "none"
    /\ Return(errCh)
    /\ errCh' = "none"
    /\ UNCHANGED <<mode, manual, browser, resultCh, guard, issuer, paste, cancelled>>

TakeCancel ==
    /\ main = "select" /\ cancelled
    /\ Return("cancel")
    /\ UNCHANGED <<mode, manual, browser, resultCh, errCh, guard, issuer, paste, cancelled>>

\* A mutant: the claim comes before the checks.
TakePasteClaiming ==
    /\ mode = "both" /\ main = "select"
    /\ values \in Line \ {"good"}
    /\ values' = "none"
    /\ guard' = (guard \/ values = "foreign")
    /\ UNCHANGED <<mode, flow, browser, resultCh, errCh, issuer, watcher, stop, tty, typed, flushed, cancelled>>

\* A line that is rejected leads to the next prompt; one that comes second in
\* the race, to silence.
TakePasteBad ==
    /\ mode = "both" /\ main = "select"
    /\ values \in Line \ {"good"}
    /\ values' = "none"
    /\ UNCHANGED <<mode, flow, browser, resultCh, errCh, guard, issuer, watcher, stop, tty, typed, flushed, cancelled>>

\* A mutant: the loser's failure ends the flow.
TakePasteLateFatal ==
    /\ mode = "both" /\ main = "select" /\ values = "good" /\ ~Granted
    /\ values' = "none"
    /\ Return("exchange")
    /\ UNCHANGED <<mode, manual, browser, resultCh, errCh, guard, issuer, watcher, stop, tty, typed, flushed, cancelled>>

TakePasteLate ==
    /\ mode = "both" /\ main = "select" /\ values = "good" /\ ~Granted
    /\ values' = "none"
    /\ UNCHANGED <<mode, flow, browser, resultCh, errCh, guard, issuer, watcher, stop, tty, typed, flushed, cancelled>>

TakePasteGood ==
    /\ mode = "both" /\ main = "select" /\ values = "good" /\ Claim
    /\ values' = "none"
    /\ main' = "exchange"
    /\ UNCHANGED <<mode, outcome, manual, browser, resultCh, errCh, issuer, watcher, stop, tty, typed, flushed, cancelled>>

PasteExchanged ==
    /\ main = "exchange"
    /\ \/ /\ ExchangeOk
          /\ Return("result")
          /\ UNCHANGED lastErr
       \/ /\ ExchangeFails
          /\ lastErr' = "exchange"
          /\ Again(tries, "exchange")
    /\ UNCHANGED <<mode, tries, browser, resultCh, errCh, guard, paste, cancelled>>

-----------------------------------------------------------------------------
(***************************************************************************)
(* runManualPaste reads stdin with readLineContext. A failed line costs a  *)
(* try, a blank one too.                                                   *)
(***************************************************************************)
ManualLine ==
    /\ mode = "manual" /\ main = "select" /\ tty > 0
    /\ tty' = tty - 1
    /\ tries' = tries + 1
    /\ \/ main' = "exchange" /\ UNCHANGED <<outcome, lastErr>>
       \/ \E line \in Line \ {"good", "closed"} :
            lastErr' = line /\ Again(tries', line)
    /\ UNCHANGED <<mode, browser, resultCh, errCh, guard, issuer, watcher, values, stop, typed, flushed, cancelled>>

\* The input ends: the failure of the last URL says more than that of the read.
ManualEnd ==
    /\ mode = "manual" /\ main = "select" /\ tty = 0
    /\ Return(IF lastErr # "none" /\ ~cancelled THEN lastErr ELSE "input")
    /\ UNCHANGED <<mode, manual, browser, resultCh, errCh, guard, issuer, paste, cancelled>>

-----------------------------------------------------------------------------
(***************************************************************************)
(* The deferred calls: pasteWatcher.Close, then http.Server.Shutdown, which *)
(* closes the listener and waits five seconds for the handler. Close waits *)
(* two seconds for the watcher, which ends as soon as it is scheduled; the *)
(* case in which it does not is left out.                                  *)
(***************************************************************************)
Close ==
    /\ main = "close"
    /\ main' = IF watcher = "none" THEN "shutdown" ELSE "wait"
    /\ stop' = (watcher # "none")
    /\ UNCHANGED <<mode, outcome, manual, browser, resultCh, errCh, guard, issuer, watcher, values, tty, typed, flushed, cancelled>>

\* A mutant: Close goes on without waiting for the watcher.
WatcherLeft ==
    /\ main = "wait"
    /\ main' = "flush"
    /\ UNCHANGED <<mode, outcome, manual, browser, resultCh, errCh, guard, issuer, paste, cancelled>>

WatcherDone ==
    /\ main = "wait" /\ watcher = "ended"
    /\ main' = "flush"
    /\ UNCHANGED <<mode, outcome, manual, browser, resultCh, errCh, guard, issuer, paste, cancelled>>

Flush ==
    /\ main = "flush"
    /\ tty' = 0 /\ flushed' = typed
    /\ main' = "shutdown"
    /\ UNCHANGED <<mode, outcome, manual, browser, resultCh, errCh, guard, issuer, watcher, values, stop, typed, cancelled>>

\* The handler has answered, or five seconds have passed.
Shutdown ==
    /\ main = "shutdown"
    /\ main' = "returned"
    /\ server' = IF server = "serving" THEN "closed" ELSE server
    /\ UNCHANGED <<mode, outcome, manual, handler, page, resultCh, errCh, guard, issuer, paste, cancelled>>

Main == \/ TakeResult \/ TakeError \/ TakeCancel
        \/ TakePasteBad \/ TakePasteLate \/ TakePasteGood \/ PasteExchanged
        \/ ManualLine \/ Close \/ WatcherDone \/ Flush \/ Shutdown

-----------------------------------------------------------------------------
(***************************************************************************)
(* The callback server. Requests after the first get 410 Gone and change   *)
(* nothing.                                                                *)
(***************************************************************************)
CallbackBad ==
    /\ server = "serving" /\ handler = "none" /\ errCh = "none"
    /\ errCh' \in Checked \ {"good"}
    /\ handler' = "done" /\ page' = "error"
    /\ UNCHANGED <<mode, flow, server, resultCh, guard, issuer, paste, cancelled>>

CallbackLate ==
    /\ server = "serving" /\ handler = "none" /\ ~Granted
    /\ handler' = "done" /\ page' = "success"
    /\ UNCHANGED <<mode, flow, server, resultCh, errCh, guard, issuer, paste, cancelled>>

CallbackGood ==
    /\ server = "serving" /\ handler = "none" /\ Claim
    /\ handler' = "exchange"
    /\ UNCHANGED <<mode, flow, page, server, resultCh, errCh, issuer, paste, cancelled>>

\* A mutant: a failed exchange is shown in the browser only.
CallbackExchangedSilently ==
    /\ handler = "exchange"
    /\ \/ /\ ExchangeOk
          /\ resultCh' = "result"
          /\ handler' = "done" /\ page' = "success"
          /\ UNCHANGED errCh
       \/ /\ ExchangeFails
          /\ handler' = "done" /\ page' = "error"
          /\ UNCHANGED <<resultCh, errCh>>
    /\ UNCHANGED <<mode, flow, server, guard, paste, cancelled>>

CallbackExchanged ==
    /\ handler = "exchange"
    /\ \/ /\ ExchangeOk
          /\ resultCh' = "result"
          /\ handler' = "done" /\ page' = "success"
          /\ UNCHANGED errCh
       \/ /\ ExchangeFails
          /\ handler' = "send"
          /\ UNCHANGED <<page, resultCh, errCh>>
    /\ UNCHANGED <<mode, flow, server, guard, paste, cancelled>>

\* The error waits for room behind that of the listener.
CallbackSends ==
    /\ handler = "send" /\ errCh = "none"
    /\ errCh' = "exchange" /\ handler' = "done" /\ page' = "error"
    /\ UNCHANGED <<mode, flow, server, resultCh, guard, issuer, paste, cancelled>>

Handler == CallbackExchanged \/ CallbackSends

ListenerFails ==
    /\ "listener" \in Faults
    /\ server = "serving"
    /\ server' = "failed"
    /\ UNCHANGED <<mode, flow, handler, page, resultCh, errCh, guard, issuer, paste, cancelled>>

ServeReturns ==
    /\ server = "failed" /\ errCh = "none"
    /\ errCh' = "listener"
    /\ server' = "closed"
    /\ UNCHANGED <<mode, flow, handler, page, resultCh, guard, issuer, paste, cancelled>>

-----------------------------------------------------------------------------
(***************************************************************************)
(* pasteWatcher.run and deliver.                                           *)
(***************************************************************************)
\* A line that is read after Close is dropped; a blank one always.
WatcherReads ==
    /\ watcher = "reading" /\ ~stop /\ tty > 0 /\ values = "none"
    /\ tty' = tty - 1
    /\ \E line \in Line \ {"closed"} : values' = line
    /\ UNCHANGED <<mode, flow, browser, resultCh, errCh, guard, issuer, watcher, stop, typed, flushed, cancelled>>

WatcherSkips ==
    /\ watcher = "reading" /\ ~stop /\ tty > 0
    /\ tty' = tty - 1
    /\ UNCHANGED <<mode, flow, browser, resultCh, errCh, guard, issuer, watcher, values, stop, typed, flushed, cancelled>>

\* The channel is full: the line waits until there is room, or for stop.
WatcherWaits ==
    /\ watcher = "reading" /\ ~stop /\ tty > 0 /\ values # "none"
    /\ tty' = tty - 1
    /\ watcher' = "deliver"
    /\ UNCHANGED <<mode, flow, browser, resultCh, errCh, guard, issuer, values, stop, typed, flushed, cancelled>>

WatcherDelivers ==
    /\ watcher = "deliver" /\ values = "none"
    /\ \E line \in Line \ {"closed"} : values' = line
    /\ watcher' = "reading"
    /\ UNCHANGED <<mode, flow, browser, resultCh, errCh, guard, issuer, stop, tty, typed, flushed, cancelled>>

\* The deadline of Close ends a read, the stop channel a delivery.
WatcherStops ==
    /\ watcher \in {"reading", "deliver"} /\ stop
    /\ watcher' = "ended"
    /\ UNCHANGED <<mode, flow, browser, resultCh, errCh, guard, issuer, values, stop, tty, typed, flushed, cancelled>>

\* Ctrl-D, or an error of the terminal.
WatcherClosed ==
    /\ watcher = "reading" /\ ~stop /\ values = "none"
    /\ values' = "closed"
    /\ watcher' = "ended"
    /\ UNCHANGED <<mode, flow, browser, resultCh, errCh, guard, issuer, stop, tty, typed, flushed, cancelled>>

Watcher == WatcherReads \/ WatcherWaits \/ WatcherDelivers \/ WatcherStops

\* The user types a line at any time, the seconds of Shutdown included.
Type ==
    /\ main # "returned"
    /\ typed < MaxLines
    /\ typed' = typed + 1
    /\ tty' = tty + 1
    /\ UNCHANGED <<mode, flow, browser, resultCh, errCh, guard, issuer, watcher, values, stop, flushed, cancelled>>

Cancel ==
    /\ "cancel" \in Faults
    /\ ~cancelled
    /\ cancelled' = TRUE
    /\ UNCHANGED <<mode, flow, browser, resultCh, errCh, guard, issuer, paste>>

Next == \/ Main \/ ManualEnd
        \/ CallbackBad \/ CallbackLate \/ CallbackGood \/ Handler
        \/ ListenerFails \/ ServeReturns
        \/ Watcher \/ WatcherSkips \/ WatcherClosed
        \/ Type \/ Cancel

Spec == Init /\ [][Next]_vars

\* Goroutines run, and an exchange ends within thirty seconds; the user, the
\* browser and the listener do as they please.
Fairness == WF_vars(Main) /\ WF_vars(Handler) /\ WF_vars(ServeReturns) /\ WF_vars(Watcher)
FairSpec == Spec /\ Fairness

-----------------------------------------------------------------------------
(***************************************************************************)
(* Properties.                                                             *)
(***************************************************************************)
\* The types of the state; the tries of the manual flow are bounded.
TypeOK ==
    /\ mode \in {"callback", "both", "manual"}
    /\ main \in MainState /\ outcome \in Outcome
    /\ tries \in 0 .. ManualTries /\ lastErr \in Outcome
    /\ handler \in HandlerState
    /\ page \in {"none", "success", "error"}
    /\ server \in {"none", "serving", "failed", "closed"}
    /\ resultCh \in {"none", "result"} /\ errCh \in {"none"} \cup Failure
    /\ guard \in BOOLEAN
    /\ code \in {"unused", "redeemed"} /\ minted \in BOOLEAN /\ exchanges \in Nat
    /\ watcher \in WatcherState /\ values \in {"none"} \cup Line
    /\ stop \in BOOLEAN
    /\ tty \in 0 .. MaxLines /\ typed \in 0 .. MaxLines /\ flushed \in 0 .. MaxLines
    /\ cancelled \in BOOLEAN

\* While a callback server runs, the two routes together send one exchange: a
\* second one would fail and report that to a user who is logged in (the
\* comment on exchangeGuard).
OneExchange == mode # "manual" => exchanges <= 1

\* A token that was issued is what Run returns, whichever route got it, unless the
\* user cancels or the listener fails at that moment.
TokenReachesUser ==
    minted /\ main = "returned" => outcome \in {"result", "cancel", "listener"}

\* The browser shows success only if someone has started to exchange the code: a
\* URL of another attempt must not use up the claim (the comment on claim).
SuccessPageNotInVain ==
    page = "success" => exchanges > 0 \/ main = "exchange"

\* Once Close has flushed the terminal it has one reader again (the comments on Close
\* and on done): no line typed before is left in it for a prompt or the shell, and no
\* line typed since was taken from them by the watcher.
TerminalReleased ==
    mode = "both" /\ main \in {"shutdown", "returned"} =>
        watcher = "ended" /\ tty = typed - flushed

\* A pasted URL has used up the claim and failed; nobody has anything to deliver.
Abandoned == /\ lastErr = "exchange" /\ main = "select"
             /\ handler \in {"none", "done"} /\ resultCh = "none" /\ errCh = "none"

\* Run ends once the browser has called back, unless a pasted URL has used up the claim
\* and failed; and it ends, even so, when the user cancels.
FlowEnds == /\ handler # "none" ~> main = "returned" \/ Abandoned
            /\ cancelled ~> main = "returned"
===============================================================================

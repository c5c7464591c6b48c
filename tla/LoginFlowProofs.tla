--------------------------- MODULE LoginFlowProofs ---------------------------
(***************************************************************************)
(* For any number of lines and tries, and whatever the environment does:   *)
(* the types, one exchange beside a callback server, the token of that     *)
(* exchange in what Run returns, and the terminal given back.              *)
(*                                                                         *)
(* A claim is behind every exchange, running or done, so that nobody is in *)
(* an exchange once one has been made; and a token is in resultCh, which   *)
(* has no failure of an exchange beside it, until the select takes it.     *)
(***************************************************************************)
EXTENDS LoginFlow, TLAPS

\* An exchange has a claim behind it, and a claim leads to one exchange.
OneClaim ==
    mode # "manual" =>
      /\ exchanges > 0 \/ main = "exchange" \/ handler = "exchange" <=> guard
      /\ page = "success" => guard /\ handler = "done"
      /\ exchanges <= 1
      /\ exchanges = 1 => main # "exchange" /\ handler # "exchange"
      /\ main = "exchange" => handler # "exchange"

\* The loop has tries left; a line that is typed is read or still there.
InBounds ==
    /\ mode = "manual" /\ main = "select" => tries < ManualTries
    /\ tty <= typed /\ flushed <= typed

\* What each mode does not have.
ModeApart ==
    /\ mode = "manual" <=> server = "none"
    /\ mode = "manual" => handler = "none" /\ page = "none" /\ resultCh = "none" /\ errCh = "none"
    /\ mode = "both" <=> watcher # "none"

Undecided == main \in {"select", "exchange"}
Harmless  == {"none", "result", "cancel", "listener"}

\* Before the callback has been handled, and after it has brought a token, no failure
\* of the callback is on its way.
NoFailureBeside ==
    /\ Undecided <=> outcome = "none"
    /\ mode # "manual" /\ handler # "done" =>
         errCh \in {"none", "listener"} /\ outcome \in Harmless
    /\ resultCh = "result" => minted /\ handler = "done"
    /\ mode # "manual" /\ minted =>
         /\ exchanges > 0
         /\ outcome \in Harmless
         /\ main = "select" => resultCh = "result" /\ errCh \in {"none", "listener"}
    /\ mode = "manual" /\ minted => outcome = "result" /\ ~Undecided

\* Close waits for the watcher before the terminal is flushed, and nobody reads what is
\* typed after.
TerminalInv ==
    mode = "both" =>
      /\ main \in {"flush", "shutdown", "returned"} => watcher = "ended"
      /\ main \in {"shutdown", "returned"} => tty = typed - flushed

LoginInv == TypeOK /\ OneClaim /\ InBounds /\ ModeApart /\ NoFailureBeside /\ TerminalInv

-----------------------------------------------------------------------------
LEMMA InitLoginInv == Init => LoginInv
  <1> SUFFICES ASSUME Init PROVE LoginInv
    OBVIOUS
  <1>1. TypeOK
    <2>1. tries \in 0 .. ManualTries /\ tty \in 0 .. MaxLines /\ typed \in 0 .. MaxLines /\ flushed \in 0 .. MaxLines
      BY LoginFlowAssumption DEF LoginFlowAssumption, Init
    <2>2. server \in {"none", "serving", "failed", "closed"} /\ watcher \in WatcherState
      BY DEF Init, WatcherState
    <2> QED
      BY <2>1, <2>2
      DEF Init, TypeOK, MainState, HandlerState, Outcome, Failure
  <1>2. OneClaim
    BY DEF Init, OneClaim
  <1>3. InBounds
    BY LoginFlowAssumption DEF LoginFlowAssumption, Init, InBounds
  <1>4. ModeApart
    BY DEF Init, ModeApart
  <1>5. NoFailureBeside
    BY DEF Init, NoFailureBeside, Undecided, Harmless
  <1>6. TerminalInv
    BY DEF Init, TerminalInv
  <1> QED
    BY <1>1, <1>2, <1>3, <1>4, <1>5, <1>6 DEF LoginInv

LEMMA NextLoginInv ==
  ASSUME LoginInv, [Next]_vars
  PROVE  LoginInv'
  <1> USE LoginFlowAssumption
      DEF LoginFlowAssumption, LoginInv, TypeOK, OneClaim, InBounds, ModeApart,
          NoFailureBeside, TerminalInv, Undecided, Harmless, MainState, HandlerState,
          WatcherState, Outcome, Failure, Line, Checked, manual, flow, browser, issuer,
          paste, Claim, Granted, Return, Again
  <1>1. CASE TakeResult
    BY <1>1 DEF TakeResult
  <1>2. CASE TakeError
    BY <1>2 DEF TakeError
  <1>3. CASE TakeCancel
    BY <1>3 DEF TakeCancel
  <1>4. CASE TakePasteBad \/ TakePasteLate
    BY <1>4 DEF TakePasteBad, TakePasteLate
  <1>5. CASE TakePasteGood
    BY <1>5 DEF TakePasteGood
  <1>6. CASE PasteExchanged
    <2>0. mode # "manual" => exchanges = 0 /\ guard
      BY <1>6 DEF PasteExchanged
    <2>1. CASE ExchangeOk /\ Return("result") /\ UNCHANGED lastErr
      <3>1. exchanges' \in Nat /\ exchanges' > 0 /\ (mode # "manual" => exchanges' = 1)
        BY <2>0, <2>1 DEF ExchangeOk
      <3> QED
        BY <1>6, <2>0, <2>1, <3>1 DEF PasteExchanged, ExchangeOk
    <2>2. CASE ExchangeFails /\ lastErr' = "exchange" /\ Again(tries, "exchange")
      BY <1>6, <2>0, <2>2 DEF PasteExchanged, ExchangeFails
    <2> QED
      BY <1>6, <2>1, <2>2 DEF PasteExchanged
  <1>7. CASE ManualLine
    BY <1>7 DEF ManualLine
  <1>8. CASE ManualEnd
    BY <1>8 DEF ManualEnd
  <1>9. CASE Close
    BY <1>9 DEF Close
  <1>10. CASE WatcherDone \/ Flush
    BY <1>10 DEF WatcherDone, Flush
  <1>11. CASE Shutdown
    BY <1>11 DEF Shutdown
  <1>12. CASE CallbackBad
    BY <1>12 DEF CallbackBad
  <1>13. CASE CallbackLate
    BY <1>13 DEF CallbackLate
  <1>14. CASE CallbackGood
    BY <1>14 DEF CallbackGood
  <1>15. CASE CallbackExchanged
    <2>0. mode # "manual" /\ exchanges = 0 /\ guard /\ main # "exchange"
      BY <1>15 DEF CallbackExchanged
    <2>1. CASE /\ ExchangeOk /\ resultCh' = "result" /\ handler' = "done"
               /\ page' = "success" /\ UNCHANGED errCh
      <3>1. exchanges' = 1
        BY <2>0, <2>1 DEF ExchangeOk
      <3> QED
        BY <1>15, <2>0, <2>1, <3>1 DEF CallbackExchanged, ExchangeOk
    <2>2. CASE ExchangeFails /\ handler' = "send" /\ UNCHANGED <<page, resultCh, errCh>>
      BY <1>15, <2>0, <2>2 DEF CallbackExchanged, ExchangeFails
    <2> QED
      BY <1>15, <2>1, <2>2 DEF CallbackExchanged
  <1>16. CASE CallbackSends
    BY <1>16 DEF CallbackSends
  <1>17. CASE ListenerFails \/ ServeReturns
    BY <1>17 DEF ListenerFails, ServeReturns
  <1>18. CASE WatcherReads \/ WatcherSkips
    BY <1>18 DEF WatcherReads, WatcherSkips
  <1>19. CASE WatcherWaits \/ WatcherDelivers
    BY <1>19 DEF WatcherWaits, WatcherDelivers
  <1>20. CASE WatcherStops \/ WatcherClosed
    BY <1>20 DEF WatcherStops, WatcherClosed
  <1>21. CASE Type
    BY <1>21 DEF Type
  <1>22. CASE Cancel
    BY <1>22 DEF Cancel
  <1>23. CASE UNCHANGED vars
    BY <1>23 DEF vars
  <1> HIDE DEF LoginInv
  <1> QED
    BY <1>1, <1>2, <1>3, <1>4, <1>5, <1>6, <1>7, <1>8, <1>9, <1>10, <1>11, <1>12, <1>13,
       <1>14, <1>15, <1>16, <1>17, <1>18, <1>19, <1>20, <1>21, <1>22, <1>23
    DEF Next, Main, Handler, Watcher

LEMMA LoginInvariant == Spec => []LoginInv
  BY InitLoginInv, NextLoginInv, PTL DEF Spec

\* The types hold, and the manual flow stops after its tries.
THEOREM TypesHold == Spec => []TypeOK
  <1>1. LoginInv => TypeOK
    BY DEF LoginInv
  <1> QED
    BY <1>1, LoginInvariant, PTL

\* Beside a callback server, the code is sent to the authorization server once.
THEOREM CodeExchangedOnce == Spec => []OneExchange
  <1>1. LoginInv => OneExchange
    BY DEF LoginInv, OneClaim, OneExchange
  <1> QED
    BY <1>1, LoginInvariant, PTL

\* A token that was issued is returned to the user, whichever route got it, unless the
\* command is cancelled or its listener fails.
THEOREM TokenReturned == Spec => []TokenReachesUser
  <1>1. ASSUME LoginInv, minted, main = "returned"
        PROVE  outcome \in {"result", "cancel", "listener"}
    BY <1>1 DEF LoginInv, NoFailureBeside, Undecided, Harmless
  <1>2. LoginInv => TokenReachesUser
    BY <1>1 DEF TokenReachesUser
  <1> QED
    BY <1>2, LoginInvariant, PTL

\* A success page has an exchange behind it, even if that one fails in the end.
THEOREM SuccessPageHasExchange == Spec => []SuccessPageNotInVain
  <1>1. LoginInv => SuccessPageNotInVain
    BY DEF LoginInv, ModeApart, OneClaim, SuccessPageNotInVain
  <1> QED
    BY <1>1, LoginInvariant, PTL

\* From the flush on the terminal has no other reader: what was typed before is gone, and
\* what is typed since is all there.
THEOREM TerminalGivenBack == Spec => []TerminalReleased
  <1>1. LoginInv => TerminalReleased
    BY DEF LoginInv, TerminalInv, TerminalReleased
  <1> QED
    BY <1>1, LoginInvariant, PTL
===============================================================================

------------------------------ MODULE HAFetch ------------------------------
(***************************************************************************)
(* One call of HAWebSocketClient.fetch_dashboard_summary                   *)
(* (app/services/ha_client/client.py) over WebSocketsHATransport           *)
(* (transport.py): connect, authenticate, three commands, close, parse,    *)
(* all inside one asyncio.wait_for.                                        *)
(*                                                                         *)
(* The coroutine runs between awaits without interruption, so an action is *)
(* what it does from one await to the next.  The budget's timer cancels it *)
(* at whichever await it is suspended on: connecting, receiving a reply,   *)
(* or closing the socket in the transport's __aexit__.  The timer fires    *)
(* once; an await reached after it (the close that a cancelled exchange    *)
(* goes through) has no budget over it, only the library's CloseTimeout.   *)
(*                                                                         *)
(* Home Assistant is external: it sends what it likes, when it likes,      *)
(* drops the connection, or stays silent, with one restriction, that it    *)
(* does not answer what it was not asked.  With mock_integrations set it   *)
(* is FakeHATransport (fake.py), which plays back a script and never waits.*)
(***************************************************************************)
EXTENDS Naturals, Sequences

CONSTANTS
    Budget,        \* ha_fetch_timeout_seconds, in ticks
    CloseTimeout,  \* the websockets library's close_timeout, in ticks
    MaxInbox       \* bound: messages received and not yet read

ASSUME BudgetAssumption == Budget \in Nat
ASSUME CloseTimeoutAssumption == CloseTimeout \in Nat
ASSUME MaxInboxAssumption == MaxInbox \in Nat

VARIABLES
    mock,          \* settings.mock_integrations
    pc,            \* the await the coroutine is suspended on, or "returned"
    exchange,      \* the reply it waits for: 0 greeting, 1 auth, k+1 command k
    conn,          \* the socket
    inbox,         \* messages received and not yet read
    results,       \* the results of the commands run so far, in order
    raised,        \* the exception that left the `async with` body, if any
    elapsed,       \* ticks since the call
    closeElapsed,  \* ticks since the close began
    expired,       \* has the budget's timer fired?
    outcome,       \* what the call returned or raised
    verdict,       \* history: what Home Assistant said of the token
    answered       \* history: the commands it answered with success

client == <<pc, exchange, results, raised, expired, outcome>>
time == <<elapsed, closeElapsed>>
said == <<verdict, answered>>
vars == <<mock, client, conn, inbox, time, said>>

----------------------------------------------------------------------------
(* The commands in order: get_states, repairs/list_issues and              *)
(* config_entries/get, with their ids on the wire.                         *)
Commands == 1..3
LastExchange == 4

(* A message, up to what the client tells apart.  A result is an error, or *)
(* a success whose payload does or does not have the shape the parser of   *)
(* that command needs.  "other" is any object of another type; "junk" is   *)
(* what recv refuses: not JSON, or not an object.                          *)
Plain(type) == [type |-> type, id |-> 0, content |-> "empty"]
Reply(k, content) == [type |-> "result", id |-> k, content |-> content]

HAMessages ==
    {Plain(t) : t \in {"auth_required", "auth_ok", "auth_invalid", "other", "junk"}}
        \cup {Reply(k, c) : k \in Commands, c \in {"fits", "misfits", "error"}}

Outcomes == {"summary", "HAAuthError", "HAConnectionError"}

Init == /\ mock \in BOOLEAN
        /\ pc = "connecting"
        /\ exchange = 0
        /\ conn = "none"
        /\ inbox = <<>>
        /\ results = <<>>
        /\ raised = "none"
        /\ elapsed = 0
        /\ closeElapsed = 0
        /\ expired = FALSE
        /\ outcome = "none"
        /\ verdict = "none"
        /\ answered = {}

----------------------------------------------------------------------------
(* Home Assistant                                                          *)

(* Home Assistant says nothing of a token it has not received, decides     *)
(* once, and answers only commands it was sent, after accepting the token. *)
MaySend(m) ==
    CASE m.type \in {"auth_ok", "auth_invalid"} -> exchange >= 1 /\ verdict = "none"
      [] m.type = "result" -> verdict = "accepted" /\ exchange > m.id
      [] OTHER -> TRUE

(* DEFAULT_SCRIPT: it keeps to the order of the client's commands, and to  *)
(* what their parsers need.  Its mutant: the client has learnt a command   *)
(* that the script has no reply to.                                        *)
StaleScript == <<Plain("auth_required"), Plain("auth_ok"), Reply(1, "fits"), Reply(2, "fits")>>
Script == <<Plain("auth_required"), Plain("auth_ok"),
            Reply(1, "fits"), Reply(2, "fits"), Reply(3, "fits")>>

(* The fake has its next line ready whenever recv is called; Home          *)
(* Assistant's messages come when they come.                               *)
Plays(m) == mock => inbox = <<>> /\ exchange < Len(Script) /\ m = Script[exchange + 1]

HASends(m) ==
    /\ pc = "exchanging" /\ conn = "open" /\ Plays(m)
    /\ Len(inbox) < MaxInbox
    /\ MaySend(m)
    /\ inbox' = Append(inbox, m)
    /\ verdict' = CASE m.type = "auth_ok" -> "accepted"
                    [] m.type = "auth_invalid" -> "rejected"
                    [] OTHER -> verdict
    /\ answered' = IF m.type = "result" /\ m.content # "error"
                   THEN answered \cup {m.id} ELSE answered
    /\ UNCHANGED <<mock, client, conn, time>>

(* The peer or the network closes the connection; what was received stays  *)
(* readable.                                                               *)
HADrops ==
    /\ conn = "open" /\ pc = "exchanging" /\ ~mock
    /\ conn' = "dropped"
    /\ UNCHANGED <<mock, client, inbox, time, said>>

----------------------------------------------------------------------------
(* The client                                                              *)

Return(o) == pc' = "returned" /\ outcome' = o

(* Leave the `async with` body, with an exception or without one: __aexit__*)
(* starts closing the socket and awaits it.                                *)
LeaveBody(exc) ==
    /\ pc' = "closing"
    /\ raised' = exc
    /\ conn' = "closing"
    /\ inbox' = <<>>
    /\ UNCHANGED <<outcome, time, said, mock>>

(* __aenter__ returns; the client awaits the greeting.                     *)
Connected ==
    /\ pc = "connecting"
    /\ pc' = "exchanging" /\ conn' = "open"
    /\ UNCHANGED <<exchange, results, raised, expired, outcome, inbox, time, said, mock>>

(* The transport cannot be built or cannot connect: there is no socket to  *)
(* close and `except Exception` wraps whatever was raised.                 *)
ConnectFails ==
    /\ pc = "connecting" /\ ~mock
    /\ Return("HAConnectionError")
    /\ UNCHANGED <<exchange, conn, inbox, results, raised, expired, time, said, mock>>

(* Mutants of Expected: the command id is not compared; the auth response  *)
(* is only compared with auth_invalid.                                     *)
ExpectedAnyId(m) ==
    CASE exchange = 0 -> m.type = "auth_required"
      [] exchange = 1 -> m.type = "auth_ok"
      [] OTHER -> m.type = "result" /\ m.content # "error"

ExpectedUnlessInvalid(m) ==
    CASE exchange = 0 -> m.type = "auth_required"
      [] exchange = 1 -> m.type # "auth_invalid"
      [] OTHER -> m.type = "result" /\ m.id = exchange - 1 /\ m.content # "error"

(* The message is the one the protocol step waits for.                     *)
Expected(m) ==
    CASE exchange = 0 -> m.type = "auth_required"
      [] exchange = 1 -> m.type = "auth_ok"
      [] OTHER -> m.type = "result" /\ m.id = exchange - 1 /\ m.content # "error"

(* Mutant of Raises: a command refused for want of rights is bucketed with *)
(* the rejected tokens.                                                    *)
RaisesAuthOnRefusal(m) ==
    CASE m.type = "junk" -> "Exception"
      [] m.type = "auth_invalid" /\ exchange = 1 -> "HAAuthError"
      [] m.type = "result" /\ m.content = "error" -> "HAAuthError"
      [] OTHER -> "HAConnectionError"

(* What the client raises for a message it did not wait for.  A command    *)
(* that fails (a token without admin rights) is not an authentication      *)
(* error, the token did authenticate.                                      *)
Raises(m) ==
    CASE m.type = "junk" -> "Exception"
      [] m.type = "auth_invalid" /\ exchange = 1 -> "HAAuthError"
      [] OTHER -> "HAConnectionError"

(* There is another command to send (its mutant: one command too many).    *)
MoreToAskOffByOne == exchange <= LastExchange
MoreToAsk == exchange < LastExchange

(* The expected reply: send the next request and wait for its reply.       *)
Advance ==
    /\ pc = "exchanging" /\ inbox # <<>> /\ Expected(Head(inbox))
    /\ MoreToAsk /\ conn = "open"
    /\ exchange' = exchange + 1
    /\ results' = IF exchange > 1 THEN Append(results, Head(inbox)) ELSE results
    /\ inbox' = Tail(inbox)
    /\ UNCHANGED <<pc, raised, expired, outcome, conn, time, said, mock>>

(* The expected reply, but the socket is gone when the next request is     *)
(* sent: the library raises.                                               *)
SendFails ==
    /\ pc = "exchanging" /\ inbox # <<>> /\ Expected(Head(inbox))
    /\ MoreToAsk /\ conn = "dropped"
    /\ LeaveBody("Exception")
    /\ UNCHANGED <<exchange, results, expired>>

(* The last command's result: the body ends normally.                      *)
LastReply ==
    /\ pc = "exchanging" /\ inbox # <<>> /\ Expected(Head(inbox))
    /\ ~MoreToAsk
    /\ results' = Append(results, Head(inbox))
    /\ LeaveBody("none")
    /\ UNCHANGED <<exchange, expired>>

Refused ==
    /\ pc = "exchanging" /\ inbox # <<>> /\ ~Expected(Head(inbox))
    /\ LeaveBody(Raises(Head(inbox)))
    /\ UNCHANGED <<exchange, results, expired>>

(* recv finds the connection closed and nothing left to read, or the       *)
(* script at its end: either raises.                                       *)
NothingToRead == inbox = <<>> /\ (conn = "dropped" \/ (mock /\ exchange >= Len(Script)))

RecvFails ==
    /\ pc = "exchanging" /\ NothingToRead
    /\ LeaveBody("Exception")
    /\ UNCHANGED <<exchange, results, expired>>

(* The parsers run after the socket is closed, with no await: a payload    *)
(* of the wrong shape fails the whole fetch.                               *)
Parsed == IF \A k \in DOMAIN results : results[k].content = "fits"
          THEN "summary" ELSE "HAConnectionError"

(* What leaves _fetch and wait_for.  A CancelledError is not an Exception: *)
(* it reaches wait_for, which makes it a TimeoutError; the two exceptions  *)
(* of the taxonomy pass; any other is wrapped.                             *)
(* Mutants: the `except (HAAuthError, ...): raise` clause is missing; the  *)
(* cancellation is swallowed by __aexit__.                                 *)
ResultWrapsAll == IF raised = "none" THEN Parsed ELSE "HAConnectionError"

ResultSwallowsCancel ==
    CASE raised \in {"none", "CancelledError"} -> Parsed
      [] raised = "HAAuthError" -> "HAAuthError"
      [] OTHER -> "HAConnectionError"

Result ==
    CASE raised = "none" -> Parsed
      [] raised = "HAAuthError" -> "HAAuthError"
      [] OTHER -> "HAConnectionError"

(* close() returns, because the peer closed or because CloseTimeout passed *)
(* and the library aborted the connection.                                 *)
CloseDone ==
    /\ pc = "closing"
    /\ conn' = "closed"
    /\ Return(Result)
    /\ UNCHANGED <<exchange, inbox, results, raised, expired, time, said, mock>>

----------------------------------------------------------------------------
(* Time: the loop runs a due timer before any more time passes.            *)

(* Mutant of TimerDue: connecting is outside the budget.                   *)
TimerDueOnceConnected == pc # "connecting" /\ ~expired /\ elapsed >= Budget

TimerDue == ~expired /\ elapsed >= Budget
CloseDue == pc = "closing" /\ closeElapsed >= CloseTimeout

(* The budget expires.  CancelledError replaces nothing while connecting   *)
(* or exchanging; inside __aexit__ it replaces the result or the exception *)
(* on its way out, and the close is abandoned half way.                    *)
TimeoutWhileConnecting ==
    /\ pc = "connecting" /\ TimerDue
    /\ expired' = TRUE
    /\ Return("HAConnectionError")
    /\ UNCHANGED <<exchange, conn, inbox, results, raised, time, said, mock>>

(* Mutant of TimeoutWhileExchanging: the exchange is abandoned without the *)
(* close.                                                                  *)
TimeoutSkipsClose ==
    /\ pc = "exchanging" /\ TimerDue
    /\ expired' = TRUE
    /\ Return("HAConnectionError")
    /\ UNCHANGED <<exchange, conn, inbox, results, raised, time, said, mock>>

TimeoutWhileExchanging ==
    /\ pc = "exchanging" /\ TimerDue
    /\ expired' = TRUE
    /\ LeaveBody("CancelledError")
    /\ UNCHANGED <<exchange, results>>

TimeoutWhileClosing ==
    /\ pc = "closing" /\ TimerDue
    /\ expired' = TRUE
    /\ Return("HAConnectionError")
    /\ UNCHANGED <<exchange, conn, inbox, results, raised, time, said, mock>>

(* The fake's awaits never suspend the coroutine: no time passes.          *)
Tick ==
    /\ ~mock /\ pc # "returned" /\ ~TimerDue /\ ~CloseDue
    /\ elapsed' = elapsed + 1
    /\ closeElapsed' = IF pc = "closing" THEN closeElapsed + 1 ELSE closeElapsed
    /\ UNCHANGED <<mock, client, conn, inbox, said>>

----------------------------------------------------------------------------
HA == (\E m \in HAMessages : HASends(m)) \/ HADrops
Connect == Connected \/ ConnectFails
Receive == Advance \/ SendFails \/ LastReply \/ Refused \/ RecvFails
Timeout == TimeoutWhileConnecting \/ TimeoutWhileExchanging \/ TimeoutWhileClosing
Deadlines == Timeout \/ (CloseDue /\ CloseDone)

Next == HA \/ Connect \/ Receive \/ CloseDone \/ Timeout \/ Tick

Spec == Init /\ [][Next]_vars

(* Time passes and the event loop runs due timers.  Nothing is asked of    *)
(* Home Assistant or of the network; with the fake the coroutine just runs.*)
FakeRuns == mock /\ (HA \/ Connect \/ Receive \/ CloseDone)
FairSpec == Spec /\ WF_vars(Tick) /\ WF_vars(Deadlines) /\ WF_vars(FakeRuns)

----------------------------------------------------------------------------
(* The variables stay in their ranges.                                     *)
TypeOK ==
    /\ mock \in BOOLEAN
    /\ pc \in {"connecting", "exchanging", "closing", "returned"}
    /\ exchange \in 0..LastExchange
    /\ conn \in {"none", "open", "dropped", "closing", "closed"}
    /\ inbox \in Seq(HAMessages)
    /\ results \in Seq(HAMessages)
    /\ raised \in {"none", "HAAuthError", "HAConnectionError", "Exception",
                   "CancelledError"}
    /\ elapsed \in Nat
    /\ closeElapsed \in Nat
    /\ expired \in BOOLEAN
    /\ outcome \in Outcomes \cup {"none"}
    /\ verdict \in {"none", "accepted", "rejected"}
    /\ answered \in SUBSET Commands

(* "Rejected the token" is only ever reported when Home Assistant said so: *)
(* no timeout, drop, failed command or junk is mistaken for it.            *)
AuthErrorIsHAsVerdict == outcome = "HAAuthError" => verdict = "rejected"

(* A summary is never partial: the token was accepted and each result that *)
(* was parsed is Home Assistant's own successful answer to that command,   *)
(* never a duplicate or the answer to another.                             *)
SummaryIsComplete ==
    outcome = "summary" =>
        /\ verdict = "accepted"
        /\ answered = Commands
        /\ Len(results) = 3
        /\ \A k \in Commands : results[k].id = k

(* No command is on the wire before Home Assistant accepted the token.     *)
CommandsNeedAcceptedToken == exchange > 1 => verdict = "accepted"

(* The call is over within the budget and one close, however the timer     *)
(* meets the close: the close is never awaited twice, nor the budget rearmed.*)
ReturnIsBounded == elapsed <= Budget + CloseTimeout

(* Every path out of the exchange goes through the close: the call never   *)
(* returns with a socket still in use, and it leaves a close unfinished    *)
(* only when the budget expired inside it.                                 *)
SocketIsReleased ==
    pc = "returned" => \/ conn \in {"none", "closed"}
                       \/ conn = "closing" /\ expired /\ elapsed = Budget

(* Nothing but the budget expiring inside the close can take from the      *)
(* caller what the exchange already established: a rejection that was read,*)
(* or three answers that were read and fit.                                *)
OnlyTheTimerLosesTheAnswer ==
    pc = "returned" /\ ~(expired /\ conn = "closing") =>
        /\ raised = "HAAuthError" => outcome = "HAAuthError"
        /\ exchange = LastExchange /\ raised = "none"
              /\ (\A k \in DOMAIN results : results[k].content = "fits")
           => outcome = "summary"

(* The fake never suspends, and yet has no step for the client.            *)
FakeIsStuck == mock /\ pc # "returned" /\ ~ENABLED <<FakeRuns>>_vars

(* The script and the client, written apart, agree on what is asked and in *)
(* which order: with mock_integrations every fetch ends, though no time    *)
(* passes that could end it, and ends in a summary, unless the budget is   *)
(* nothing.                                                                *)
MockFetchSucceeds ==
    /\ [](mock /\ pc = "returned" /\ ~expired => outcome = "summary")
    /\ []~FakeIsStuck
    /\ mock ~> pc = "returned"

(* The call implements the contract its callers rely on.                   *)
Contract == INSTANCE FetchContract
ImplementsContract == Contract!FairSpec

----------------------------------------------------------------------------
(* What the documents say and the code does not do.                        *)

(* client.py:38, "Raises HAAuthError on a rejected token": a call that     *)
(* read the rejection reports it.                                          *)
RejectedTokenRaisesAuthError ==
    pc = "returned" /\ raised = "HAAuthError" => outcome = "HAAuthError"

(* TDD.md:195-196, "a bounded ~10s failure": the call is over when the     *)
(* budget is.                                                              *)
ReturnsWithinBudget == elapsed <= Budget
============================================================================

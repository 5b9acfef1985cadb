--------------------------- MODULE HAFetchProofs ---------------------------
(***************************************************************************)
(* Proofs about HAFetch, for every Budget, CloseTimeout and MaxInbox.      *)
(***************************************************************************)
EXTENDS HAFetch, TLAPS

(* How far the call is says which socket it holds and what it has read.    *)
PhaseInv ==
    /\ pc = "connecting" =>
         exchange = 0 /\ conn = "none" /\ raised = "none" /\ ~expired /\ closeElapsed = 0
    /\ pc = "exchanging" =>
         conn \in {"open", "dropped"} /\ raised = "none" /\ ~expired /\ closeElapsed = 0
    /\ pc = "closing" => conn = "closing"
    /\ pc = "closing" /\ raised = "none" => exchange = LastExchange /\ Len(results) = 3
    /\ pc = "returned" <=> outcome # "none"

(* What was received and read is what Home Assistant said.                 *)
ReadInv ==
    /\ results = <<>> \/ exchange > 1
    /\ pc \in {"connecting", "exchanging"} =>
         Len(results) = IF exchange > 1 THEN exchange - 2 ELSE 0
    /\ \A k \in 1..Len(results) : results[k].id = k /\ k \in answered
    /\ \A i \in 1..Len(inbox) :
         /\ inbox[i].type = "auth_ok" => verdict = "accepted"
         /\ inbox[i].type = "auth_invalid" => verdict = "rejected"
         /\ inbox[i].type = "result" /\ inbox[i].content # "error" => inbox[i].id \in answered
    /\ exchange > 1 => verdict = "accepted"
    /\ answered # {} => verdict = "accepted"

(* What was raised and returned follows from what was read.                *)
OutcomeInv ==
    /\ raised = "HAAuthError" => verdict = "rejected"
    /\ outcome = "HAAuthError" => raised = "HAAuthError"
    /\ outcome = "summary" => exchange = LastExchange /\ Len(results) = 3
    /\ OnlyTheTimerLosesTheAnswer
    /\ expired /\ pc = "closing" => raised = "CancelledError"

(* The budget runs while it is armed; after it, only the close's own time. *)
TimeInv ==
    /\ ~expired => elapsed <= Budget
    /\ closeElapsed <= CloseTimeout
    /\ expired /\ pc = "closing" => elapsed = Budget + closeElapsed
    /\ ReturnIsBounded
    /\ SocketIsReleased

IInv == TypeOK /\ PhaseInv /\ ReadInv /\ OutcomeInv /\ TimeInv
----------------------------------------------------------------------------
USE BudgetAssumption, CloseTimeoutAssumption, MaxInboxAssumption

(* The inbox a fetch starts with, and leaves its exchange with.            *)
LEMMA EmptyInbox == <<>> \in Seq(HAMessages)
OBVIOUS

(* Appending keeps what was there and puts the new element last.           *)
LEMMA Appended ==
    ASSUME NEW S, NEW s \in Seq(S), NEW e \in S
    PROVE  /\ Len(Append(s, e)) = Len(s) + 1
           /\ Append(s, e)[Len(s) + 1] = e
           /\ \A k \in 1..Len(s) : Append(s, e)[k] = s[k]
OBVIOUS

(* Every action keeps the variables in their ranges.                       *)
LEMMA TypeStep == TypeOK /\ [Next]_vars => TypeOK'
<1> SUFFICES ASSUME TypeOK, [Next]_vars PROVE TypeOK'
  OBVIOUS
<1> USE DEF TypeOK, vars, client, time, said, Commands, LastExchange, Outcomes
<1>1. ASSUME NEW m \in HAMessages, HASends(m) PROVE TypeOK'
  <2>1. inbox' \in Seq(HAMessages)
    BY <1>1 DEF HASends
  <2>2. answered' \in SUBSET Commands
    BY <1>1 DEF HASends, HAMessages, Plain, Reply
  <2> QED
    BY <1>1, <2>1, <2>2 DEF HASends
<1>2. CASE HADrops
  BY <1>2 DEF HADrops
<1>3. CASE Connected \/ ConnectFails
  BY <1>3 DEF Connected, ConnectFails, Return
<1>4. CASE Advance
  <2>1. inbox' \in Seq(HAMessages) /\ Head(inbox) \in HAMessages
    BY <1>4 DEF Advance
  <2> QED
    BY <1>4, <2>1 DEF Advance, MoreToAsk
<1>5. CASE SendFails \/ RecvFails
  BY <1>5, EmptyInbox DEF SendFails, RecvFails, LeaveBody
<1>6. CASE LastReply
  <2>1. Head(inbox) \in HAMessages
    BY <1>6 DEF LastReply
  <2> QED
    BY <1>6, <2>1 DEF LastReply, LeaveBody
<1>7. CASE Refused
  BY <1>7 DEF Refused, LeaveBody, Raises
<1>8. CASE CloseDone
  BY <1>8 DEF CloseDone, Return, Result, Parsed
<1>9. CASE Timeout
  BY <1>9, EmptyInbox DEF Timeout, TimeoutWhileConnecting, TimeoutWhileExchanging,
              TimeoutWhileClosing, LeaveBody, Return
<1>10. CASE Tick
  BY <1>10 DEF Tick
<1>11. CASE UNCHANGED vars
  BY <1>11
<1> QED
  BY <1>1, <1>2, <1>3, <1>4, <1>5, <1>6, <1>7, <1>8, <1>9, <1>10, <1>11
     DEF Next, HA, Connect, Receive

(* The initial values are in range.                                        *)
LEMMA InitType == Init => TypeOK
  <1> SUFFICES ASSUME Init PROVE TypeOK
    OBVIOUS
  <1>1. inbox \in Seq(HAMessages) /\ results \in Seq(HAMessages)
    BY EmptyInbox DEF Init
  <1>2. answered \in SUBSET Commands
    BY DEF Init
  <1>3. exchange \in 0..LastExchange /\ elapsed \in Nat /\ closeElapsed \in Nat
    BY DEF Init, LastExchange
  <1>4. expired \in BOOLEAN
    BY DEF Init
  <1>5. pc \in {"connecting"} /\ conn \in {"none"} /\ raised \in {"none"} /\ outcome \in {"none"}
    BY DEF Init
  <1>6. verdict \in {"none", "accepted", "rejected"}
    BY DEF Init
  <1>7. mock \in BOOLEAN
    BY DEF Init
  <1> QED
    BY <1>1, <1>2, <1>3, <1>4, <1>5, <1>6, <1>7 DEF TypeOK

(* The types are an invariant of the specification.                        *)
THEOREM TypeCorrect == Spec => []TypeOK
<1> QED
  BY InitType, TypeStep, PTL DEF Spec

(* The inductive invariant is kept by every action.                        *)
LEMMA InvStep == IInv /\ [Next]_vars => IInv'
<1> SUFFICES ASSUME IInv, [Next]_vars PROVE PhaseInv' /\ ReadInv' /\ OutcomeInv' /\ TimeInv'
  BY TypeStep DEF IInv
<1> USE DEF vars, client, time, said, LastExchange, Commands, Outcomes
<1>0. TypeOK /\ TypeOK' /\ PhaseInv /\ ReadInv /\ OutcomeInv /\ TimeInv
  BY TypeStep DEF IInv
<1>1. ASSUME NEW m \in HAMessages, HASends(m) PROVE PhaseInv' /\ ReadInv' /\ OutcomeInv' /\ TimeInv'
  <2>1. PhaseInv'
    BY <1>1, <1>0 DEF HASends, MaySend, TypeOK, PhaseInv, ReadInv, OutcomeInv
  <2>2. ReadInv'
    <3>1. /\ inbox \in Seq(HAMessages) /\ inbox' = Append(inbox, m)
          /\ UNCHANGED <<pc, exchange, results>>
      BY <1>1, <1>0 DEF HASends, TypeOK
    <3>2. verdict \in {"none", "accepted", "rejected"}
      BY <1>0 DEF TypeOK
    <3>3. /\ m.type = "auth_ok" => verdict = "none" /\ verdict' = "accepted"
          /\ m.type = "auth_invalid" => verdict = "none" /\ verdict' = "rejected"
          /\ m.type \notin {"auth_ok", "auth_invalid"} => verdict' = verdict
      BY <1>1 DEF HASends, MaySend
    <3>4. /\ m.type = "result" => verdict = "accepted"
          /\ m.type = "result" /\ m.content # "error" => answered' = answered \cup {m.id}
          /\ ~(m.type = "result" /\ m.content # "error") => answered' = answered
      BY <1>1 DEF HASends, MaySend
    <3>5. /\ verdict = "accepted" => verdict' = "accepted"
          /\ verdict = "rejected" => verdict' = "rejected"
          /\ answered \subseteq answered'
      BY <3>2, <3>3, <3>4
    <3>6. \A i \in 1..Len(inbox') : \/ i \in 1..Len(inbox) /\ inbox'[i] = inbox[i]
                                  \/ inbox'[i] = m
      BY <3>1
    <3>7. \A i \in 1..Len(inbox') :
            /\ inbox'[i].type = "auth_ok" => verdict' = "accepted"
            /\ inbox'[i].type = "auth_invalid" => verdict' = "rejected"
            /\ inbox'[i].type = "result" /\ inbox'[i].content # "error"
                 => inbox'[i].id \in answered'
      BY <3>3, <3>4, <3>5, <3>6, <1>0 DEF ReadInv
    <3>8. \A k \in 1..Len(results) : results[k].id = k /\ k \in answered'
      BY <3>5, <1>0 DEF ReadInv
    <3>9. exchange > 1 \/ answered' # {} => verdict' = "accepted"
      BY <3>3, <3>4, <3>5, <1>0 DEF ReadInv
    <3> QED
      BY <3>1, <3>7, <3>8, <3>9, <1>0 DEF ReadInv
  <2>3. OutcomeInv'
    BY <1>1, <1>0 DEF HASends, MaySend, TypeOK, OutcomeInv, OnlyTheTimerLosesTheAnswer, PhaseInv, ReadInv
  <2>4. TimeInv'
    BY <1>1, <1>0 DEF HASends, MaySend, TypeOK, TimeInv, OutcomeInv, PhaseInv, ReturnIsBounded, SocketIsReleased
  <2> QED BY <2>1, <2>2, <2>3, <2>4
<1>2. CASE HADrops
  <2>1. PhaseInv'
    BY <1>2, <1>0 DEF HADrops, TypeOK, PhaseInv, ReadInv, OutcomeInv
  <2>2. ReadInv'
    BY <1>2, <1>0 DEF HADrops, TypeOK, ReadInv, PhaseInv
  <2>3. OutcomeInv'
    BY <1>2, <1>0 DEF HADrops, TypeOK, OutcomeInv, OnlyTheTimerLosesTheAnswer, PhaseInv, ReadInv
  <2>4. TimeInv'
    BY <1>2, <1>0 DEF HADrops, TypeOK, TimeInv, OutcomeInv, PhaseInv, ReturnIsBounded, SocketIsReleased
  <2> QED BY <2>1, <2>2, <2>3, <2>4
<1>3. CASE Connected
  <2>1. PhaseInv'
    BY <1>3, <1>0 DEF Connected, TypeOK, PhaseInv, ReadInv, OutcomeInv
  <2>2. ReadInv'
    BY <1>3, <1>0 DEF Connected, TypeOK, ReadInv, PhaseInv
  <2>3. OutcomeInv'
    BY <1>3, <1>0 DEF Connected, TypeOK, OutcomeInv, OnlyTheTimerLosesTheAnswer, PhaseInv, ReadInv
  <2>4. TimeInv'
    BY <1>3, <1>0 DEF Connected, TypeOK, TimeInv, OutcomeInv, PhaseInv, ReturnIsBounded, SocketIsReleased
  <2> QED BY <2>1, <2>2, <2>3, <2>4
<1>4. CASE ConnectFails
  <2>1. PhaseInv'
    BY <1>4, <1>0 DEF ConnectFails, Return, TypeOK, PhaseInv, ReadInv, OutcomeInv
  <2>2. ReadInv'
    BY <1>4, <1>0 DEF ConnectFails, Return, TypeOK, ReadInv, PhaseInv
  <2>3. OutcomeInv'
    BY <1>4, <1>0 DEF ConnectFails, Return, TypeOK, OutcomeInv, OnlyTheTimerLosesTheAnswer, PhaseInv, ReadInv
  <2>4. TimeInv'
    BY <1>4, <1>0 DEF ConnectFails, Return, TypeOK, TimeInv, OutcomeInv, PhaseInv, ReturnIsBounded, SocketIsReleased
  <2> QED BY <2>1, <2>2, <2>3, <2>4
<1>5. CASE Advance
  <2>1. PhaseInv'
    BY <1>5, <1>0 DEF Advance, MoreToAsk, Expected, TypeOK, PhaseInv, ReadInv, OutcomeInv
  <2>2. ReadInv'
    <3> DEFINE m == Head(inbox)
    <3>1. /\ inbox \in Seq(HAMessages) /\ results \in Seq(HAMessages)
          /\ m = inbox[1] /\ m \in HAMessages
          /\ Len(inbox) \in Nat \ {0} /\ inbox' = Tail(inbox)
      BY <1>5, <1>0 DEF Advance, TypeOK
    <3>2. \A i \in 1..Len(inbox') : inbox'[i] = inbox[i + 1] /\ i + 1 \in 1..Len(inbox)
      BY <3>1
    <3>3. \A i \in 1..Len(inbox)' :
            /\ inbox'[i].type = "auth_ok" => verdict' = "accepted"
            /\ inbox'[i].type = "auth_invalid" => verdict' = "rejected"
            /\ inbox'[i].type = "result" /\ inbox'[i].content # "error"
                 => inbox'[i].id \in answered'
      BY <3>2, <1>5, <1>0 DEF Advance, ReadInv
    <3>4. exchange' > 1 => verdict' = "accepted"
      <4>1. exchange' = exchange + 1 /\ verdict' = verdict /\ exchange \in 0..4
        BY <1>5, <1>0 DEF Advance, TypeOK
      <4>2. CASE exchange = 1
        <5>1. m.type = "auth_ok"
          BY <4>2, <1>5 DEF Advance, Expected
        <5> QED
          BY <5>1, <4>1, <3>1, <1>0 DEF ReadInv
      <4>3. CASE exchange # 1
        BY <4>1, <4>3, <1>0 DEF ReadInv
      <4> QED
        BY <4>2, <4>3
    <3>5. /\ results' = <<>> \/ exchange' > 1
          /\ Len(results') = IF exchange' > 1 THEN exchange' - 2 ELSE 0
          /\ \A k \in 1..Len(results') : results'[k].id = k /\ k \in answered'
      <4>1. CASE exchange > 1
        <5>1. m.id = exchange - 1 /\ m.type = "result" /\ m.content # "error"
          BY <4>1, <1>5, <1>0 DEF Advance, Expected, TypeOK
        <5>2. m.id \in answered
          BY <5>1, <3>1, <1>0 DEF ReadInv
        <5>3. Len(results) = exchange - 2 /\ results' = Append(results, m)
          BY <4>1, <1>5, <1>0 DEF Advance, ReadInv, PhaseInv
        <5> QED
          BY <4>1, <5>1, <5>2, <5>3, <3>1, <1>5, <1>0 DEF Advance, ReadInv, TypeOK
      <4>2. CASE ~(exchange > 1)
        BY <4>2, <3>1, <1>5, <1>0 DEF Advance, ReadInv, PhaseInv, TypeOK
      <4> QED
        BY <4>1, <4>2
    <3> QED
      BY <3>3, <3>4, <3>5, <1>5, <1>0 DEF Advance, ReadInv
  <2>3. OutcomeInv'
    BY <1>5, <1>0 DEF Advance, MoreToAsk, Expected, TypeOK, OutcomeInv, OnlyTheTimerLosesTheAnswer, PhaseInv, ReadInv
  <2>4. TimeInv'
    BY <1>5, <1>0 DEF Advance, MoreToAsk, Expected, TypeOK, TimeInv, OutcomeInv, PhaseInv, ReturnIsBounded, SocketIsReleased
  <2> QED BY <2>1, <2>2, <2>3, <2>4
<1>6. CASE SendFails
  <2>1. PhaseInv'
    BY <1>6, <1>0 DEF SendFails, MoreToAsk, LeaveBody, TypeOK, PhaseInv, ReadInv, OutcomeInv
  <2>2. ReadInv'
    BY <1>6, <1>0 DEF SendFails, MoreToAsk, LeaveBody, TypeOK, ReadInv, PhaseInv
  <2>3. OutcomeInv'
    BY <1>6, <1>0 DEF SendFails, MoreToAsk, LeaveBody, TypeOK, OutcomeInv, OnlyTheTimerLosesTheAnswer, PhaseInv, ReadInv
  <2>4. TimeInv'
    BY <1>6, <1>0 DEF SendFails, MoreToAsk, LeaveBody, TypeOK, TimeInv, OutcomeInv, PhaseInv, ReturnIsBounded, SocketIsReleased
  <2> QED BY <2>1, <2>2, <2>3, <2>4
<1>7. CASE LastReply
  <2>1. PhaseInv'
    BY <1>7, <1>0 DEF LastReply, MoreToAsk, Expected, LeaveBody, TypeOK, PhaseInv, ReadInv, OutcomeInv
  <2>2. ReadInv'
    <3> DEFINE m == Head(inbox)
    <3>1. /\ inbox \in Seq(HAMessages) /\ results \in Seq(HAMessages)
          /\ m = inbox[1] /\ m \in HAMessages /\ Len(inbox) \in Nat \ {0}
      BY <1>7, <1>0 DEF LastReply, TypeOK
    <3>2. exchange = LastExchange /\ m.id = 3 /\ m.id \in answered
      <4>1. exchange = LastExchange
        BY <1>7, <1>0 DEF LastReply, MoreToAsk, TypeOK
      <4>2. m.id = exchange - 1 /\ m.type = "result" /\ m.content # "error"
        BY <4>1, <1>7 DEF LastReply, Expected
      <4> QED
        BY <4>1, <4>2, <3>1, <1>0 DEF ReadInv
    <3>3. Len(results) = 2 /\ results' = Append(results, m)
      BY <3>2, <1>7, <1>0 DEF LastReply, ReadInv
    <3>4. /\ Len(results') = 3
          /\ \A k \in 1..Len(results') : results'[k].id = k /\ k \in answered
      <4>1. \A k \in 1..2 : results[k].id = k /\ k \in answered
        BY <3>3, <1>0 DEF ReadInv
      <4>2. /\ Len(results') = 3 /\ results'[3] = m
            /\ \A k \in 1..2 : results'[k] = results[k]
        <5>1. /\ Len(Append(results, m)) = Len(results) + 1
              /\ Append(results, m)[Len(results) + 1] = m
              /\ \A k \in 1..Len(results) : Append(results, m)[k] = results[k]
          BY <3>1, Appended
        <5> QED
          BY <5>1, <3>3
      <4> QED
        BY <3>2, <4>1, <4>2
    <3>5. /\ pc' = "closing" /\ inbox' = <<>>
          /\ exchange' = exchange /\ UNCHANGED <<verdict, answered>>
      BY <1>7 DEF LastReply, LeaveBody
    <3> QED
      BY <3>2, <3>4, <3>5, <1>0 DEF ReadInv
  <2>3. OutcomeInv'
    BY <1>7, <1>0 DEF LastReply, MoreToAsk, Expected, LeaveBody, TypeOK, OutcomeInv, OnlyTheTimerLosesTheAnswer, PhaseInv, ReadInv
  <2>4. TimeInv'
    BY <1>7, <1>0 DEF LastReply, MoreToAsk, Expected, LeaveBody, TypeOK, TimeInv, OutcomeInv, PhaseInv, ReturnIsBounded, SocketIsReleased
  <2> QED BY <2>1, <2>2, <2>3, <2>4
<1>8. CASE Refused
  <2>1. PhaseInv'
    BY <1>8, <1>0 DEF Refused, Raises, LeaveBody, TypeOK, PhaseInv, ReadInv, OutcomeInv
  <2>2. ReadInv'
    BY <1>8, <1>0 DEF Refused, Raises, LeaveBody, TypeOK, ReadInv, PhaseInv
  <2>3. OutcomeInv'
    BY <1>8, <1>0 DEF Refused, Raises, LeaveBody, TypeOK, OutcomeInv, OnlyTheTimerLosesTheAnswer, PhaseInv, ReadInv
  <2>4. TimeInv'
    BY <1>8, <1>0 DEF Refused, Raises, LeaveBody, TypeOK, TimeInv, OutcomeInv, PhaseInv, ReturnIsBounded, SocketIsReleased
  <2> QED BY <2>1, <2>2, <2>3, <2>4
<1>9. CASE RecvFails
  <2>1. PhaseInv'
    BY <1>9, <1>0 DEF RecvFails, LeaveBody, TypeOK, PhaseInv, ReadInv, OutcomeInv
  <2>2. ReadInv'
    BY <1>9, <1>0 DEF RecvFails, LeaveBody, TypeOK, ReadInv, PhaseInv
  <2>3. OutcomeInv'
    BY <1>9, <1>0 DEF RecvFails, LeaveBody, TypeOK, OutcomeInv, OnlyTheTimerLosesTheAnswer, PhaseInv, ReadInv
  <2>4. TimeInv'
    BY <1>9, <1>0 DEF RecvFails, LeaveBody, TypeOK, TimeInv, OutcomeInv, PhaseInv, ReturnIsBounded, SocketIsReleased
  <2> QED BY <2>1, <2>2, <2>3, <2>4
<1>10. CASE CloseDone
  <2>1. PhaseInv'
    BY <1>10, <1>0 DEF CloseDone, Return, Result, Parsed, CloseDue, TypeOK, PhaseInv, ReadInv, OutcomeInv
  <2>2. ReadInv'
    BY <1>10, <1>0 DEF CloseDone, Return, Result, Parsed, CloseDue, TypeOK, ReadInv, PhaseInv
  <2>3. OutcomeInv'
    BY <1>10, <1>0 DEF CloseDone, Return, Result, Parsed, CloseDue, TypeOK, OutcomeInv, OnlyTheTimerLosesTheAnswer, PhaseInv, ReadInv
  <2>4. TimeInv'
    BY <1>10, <1>0 DEF CloseDone, Return, Result, Parsed, CloseDue, TypeOK, TimeInv, OutcomeInv, PhaseInv, ReturnIsBounded, SocketIsReleased
  <2> QED BY <2>1, <2>2, <2>3, <2>4
<1>11. CASE TimeoutWhileConnecting
  <2>1. PhaseInv'
    BY <1>11, <1>0 DEF TimeoutWhileConnecting, TimerDue, Return, TypeOK, PhaseInv, ReadInv, OutcomeInv
  <2>2. ReadInv'
    BY <1>11, <1>0 DEF TimeoutWhileConnecting, TimerDue, Return, TypeOK, ReadInv, PhaseInv
  <2>3. OutcomeInv'
    BY <1>11, <1>0 DEF TimeoutWhileConnecting, TimerDue, Return, TypeOK, OutcomeInv, OnlyTheTimerLosesTheAnswer, PhaseInv, ReadInv
  <2>4. TimeInv'
    BY <1>11, <1>0 DEF TimeoutWhileConnecting, TimerDue, Return, TypeOK, TimeInv, OutcomeInv, PhaseInv, ReturnIsBounded, SocketIsReleased
  <2> QED BY <2>1, <2>2, <2>3, <2>4
<1>12. CASE TimeoutWhileExchanging
  <2>1. PhaseInv'
    BY <1>12, <1>0 DEF TimeoutWhileExchanging, TimerDue, LeaveBody, TypeOK, PhaseInv, ReadInv, OutcomeInv
  <2>2. ReadInv'
    BY <1>12, <1>0 DEF TimeoutWhileExchanging, TimerDue, LeaveBody, TypeOK, ReadInv, PhaseInv
  <2>3. OutcomeInv'
    BY <1>12, <1>0 DEF TimeoutWhileExchanging, TimerDue, LeaveBody, TypeOK, OutcomeInv, OnlyTheTimerLosesTheAnswer, PhaseInv, ReadInv
  <2>4. TimeInv'
    BY <1>12, <1>0 DEF TimeoutWhileExchanging, TimerDue, LeaveBody, TypeOK, TimeInv, OutcomeInv, PhaseInv, ReturnIsBounded, SocketIsReleased
  <2> QED BY <2>1, <2>2, <2>3, <2>4
<1>13. CASE TimeoutWhileClosing
  <2>1. PhaseInv'
    BY <1>13, <1>0 DEF TimeoutWhileClosing, TimerDue, Return, TypeOK, PhaseInv, ReadInv, OutcomeInv
  <2>2. ReadInv'
    BY <1>13, <1>0 DEF TimeoutWhileClosing, TimerDue, Return, TypeOK, ReadInv, PhaseInv
  <2>3. OutcomeInv'
    BY <1>13, <1>0 DEF TimeoutWhileClosing, TimerDue, Return, TypeOK, OutcomeInv, OnlyTheTimerLosesTheAnswer, PhaseInv, ReadInv
  <2>4. TimeInv'
    BY <1>13, <1>0 DEF TimeoutWhileClosing, TimerDue, Return, TypeOK, TimeInv, OutcomeInv, PhaseInv, ReturnIsBounded, SocketIsReleased
  <2> QED BY <2>1, <2>2, <2>3, <2>4
<1>14. CASE Tick
  <2>1. PhaseInv'
    BY <1>14, <1>0 DEF Tick, TimerDue, CloseDue, TypeOK, PhaseInv, ReadInv, OutcomeInv
  <2>2. ReadInv'
    BY <1>14, <1>0 DEF Tick, TimerDue, CloseDue, TypeOK, ReadInv, PhaseInv
  <2>3. OutcomeInv'
    BY <1>14, <1>0 DEF Tick, TimerDue, CloseDue, TypeOK, OutcomeInv, OnlyTheTimerLosesTheAnswer, PhaseInv, ReadInv
  <2>4. TimeInv'
    BY <1>14, <1>0 DEF Tick, TimerDue, CloseDue, TypeOK, TimeInv, OutcomeInv, PhaseInv, ReturnIsBounded, SocketIsReleased
  <2> QED BY <2>1, <2>2, <2>3, <2>4
<1>15. CASE UNCHANGED vars
  <2>1. PhaseInv'
    BY <1>15, <1>0 DEF PhaseInv, TypeOK, PhaseInv, ReadInv, OutcomeInv
  <2>2. ReadInv'
    BY <1>15, <1>0 DEF PhaseInv, TypeOK, ReadInv, PhaseInv
  <2>3. OutcomeInv'
    BY <1>15, <1>0 DEF PhaseInv, TypeOK, OutcomeInv, OnlyTheTimerLosesTheAnswer, PhaseInv, ReadInv
  <2>4. TimeInv'
    BY <1>15, <1>0 DEF PhaseInv, TypeOK, TimeInv, OutcomeInv, PhaseInv, ReturnIsBounded, SocketIsReleased
  <2> QED BY <2>1, <2>2, <2>3, <2>4
<1> QED
  BY <1>1, <1>2, <1>3, <1>4, <1>5, <1>6, <1>7, <1>8, <1>9, <1>10, <1>11, <1>12, <1>13, <1>14, <1>15 DEF Next, HA, Connect, Receive, Timeout

(* The inductive invariant, and with it the safety of the call: what it    *)
(* reports of the token is Home Assistant's verdict, a summary is complete,*)
(* no command precedes the verdict, nothing outlives its deadline, and no  *)
(* path leaves the socket in use.                                          *)
THEOREM Invariance == Spec => []IInv
<1>1. Init => IInv
  <2> SUFFICES ASSUME Init PROVE IInv
    OBVIOUS
  <2>1. TypeOK
    BY InitType
  <2>2. PhaseInv /\ ReadInv
    BY DEF Init, PhaseInv, ReadInv
  <2>3. OutcomeInv /\ TimeInv
    BY DEF Init, OutcomeInv, TimeInv, OnlyTheTimerLosesTheAnswer, ReturnIsBounded,
           SocketIsReleased
  <2> QED
    BY <2>1, <2>2, <2>3 DEF IInv
<1> QED
  BY <1>1, InvStep, PTL DEF Spec

(* A reported rejection is Home Assistant's own.                           *)
THEOREM AuthErrorIsSound == Spec => []AuthErrorIsHAsVerdict
<1>1. IInv => AuthErrorIsHAsVerdict
  BY DEF IInv, OutcomeInv, AuthErrorIsHAsVerdict
<1> QED
  BY <1>1, Invariance, PTL

(* The invariant carries what a summary was built from.                    *)
LEMMA CompleteSummary == IInv => SummaryIsComplete
<1> SUFFICES ASSUME IInv, outcome = "summary"
             PROVE  /\ verdict = "accepted" /\ answered = Commands /\ Len(results) = 3
                    /\ \A k \in Commands : results[k].id = k
  BY DEF SummaryIsComplete
<1>1. exchange = LastExchange /\ Len(results) = 3
  BY DEF IInv, OutcomeInv
<1>2. verdict = "accepted"
  BY <1>1 DEF IInv, ReadInv, LastExchange
<1>3. \A k \in Commands : results[k].id = k /\ k \in answered
  BY <1>1 DEF IInv, ReadInv, Commands
<1>4. answered = Commands
  BY <1>3 DEF IInv, TypeOK
<1> QED
  BY <1>1, <1>2, <1>3, <1>4

(* A summary is never partial, in any behaviour of Home Assistant.         *)
THEOREM SummaryIsSound == Spec => []SummaryIsComplete
BY CompleteSummary, Invariance, PTL

(* No command is sent before the token is accepted.                        *)
THEOREM CommandsAreAuthenticated == Spec => []CommandsNeedAcceptedToken
<1>1. IInv => CommandsNeedAcceptedToken
  BY DEF IInv, ReadInv, CommandsNeedAcceptedToken
<1> QED
  BY <1>1, Invariance, PTL

(* For every budget the call takes at most the budget and one close.       *)
THEOREM ReturnBound == Spec => []ReturnIsBounded
<1>1. IInv => ReturnIsBounded
  BY DEF IInv, TimeInv
<1> QED
  BY <1>1, Invariance, PTL

(* The socket is closed, or being closed when the budget ran out inside the*)
(* close, whenever the call has returned.                                  *)
THEOREM SocketRelease == Spec => []SocketIsReleased
<1>1. IInv => SocketIsReleased
  BY DEF IInv, TimeInv
<1> QED
  BY <1>1, Invariance, PTL

(* Only the budget expiring inside the close costs the caller an answer.   *)
THEOREM AnswerLoss == Spec => []OnlyTheTimerLosesTheAnswer
<1>1. IInv => OnlyTheTimerLosesTheAnswer
  BY DEF IInv, OutcomeInv
<1> QED
  BY <1>1, Invariance, PTL

----------------------------------------------------------------------------
(* With the fake, what is to be read is the line of the script that the    *)
(* client waits for, and nothing has gone wrong.                           *)
MockInv ==
    mock /\ ~expired =>
        /\ conn # "dropped" /\ raised = "none"
        /\ inbox = <<>> \/ inbox = <<Script[exchange + 1]>>
        /\ \A k \in DOMAIN results : results[k].content = "fits"
        /\ pc = "returned" => outcome = "summary"

(* Each line is the reply that the client waits for at that point.         *)
LEMMA ScriptFits ==
    ASSUME NEW e \in 0..LastExchange, exchange = e
    PROVE  /\ Expected(Script[e + 1]) /\ e < Len(Script)
           /\ e > 1 => Script[e + 1].content = "fits"
<1>1. CASE e = 0  BY <1>1 DEF Script, Expected, Plain
<1>2. CASE e = 1  BY <1>2 DEF Script, Expected, Plain
<1>3. CASE e = 2  BY <1>3 DEF Script, Expected, Reply
<1>4. CASE e = 3  BY <1>4 DEF Script, Expected, Reply
<1>5. CASE e = 4  BY <1>5 DEF Script, Expected, Reply
<1> QED  BY <1>1, <1>2, <1>3, <1>4, <1>5 DEF LastExchange

(* Every action of a fetch from the fake keeps to the script.              *)
LEMMA MockStep == IInv /\ MockInv /\ [Next]_vars => MockInv'
<1> SUFFICES ASSUME IInv, MockInv, [Next]_vars, mock', ~expired'
             PROVE  /\ conn' # "dropped" /\ raised' = "none"
                    /\ inbox' = <<>> \/ inbox' = <<Script[exchange' + 1]>>
                    /\ \A k \in DOMAIN results' : results'[k].content = "fits"
                    /\ pc' = "returned" => outcome' = "summary"
  BY DEF MockInv
<1> USE DEF vars, client, time, said
<1>0. TypeOK /\ PhaseInv
  BY DEF IInv
<1>1. ASSUME mock, ~expired
      PROVE  /\ conn # "dropped" /\ raised = "none"
             /\ inbox = <<>> \/ inbox = <<Script[exchange + 1]>>
             /\ \A k \in DOMAIN results : results[k].content = "fits"
             /\ pc = "returned" => outcome = "summary"
             /\ inbox # <<>> => Expected(Head(inbox))
             /\ inbox # <<>> /\ exchange > 1 => Head(inbox).content = "fits"
             /\ ~NothingToRead
  <2>1. exchange \in 0..LastExchange
    BY <1>0 DEF TypeOK
  <2>2. inbox # <<>> => Head(inbox) = Script[exchange + 1]
    BY <1>1 DEF MockInv
  <2> QED
    BY <1>1, <2>1, <2>2, ScriptFits DEF MockInv, NothingToRead
<1>2. ASSUME NEW m \in HAMessages, HASends(m) PROVE inbox' = <<Script[exchange' + 1]>>
  <2>1. inbox = <<>> /\ m = Script[exchange + 1] /\ exchange' = exchange
    BY <1>2 DEF HASends, Plays
  <2>2. inbox' = Append(<<>>, m)
    BY <1>2, <2>1 DEF HASends
  <2>3. Append(<<>>, m) = <<m>>
    OBVIOUS
  <2> QED
    BY <2>1, <2>2, <2>3
<1>3. CASE \E m \in HAMessages : HASends(m)
  <2>1. inbox' = <<Script[exchange' + 1]>>
    BY <1>2, <1>3
  <2>2. UNCHANGED <<mock, client, conn>>
    BY <1>3 DEF HASends
  <2> QED
    BY <1>1, <2>1, <2>2
<1>4. CASE HADrops \/ ConnectFails \/ Tick
  BY <1>4 DEF HADrops, ConnectFails, Tick
<1>5. CASE Connected
  BY <1>1, <1>5 DEF Connected
<1>6. ASSUME Advance \/ LastReply, mock, ~expired
      PROVE  /\ inbox' = <<>>
             /\ \A k \in DOMAIN results' : results'[k].content = "fits"
  <2>1. inbox # <<>> /\ Head(inbox) \in HAMessages
    BY <1>6, <1>0 DEF Advance, LastReply, TypeOK
  <2>2. inbox' = <<>>
    <3>1. inbox = <<Script[exchange + 1]>>
      BY <1>1, <1>6, <2>1
    <3>2. Tail(<<Script[exchange + 1]>>) = <<>>
      OBVIOUS
    <3> QED
      BY <1>6, <3>1, <3>2 DEF Advance, LastReply, LeaveBody
  <2>3. /\ Len(Append(results, Head(inbox))) = Len(results) + 1
        /\ Append(results, Head(inbox))[Len(results) + 1] = Head(inbox)
        /\ \A k \in 1..Len(results) : Append(results, Head(inbox))[k] = results[k]
    BY <2>1, <1>0, Appended DEF TypeOK
  <2>4. ASSUME results' = Append(results, Head(inbox)), exchange > 1
        PROVE  \A k \in DOMAIN results' : results'[k].content = "fits"
    <3>1. results \in Seq(HAMessages) /\ results' \in Seq(HAMessages)
      BY <1>0, <2>1, <2>4 DEF TypeOK
    <3>2. ASSUME NEW k \in DOMAIN results' PROVE results'[k].content = "fits"
      <4>1. k \in 1..Len(results) \/ k = Len(results) + 1
        BY <2>3, <2>4, <3>1, <3>2
      <4>2. CASE k \in 1..Len(results)
        BY <1>1, <1>6, <2>3, <2>4, <3>1, <4>2
      <4>3. CASE k = Len(results) + 1
        BY <1>1, <1>6, <2>1, <2>3, <2>4, <4>3
      <4> QED  BY <4>1, <4>2, <4>3
    <3> QED  BY <3>2
  <2>5. exchange \in 0..LastExchange
    BY <1>0 DEF TypeOK
  <2> QED
    BY <1>1, <1>6, <2>2, <2>4, <2>5 DEF Advance, LastReply, MoreToAsk, LastExchange
<1>7. CASE Advance
  BY <1>1, <1>6, <1>7 DEF Advance
<1>8. CASE LastReply
  BY <1>1, <1>6, <1>8 DEF LastReply, LeaveBody
<1>9. CASE SendFails \/ Refused \/ RecvFails
  BY <1>1, <1>9 DEF SendFails, Refused, RecvFails, LeaveBody
<1>10. CASE CloseDone
  BY <1>1, <1>10 DEF CloseDone, Return, Result, Parsed
<1>11. CASE Timeout
  BY <1>11 DEF Timeout, TimeoutWhileConnecting, TimeoutWhileExchanging, TimeoutWhileClosing
<1>12. CASE UNCHANGED vars
  BY <1>1, <1>12
<1> QED
  BY <1>3, <1>4, <1>5, <1>7, <1>8, <1>9, <1>10, <1>11, <1>12 DEF Next, HA, Connect, Receive

(* How far a fetch from the fake is: it connects, then waits for and reads *)
(* one line after the other, closes, returns.                              *)
Stage ==
    CASE pc = "connecting" -> 0
      [] pc = "exchanging" -> 2 * exchange + (IF inbox = <<>> THEN 1 ELSE 2)
      [] pc = "closing" -> 2 * LastExchange + 3
      [] pc = "returned" -> 2 * LastExchange + 4

Reaches(n) == mock ~> (mock /\ Stage >= n)

(* The stages, by the await the call is suspended on.                      *)
StageFacts ==
    /\ exchange \in 0..4 /\ Stage \in 0..12
    /\ pc = "connecting" => Stage = 0
    /\ pc = "exchanging" /\ inbox = <<>> => Stage = 2 * exchange + 1
    /\ pc = "exchanging" /\ inbox # <<>> => Stage = 2 * exchange + 2
    /\ pc = "closing" => Stage = 11
    /\ pc = "returned" <=> Stage = 12

LEMMA Stages == TypeOK => StageFacts
<1> SUFFICES ASSUME TypeOK PROVE StageFacts
  OBVIOUS
<1> USE DEF StageFacts
<1>0. exchange \in 0..4 /\ pc \in {"connecting", "exchanging", "closing", "returned"}
  BY DEF TypeOK, LastExchange
<1>1. CASE pc = "connecting"
  BY <1>0, <1>1 DEF Stage
<1>2. CASE pc = "exchanging" /\ inbox = <<>>
  BY <1>0, <1>2 DEF Stage
<1>3. CASE pc = "exchanging" /\ inbox # <<>>
  BY <1>0, <1>3 DEF Stage
<1>4. CASE pc = "closing"
  BY <1>0, <1>4 DEF Stage, LastExchange
<1>5. CASE pc = "returned"
  BY <1>0, <1>5 DEF Stage, LastExchange
<1> QED
  BY <1>0, <1>1, <1>2, <1>3, <1>4, <1>5

(* No step takes a fetch from the fake back, and each of its own takes it  *)
(* on.                                                                     *)
LEMMA StageStep ==
    ASSUME IInv, mock, [Next]_vars
    PROVE  /\ mock' /\ Stage' >= Stage
           /\ FakeRuns => Stage' > Stage
<1> USE DEF vars, client, time, said
<1>a. StageFacts /\ StageFacts'
  <2>1. TypeOK /\ TypeOK'
    BY TypeStep DEF IInv
  <2> QED
    BY <2>1, Stages, PTL
<1>1. ASSUME NEW m \in HAMessages, HASends(m) PROVE mock' /\ Stage' > Stage
  <2>1. inbox = <<>> /\ inbox' = Append(inbox, m)
    BY <1>1 DEF HASends, Plays
  <2>2. inbox' # <<>>
    BY <2>1
  <2>3. pc = "exchanging" /\ UNCHANGED <<mock, pc, exchange>>
    BY <1>1 DEF HASends
  <2> QED
    BY <1>a, <2>1, <2>2, <2>3 DEF StageFacts
<1>2. ASSUME Connect PROVE mock' /\ Stage' > Stage
  BY <1>a, <1>2 DEF Connect, Connected, ConnectFails, StageFacts
<1>3. ASSUME Receive PROVE mock' /\ Stage' > Stage
  <2>1. pc = "exchanging" /\ mock'
    BY <1>3 DEF Receive, Advance, SendFails, LastReply, Refused, RecvFails, LeaveBody
  <2>2. Stage <= 2 * exchange + 2 /\ Stage < 11
    BY <1>a, <2>1 DEF StageFacts
  <2>3. CASE Advance
    <3>1. pc' = "exchanging" /\ exchange' = exchange + 1
      BY <2>3 DEF Advance
    <3>2. Stage' >= 2 * exchange' + 1
      BY <1>a, <3>1 DEF StageFacts
    <3> QED
      BY <1>a, <2>1, <2>2, <3>1, <3>2 DEF StageFacts
  <2>4. CASE SendFails \/ LastReply \/ Refused \/ RecvFails
    <3>1. pc' = "closing"
      BY <2>4 DEF SendFails, LastReply, Refused, RecvFails, LeaveBody
    <3> QED
      BY <1>a, <2>1, <2>2, <3>1 DEF StageFacts
  <2> QED
    BY <1>3, <2>3, <2>4 DEF Receive
<1>4. ASSUME CloseDone PROVE mock' /\ Stage' > Stage
  BY <1>a, <1>4 DEF CloseDone, Return, StageFacts
<1>5. ASSUME Timeout PROVE mock' /\ Stage' > Stage
  <2>1. mock' = mock /\ pc # "returned"
    BY <1>5 DEF Timeout, TimeoutWhileConnecting, TimeoutWhileExchanging,
       TimeoutWhileClosing, LeaveBody
  <2>2. pc' = "returned" \/ (pc = "exchanging" /\ pc' = "closing")
    BY <1>5 DEF Timeout, TimeoutWhileConnecting, TimeoutWhileExchanging,
       TimeoutWhileClosing, LeaveBody, Return
  <2> QED
    BY <1>a, <2>1, <2>2 DEF StageFacts
<1>6. ASSUME UNCHANGED vars PROVE mock' /\ Stage' = Stage
  BY <1>6 DEF Stage
<1>7. ~HADrops /\ ~Tick
  BY DEF HADrops, Tick
<1>8. FakeRuns => Stage' > Stage
  BY <1>1, <1>2, <1>3, <1>4, <1>7 DEF FakeRuns, HA
<1>9. mock' /\ (Stage' > Stage \/ Stage' = Stage)
  BY <1>1, <1>2, <1>3, <1>4, <1>5, <1>6, <1>7 DEF Next, HA
<1> QED
  BY <1>8, <1>9, <1>a DEF StageFacts

(* A fetch from the fake that has come so far comes further.               *)
LEMMA StageIsLeft ==
    ASSUME NEW n \in 0..(2 * LastExchange + 3), NEW m, m = n + 1
    PROVE  FairSpec /\ []~FakeIsStuck => (Reaches(n) => Reaches(m))
<1> DEFINE A == mock /\ Stage >= n
           B == mock /\ Stage >= m
<1>1. IInv /\ [Next]_vars => /\ A => A' \/ B'
                             /\ A /\ FakeRuns => B'
                             /\ B => B'
  <2> SUFFICES ASSUME IInv, [Next]_vars, mock
               PROVE  /\ Stage >= n => mock' /\ Stage' >= n
                      /\ Stage >= n /\ FakeRuns => mock' /\ Stage' >= m
                      /\ Stage >= m => mock' /\ Stage' >= m
    OBVIOUS
  <2>1. mock' /\ Stage' >= Stage /\ (FakeRuns => Stage' > Stage)
    BY StageStep
  <2>2. Stage \in Nat /\ Stage' \in Nat
    <3>1. TypeOK /\ TypeOK'
      BY TypeStep DEF IInv
    <3>2. StageFacts /\ StageFacts'
      BY <3>1, Stages, PTL
    <3> QED
      BY <3>2 DEF StageFacts
  <2> QED
    BY <2>1, <2>2
<1>2. IInv /\ ~FakeIsStuck /\ A => B \/ ENABLED <<FakeRuns>>_vars
  BY Stages DEF IInv, StageFacts, FakeIsStuck, LastExchange
<1>3. FairSpec => []IInv /\ [][Next]_vars /\ WF_vars(FakeRuns)
  BY Invariance, PTL DEF FairSpec, Spec
<1> HIDE DEF A, B
<1>4. FairSpec /\ []~FakeIsStuck => (A ~> B)
  BY <1>1, <1>2, <1>3, PTL
<1>5. (A <=> mock /\ Stage >= n) /\ (B <=> mock /\ Stage >= m)
  BY DEF A, B
<1> QED
  BY <1>4, <1>5, PTL DEF Reaches

(* The script serves the client, whatever the budget is: a fetch from the  *)
(* fake always comes to its end, and unless it was timed out, to a summary.*)
THEOREM MockIsSound == FairSpec /\ []~FakeIsStuck => MockFetchSucceeds
<1>1. Init => MockInv
  BY DEF Init, MockInv
<1>2. MockInv => (mock /\ pc = "returned" /\ ~expired => outcome = "summary")
  BY DEF MockInv
<1>3. FairSpec => [](mock /\ pc = "returned" /\ ~expired => outcome = "summary")
  BY <1>1, <1>2, MockStep, Invariance, PTL DEF FairSpec, Spec
<1>4. FairSpec => Reaches(0)
  <2>1. IInv /\ mock => Stage >= 0
    BY Stages DEF IInv, StageFacts
  <2> QED
    BY <2>1, Invariance, PTL DEF FairSpec, Spec, Reaches
<1>5. FairSpec /\ []~FakeIsStuck => Reaches(4)
  BY <1>4, StageIsLeft, 0 + 1 = 1, 1 + 1 = 2, 2 + 1 = 3, 3 + 1 = 4 DEF LastExchange
<1>6. FairSpec /\ []~FakeIsStuck => Reaches(8)
  BY <1>5, StageIsLeft DEF LastExchange
<1>7. FairSpec /\ []~FakeIsStuck => Reaches(12)
  BY <1>6, StageIsLeft DEF LastExchange
<1>8. IInv /\ Stage >= 12 => pc = "returned"
  BY Stages DEF IInv, StageFacts
<1>9. FairSpec /\ []~FakeIsStuck => (mock ~> pc = "returned")
  BY <1>7, <1>8, Invariance, PTL DEF FairSpec, Spec, Reaches
<1> QED
  BY <1>3, <1>9 DEF MockFetchSucceeds

----------------------------------------------------------------------------
(* Every step of the call is a step of the contract or leaves the          *)
(* contract's variables alone.                                             *)
LEMMA ContractStep == IInv /\ IInv' /\ [Next]_vars => [Contract!Next]_(Contract!vars)
<1> SUFFICES ASSUME IInv, IInv', [Next]_vars
             PROVE  Contract!Next \/ UNCHANGED <<verdict, answered, elapsed, outcome>>
  BY DEF Contract!vars
<1> USE DEF vars, client, time, said, Contract!Next
<1>0. TypeOK /\ PhaseInv /\ TypeOK' /\ PhaseInv'
  BY DEF IInv
<1>1. ASSUME NEW m \in HAMessages, HASends(m)
      PROVE  Contract!Decide \/ Contract!Answer \/ UNCHANGED <<verdict, answered, elapsed, outcome>>
  <2>1. outcome = "none" /\ UNCHANGED <<elapsed, outcome>>
    BY <1>1, <1>0 DEF HASends, PhaseInv
  <2>2. CASE m.type \in {"auth_ok", "auth_invalid"}
    BY <2>1, <2>2, <1>1 DEF HASends, MaySend, Contract!Decide
  <2>3. CASE m.type = "result"
    <3>1. m.id \in Commands /\ verdict = "accepted" /\ verdict' = verdict
      BY <2>3, <1>1 DEF HASends, MaySend, HAMessages, Plain, Reply
    <3> QED
      BY <2>1, <2>3, <3>1, <1>1 DEF HASends, Contract!Answer, Commands, Contract!Commands
  <2>4. CASE m.type \notin {"auth_ok", "auth_invalid", "result"}
    BY <2>1, <2>4, <1>1 DEF HASends
  <2> QED
    BY <2>2, <2>3, <2>4
<1>2. CASE Return("HAConnectionError") /\ UNCHANGED <<time, said>> /\ pc # "returned"
  BY <1>2, <1>0 DEF Return, PhaseInv, Contract!Return, Contract!Justified
<1>3. CASE CloseDone
  <2>1. /\ outcome = "none" /\ UNCHANGED <<time, said>>
        /\ outcome' \in {"HAAuthError", "HAConnectionError", "summary"}
    BY <1>3, <1>0 DEF CloseDone, Return, Result, Parsed, PhaseInv
  <2>2. outcome' = "HAAuthError" => verdict = "rejected"
    BY <2>1 DEF IInv, OutcomeInv
  <2>3. outcome' = "summary" => verdict = "accepted" /\ answered = Commands
    <3>1. IInv' => SummaryIsComplete'
      BY CompleteSummary, PTL
    <3> QED
      BY <3>1, <2>1 DEF SummaryIsComplete, Commands
  <2> QED
    BY <2>1, <2>2, <2>3 DEF Contract!Return, Contract!Justified, Commands, Contract!Commands
<1>4. CASE Tick
  <2>1. elapsed' <= Budget + CloseTimeout
    BY DEF IInv, TimeInv, ReturnIsBounded
  <2> QED
    BY <2>1, <1>4, <1>0 DEF Tick, Contract!Pass, PhaseInv, TypeOK
<1>5. CASE HADrops \/ Connected \/ Receive \/ TimeoutWhileExchanging \/ UNCHANGED vars
  BY <1>5 DEF HADrops, Connected, Receive, Advance, SendFails, LastReply, Refused,
              RecvFails, LeaveBody, TimeoutWhileExchanging
<1>6. CASE ConnectFails \/ TimeoutWhileConnecting \/ TimeoutWhileClosing
  BY <1>2, <1>6 DEF ConnectFails, TimeoutWhileConnecting, TimeoutWhileClosing
<1> QED
  BY <1>1, <1>3, <1>4, <1>5, <1>6 DEF Next, HA, Connect, Timeout

(* The call implements, for every budget, the contract its callers rely on.*)
THEOREM Refinement == Spec => Contract!Spec
<1>1. Init => Contract!Init
  BY DEF Init, Contract!Init
<1>2. IInv /\ IInv' /\ [Next]_vars => [Contract!Next]_(Contract!vars)
  BY ContractStep
<1> QED
  BY <1>1, <1>2, Invariance, PTL DEF Spec, Contract!Spec
============================================================================

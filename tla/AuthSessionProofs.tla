-------------------------- MODULE AuthSessionProofs --------------------------
(***************************************************************************)
(* The types of AuthSession, CookieIsReplaced, and what browser and server *)
(* agree on between calls, for any number of calls, tokens and faults.     *)
(* CookieIsReplaced is not inductive: that the answer on its way brings a  *)
(* token nobody has revoked rests on the token being known to nobody else  *)
(* until then, and that the answer is not dropped on the browser waiting   *)
(* for it.                                                                 *)
(***************************************************************************)
EXTENDS AuthSession, TLAPS

\* Unless something was lost, whoever a handler serves waits for its answer.
HandlersAreAwaited ==
  \A c \in Calls : handlers[c].pc # "idle" => calls[c].pc = "waiting"

\* A token that was issued and not answered yet is in force, and no cookie,
\* no request and no other answer has it.
Fresh(c) ==
  /\ handlers[c].pc = "answer"
  /\ handlers[c].issued \in 1..Len(revoked)
  /\ revoked[handlers[c].issued] = FALSE
  /\ handlers[c].issued # cookie
  /\ \A d \in Calls : handlers[d].sent # handlers[c].issued
  /\ \A d \in Calls : d # c => handlers[d].issued # handlers[c].issued

IssuedAreFresh == \A c \in Calls : handlers[c].issued # 0 => Fresh(c)

Undisturbed == HandlersAreAwaited /\ IssuedAreFresh /\ CookieIsReplaced

IInv == TypeOK /\ (faults = 0 => Undisturbed)

(***************************************************************************)
(* Types.                                                                  *)
(***************************************************************************)
LEMMA TypeInit == Init => TypeOK
<1> SUFFICES ASSUME Init PROVE TypeOK
  OBVIOUS
<1>1. Len(revoked) = 0 /\ revoked \in Seq(BOOLEAN)
  BY DEF Init
<1>2. HandlersType
  BY <1>1 DEF Init, HandlersType, HandlerRecords, NoHandler, Tokens
<1>3. CallsType
  BY <1>1 DEF Init, CallsType, CallRecords, NoCall, Tokens
<1>4. expired \in Tokens /\ cookie \in Tokens /\ session \in Tokens
  BY <1>1 DEF Init, Tokens
<1>5. faults \in 0..MaxFaults
  BY BoundsAssumption DEF Init
<1> QED
  BY <1>1, <1>2, <1>3, <1>4, <1>5, Zenon DEF Init, TypeOK

\* A step that writes one handler or one call.
LEMMA HandlersUpdate ==
  ASSUME HandlersType, Tokens \subseteq Tokens',
         NEW c \in Calls, NEW h \in HandlerRecords',
         handlers' = [handlers EXCEPT ![c] = h]
  PROVE  HandlersType'
  BY DEF HandlersType, HandlerRecords

LEMMA CallsUpdate ==
  ASSUME CallsType, Tokens \subseteq Tokens',
         NEW c \in Calls, NEW u \in CallRecords',
         calls' = [calls EXCEPT ![c] = u]
  PROVE  CallsType'
  BY DEF CallsType, CallRecords

\* What a step that issues no token leaves to show.
LEMMA SameTokens ==
  ASSUME TypeOK, UNCHANGED revoked
  PROVE  Tokens' = Tokens /\ HandlerRecords' = HandlerRecords /\ CallRecords' = CallRecords
  BY DEF Tokens, HandlerRecords, CallRecords

LEMMA SendType ==
  ASSUME TypeOK, NEW c \in Calls,
         NEW kind \in {"refresh", "login", "logout"},
         NEW pc \in {"find", "revoke", "store", "answer"},
         Send(c, kind, pc), UNCHANGED revoked
  PROVE  HandlersType'
<1>1. PICK h : h = [kind |-> kind, pc |-> pc, sent |-> cookie, issued |-> 0]
  OBVIOUS
<1>2. h \in HandlerRecords
  BY <1>1 DEF HandlerRecords, TypeOK, Tokens
<1> QED
  BY <1>1, <1>2, HandlersUpdate, SameTokens DEF Send, TypeOK

LEMMA StepType ==
  ASSUME TypeOK, NEW c \in Calls, NEW from,
         NEW to \in {"revoke", "store", "answer"},
         Step(c, from, to), Tokens \subseteq Tokens'
  PROVE  HandlersType'
<1>1. PICK h : h = [handlers[c] EXCEPT !.pc = to]
  OBVIOUS
<1>2. h \in HandlerRecords'
  BY <1>1 DEF HandlerRecords, TypeOK, HandlersType
<1> QED
  BY <1>1, <1>2, HandlersUpdate DEF Step, TypeOK

LEMMA BeginType ==
  ASSUME TypeOK, NEW c \in Calls,
         NEW kind \in {"fetch", "login", "logout"},
         NEW pc \in {"fetching", "waiting"},
         NEW token \in Tokens,
         Begin(c, kind, pc, token), UNCHANGED revoked
  PROVE  CallsType' /\ raced' \in BOOLEAN
<1>1. PICK u : u = [kind |-> kind, pc |-> pc, token |-> token]
  OBVIOUS
<1>2. u \in CallRecords
  BY <1>1 DEF CallRecords
<1> QED
  BY <1>1, <1>2, CallsUpdate, SameTokens DEF Begin, TypeOK

LEMMA TypeStep == TypeOK /\ [Next]_vars => TypeOK'
<1> SUFFICES ASSUME TypeOK, [Next]_vars PROVE TypeOK'
  OBVIOUS
<1>1. ASSUME NEW c \in Calls, AuthorizedFetch(c) PROVE TypeOK'
  BY <1>1, BeginType, SameTokens DEF AuthorizedFetch, TypeOK, HandlersType, server
<1>2. ASSUME NEW c \in Calls, Login(c) PROVE TypeOK'
  BY <1>2, BeginType, SendType, SameTokens DEF Login, LoginOutcomes, TypeOK, Tokens
<1>3. ASSUME NEW c \in Calls, Logout(c) PROVE TypeOK'
  BY <1>3, BeginType, SendType, SameTokens DEF Logout, TypeOK, Tokens
<1>4. ASSUME NEW c \in Calls, FetchDone(c) PROVE TypeOK'
  <2>1. NoCall \in CallRecords
    BY DEF NoCall, CallRecords, TypeOK, Tokens
  <2> QED
    BY <1>4, <2>1, CallsUpdate, SameTokens DEF FetchDone, TypeOK, HandlersType, server
<1>5. ASSUME NEW c \in Calls, Refresh(c) PROVE TypeOK'
  <2>1. PICK u : u = [calls[c] EXCEPT !.pc = "waiting"]
    OBVIOUS
  <2>2. u \in CallRecords
    BY <2>1 DEF CallRecords, TypeOK, CallsType
  <2>3. CallsType'
    BY <1>5, <2>1, <2>2, CallsUpdate, SameTokens DEF Refresh, TypeOK
  <2> QED
    BY <1>5, <2>3, SendType, SameTokens DEF Refresh, TypeOK
<1>6. ASSUME NEW c \in Calls, Settle(c) PROVE TypeOK'
  <2>1. NoCall \in CallRecords
    BY DEF NoCall, CallRecords, TypeOK, Tokens
  <2>2. CallsType' /\ HandlersType'
    BY <1>6, <2>1, CallsUpdate, SameTokens DEF Settle, TypeOK, HandlersType, server
  <2>3. session' \in Tokens
    BY <1>6 DEF Settle, Settled, TypeOK, CallsType, CallRecords
  <2> QED
    BY <1>6, <2>2, <2>3, SameTokens DEF Settle, TypeOK, server
<1>7. ASSUME NEW c \in Calls, Find(c) PROVE TypeOK'
  BY <1>7, StepType, SameTokens DEF Find, TypeOK, CallsType, browser
<1>8. ASSUME NEW c \in Calls, Revoke(c) PROVE TypeOK'
  <2>1. revoked' \in Seq(BOOLEAN) /\ Len(revoked') = Len(revoked)
    <3>1. PICK n \in Nat : n = Len(revoked) /\ revoked \in [1..n -> BOOLEAN]
      BY DEF TypeOK
    <3>2. revoked' \in [1..n -> BOOLEAN]
      BY <1>8, <3>1, Zenon DEF Revoke
    <3> QED
      BY <3>1, <3>2
  <2>2. Tokens' = Tokens /\ CallRecords' = CallRecords
    BY <2>1 DEF Tokens, CallRecords
  <2> QED
    BY <1>8, <2>1, <2>2, StepType DEF Revoke, TypeOK, CallsType, browser
<1>9. ASSUME NEW c \in Calls, Store(c) PROVE TypeOK'
  <2>1. /\ revoked' \in Seq(BOOLEAN) /\ Len(revoked') = Len(revoked) + 1
        /\ Len(revoked) \in Nat
    BY <1>9 DEF Store, TypeOK
  <2>2. Tokens \subseteq Tokens' /\ Len(revoked) + 1 \in Tokens'
    BY <2>1 DEF Tokens
  <2>3. PICK h : h = [handlers[c] EXCEPT !.pc = "answer", !.issued = Len(revoked) + 1]
    OBVIOUS
  <2>4. h \in HandlerRecords'
    BY <2>2, <2>3 DEF HandlerRecords, TypeOK, HandlersType
  <2>5. HandlersType'
    BY <1>9, <2>2, <2>3, <2>4, HandlersUpdate DEF Store, TypeOK
  <2>6. CallsType'
    BY <1>9, <2>2 DEF Store, TypeOK, CallsType, CallRecords, browser
  <2> QED
    BY <1>9, <2>1, <2>2, <2>5, <2>6 DEF Store, TypeOK, browser
<1>10. ASSUME NEW c \in Calls, Answer(c) PROVE TypeOK'
  <2>1. NoHandler \in HandlerRecords
    BY DEF NoHandler, HandlerRecords, TypeOK, Tokens
  <2>2. HandlersType'
    BY <1>10, <2>1, HandlersUpdate, SameTokens DEF Answer, TypeOK
  <2>3. CASE calls[c].pc = "waiting"
    <3>1. handlers[c].issued \in Tokens
      BY DEF TypeOK, HandlersType, HandlerRecords
    <3>2. cookie' \in Tokens
      BY <1>10, <2>3, <3>1 DEF Answer, NewCookie, TypeOK, Tokens
    <3>3. PICK u : u = [calls[c] EXCEPT !.pc = "settled", !.token = handlers[c].issued]
      OBVIOUS
    <3>4. u \in CallRecords
      BY <3>1, <3>3 DEF CallRecords, TypeOK, CallsType
    <3>5. calls' = [calls EXCEPT ![c] = u]
      BY <1>10, <2>3, <3>3 DEF Answer, TypeOK, CallsType
    <3>6. CallsType'
      BY <1>10, <3>4, <3>5, CallsUpdate, SameTokens DEF Answer, TypeOK
    <3> QED
      BY <1>10, <2>2, <3>2, <3>6, SameTokens DEF Answer, TypeOK
  <2>4. CASE calls[c].pc # "waiting"
    BY <1>10, <2>2, <2>4, SameTokens DEF Answer, TypeOK, CallsType
  <2> QED
    BY <2>3, <2>4
<1>11. ASSUME NEW c \in Calls, QueryFails(c) PROVE TypeOK'
  <2>1. PICK h : h = [handlers[c] EXCEPT !.pc = "answer"]
    OBVIOUS
  <2>2. h \in HandlerRecords
    BY <2>1 DEF HandlerRecords, TypeOK, HandlersType
  <2>3. HandlersType'
    BY <1>11, <2>1, <2>2, HandlersUpdate, SameTokens DEF QueryFails, TypeOK
  <2>4. faults' \in 0..MaxFaults
    BY <1>11, BoundsAssumption DEF QueryFails, Fault, TypeOK
  <2> QED
    BY <1>11, <2>3, <2>4, SameTokens DEF QueryFails, TypeOK, CallsType, browser
<1>12. ASSUME NEW c \in Calls, Lose(c) PROVE TypeOK'
  <2>1. NoHandler \in HandlerRecords
    BY DEF NoHandler, HandlerRecords, TypeOK, Tokens
  <2>2. HandlersType'
    BY <1>12, <2>1, HandlersUpdate, SameTokens DEF Lose, TypeOK, HandlersType
  <2>3. PICK u : u = [calls[c] EXCEPT !.pc = "settled", !.token = 0]
    OBVIOUS
  <2>4. u \in CallRecords
    <3>1. 0 \in Tokens
      BY DEF TypeOK, Tokens
    <3> QED
      BY <2>3, <3>1 DEF CallRecords, TypeOK, CallsType
  <2>5. CallsType'
    <3>1. calls' = [calls EXCEPT ![c] = u]
      BY <1>12, <2>3 DEF Lose, TypeOK, CallsType
    <3> QED
      BY <1>12, <2>4, <3>1, CallsUpdate, SameTokens DEF Lose, TypeOK
  <2>6. faults' \in 0..MaxFaults
    BY <1>12, BoundsAssumption DEF Lose, Fault, TypeOK
  <2> QED
    BY <1>12, <2>2, <2>5, <2>6, SameTokens DEF Lose, TypeOK
<1>13. ASSUME NEW c \in Calls, Limited(c) PROVE TypeOK'
  <2>1. faults' \in 0..MaxFaults
    BY <1>13, BoundsAssumption DEF Limited, Fault, TypeOK
  <2>2. CASE calls[c].pc = "fetching" /\ calls' = [calls EXCEPT ![c] = NoCall] /\ UNCHANGED handlers
    <3>1. NoCall \in CallRecords
      BY DEF NoCall, CallRecords, TypeOK, Tokens
    <3> QED
      BY <1>13, <2>1, <2>2, <3>1, CallsUpdate, SameTokens DEF Limited, TypeOK, HandlersType
  <2>3. CASE /\ calls' = [calls EXCEPT ![c].pc = "settled", ![c].token = 0]
             /\ handlers' = [handlers EXCEPT ![c] = NoHandler]
    <3>1. NoHandler \in HandlerRecords
      BY DEF NoHandler, HandlerRecords, TypeOK, Tokens
    <3>2. HandlersType'
      BY <1>13, <2>3, <3>1, HandlersUpdate, SameTokens DEF Limited, TypeOK, HandlersType
    <3>3. PICK u : u = [calls[c] EXCEPT !.pc = "settled", !.token = 0]
      OBVIOUS
    <3>4. u \in CallRecords
      <4>1. 0 \in Tokens
        BY DEF TypeOK, Tokens
      <4> QED
        BY <3>3, <4>1 DEF CallRecords, TypeOK, CallsType
    <3>5. CallsType'
      <4>1. calls' = [calls EXCEPT ![c] = u]
        BY <2>3, <3>3 DEF TypeOK, CallsType
      <4> QED
        BY <1>13, <3>4, <4>1, CallsUpdate, SameTokens DEF Limited, TypeOK
    <3> QED
      BY <1>13, <2>1, <3>2, <3>5, SameTokens DEF Limited, TypeOK
  <2> QED
    BY <1>13, <2>2, <2>3 DEF Limited
<1>14. CASE Expire
  BY <1>14, SameTokens DEF Expire, TypeOK, HandlersType, CallsType, Tokens, server, browser
<1>15. CASE Reload
  <2>1. NoCall \in CallRecords
    BY DEF NoCall, CallRecords, TypeOK, Tokens
  <2>2. faults' \in 0..MaxFaults
    BY <1>15, BoundsAssumption DEF Reload, Fault, TypeOK
  <2> QED
    BY <1>15, <2>1, <2>2, SameTokens DEF Reload, TypeOK, HandlersType, CallsType, server
<1>16. CASE UNCHANGED vars
  BY <1>16, SameTokens DEF vars, server, browser, TypeOK, HandlersType, CallsType
<1> QED
  BY <1>1, <1>2, <1>3, <1>4, <1>5, <1>6, <1>7, <1>8, <1>9, <1>10, <1>11,
     <1>12, <1>13, <1>14, <1>15, <1>16 DEF Next, Use, Progress

\* The table, the calls and their handlers keep their types.
THEOREM Types == Spec => []TypeOK
  BY TypeInit, TypeStep, PTL DEF Spec

(***************************************************************************)
(* CookieIsReplaced.                                                       *)
(***************************************************************************)
\* A step of the browser alone.
LEMMA BrowserStep ==
  ASSUME Undisturbed, UNCHANGED <<server, cookie, faults>>,
         \A c \in Calls : handlers[c].pc # "idle" => UNCHANGED calls[c]
  PROVE  Undisturbed'
  BY DEF Undisturbed, HandlersAreAwaited, IssuedAreFresh, Fresh, CookieIsReplaced,
         Active, Replaces, server

\* A new request: its handler has the cookie, which no answer on its way has.
LEMMA SendStep ==
  ASSUME TypeOK, Undisturbed, UNCHANGED <<revoked, cookie, faults>>,
         NEW c \in Calls, handlers[c].pc = "idle",
         NEW kind, NEW pc, pc \in {"find", "revoke", "store", "answer"}, Send(c, kind, pc),
         calls'[c].pc = "waiting",
         \A d \in Calls \ {c} : UNCHANGED calls[d]
  PROVE  Undisturbed'
<1>1. /\ handlers'[c] = [kind |-> kind, pc |-> pc, sent |-> cookie, issued |-> 0]
      /\ \A d \in Calls \ {c} : UNCHANGED handlers[d]
  BY DEF Send, TypeOK, HandlersType
<1>2. HandlersAreAwaited'
  BY <1>1 DEF Undisturbed, HandlersAreAwaited
<1>3. IssuedAreFresh'
  BY <1>1 DEF Undisturbed, IssuedAreFresh, Fresh
<1>4. CookieIsReplaced'
  BY <1>1 DEF Undisturbed, CookieIsReplaced, Replaces, Active
<1> QED
  BY <1>2, <1>3, <1>4 DEF Undisturbed

LEMMA FindStep ==
  ASSUME TypeOK, faults = 0, Undisturbed, NEW c \in Calls, Find(c)
  PROVE  Undisturbed'
<1>1. /\ handlers'[c].pc \in {"revoke", "answer"} /\ handlers[c].pc = "find"
      /\ handlers'[c].sent = handlers[c].sent
      /\ handlers'[c].issued = handlers[c].issued
      /\ handlers'[c].kind = handlers[c].kind
      /\ \A d \in Calls \ {c} : UNCHANGED handlers[d]
  BY DEF Find, Step, TypeOK, HandlersType, HandlerRecords
<1>2. HandlersAreAwaited'
  BY <1>1 DEF Undisturbed, HandlersAreAwaited, Find, browser
<1>3. handlers[c].issued = 0
  BY <1>1 DEF Undisturbed, IssuedAreFresh, Fresh
<1>4. IssuedAreFresh'
  BY <1>1, <1>3 DEF Undisturbed, IssuedAreFresh, Fresh, Find, browser
<1>5. CookieIsReplaced'
  BY <1>1, <1>3 DEF Undisturbed, CookieIsReplaced, Replaces, Active, Find, browser
<1> QED
  BY <1>2, <1>4, <1>5 DEF Undisturbed

\* Revoking the cookie's token is the beginning of replacing it; the tokens
\* on their way were sent by nobody and stay in force.
LEMMA RevokeStep ==
  ASSUME TypeOK, faults = 0, Undisturbed, NEW c \in Calls, Revoke(c)
  PROVE  Undisturbed'
<1>1. /\ handlers[c].pc = "revoke"
      /\ handlers'[c].pc = IF handlers[c].kind = "logout" THEN "answer" ELSE "store"
      /\ handlers'[c].sent = handlers[c].sent
      /\ handlers'[c].issued = handlers[c].issued
      /\ handlers'[c].kind = handlers[c].kind
      /\ \A d \in Calls \ {c} : UNCHANGED handlers[d]
  BY DEF Revoke, Step, TypeOK, HandlersType, HandlerRecords
<1>2. HandlersAreAwaited'
  BY <1>1 DEF Undisturbed, HandlersAreAwaited, Revoke, browser
<1>3. handlers[c].issued = 0
  BY <1>1 DEF Undisturbed, IssuedAreFresh, Fresh
<1>4. /\ Len(revoked') = Len(revoked)
      /\ \A t \in 1..Len(revoked) : t # handlers[c].sent => revoked'[t] = revoked[t]
  BY DEF Revoke, TypeOK
<1>5. IssuedAreFresh'
  BY <1>1, <1>3, <1>4 DEF Undisturbed, IssuedAreFresh, Fresh, Revoke, browser
<1>6. CookieIsReplaced'
  <2>1. CASE cookie = handlers[c].sent
    BY <1>1, <2>1 DEF CookieIsReplaced, Replaces, Revoke, browser
  <2>2. CASE cookie # handlers[c].sent
    <3>1. cookie # 0 => Active(cookie)' = Active(cookie)
      BY <1>4, <2>2 DEF Active, TypeOK, Tokens, Revoke, browser
    <3> QED
      BY <1>1, <3>1 DEF Undisturbed, CookieIsReplaced, Replaces, Revoke, browser
  <2> QED
    BY <2>1, <2>2
<1> QED
  BY <1>2, <1>5, <1>6 DEF Undisturbed

LEMMA StoreStep ==
  ASSUME TypeOK, faults = 0, Undisturbed, NEW c \in Calls, Store(c)
  PROVE  Undisturbed'
<1>1. /\ handlers[c].pc = "store" /\ handlers'[c].pc = "answer"
      /\ handlers'[c].sent = handlers[c].sent
      /\ handlers'[c].issued = Len(revoked) + 1
      /\ \A d \in Calls \ {c} : UNCHANGED handlers[d]
  BY DEF Store, TypeOK, HandlersType, HandlerRecords
<1>2. HandlersAreAwaited'
  BY <1>1 DEF Undisturbed, HandlersAreAwaited, Store, browser
<1>3. /\ Len(revoked) \in Nat /\ Len(revoked') = Len(revoked) + 1
      /\ revoked'[Len(revoked) + 1] = FALSE
      /\ \A t \in 1..Len(revoked) : revoked'[t] = revoked[t]
  BY DEF Store, TypeOK
<1>4. /\ cookie \in 0..Len(revoked)
      /\ \A d \in Calls : handlers[d].sent \in 0..Len(revoked)
                        /\ handlers[d].issued \in 0..Len(revoked)
  BY DEF TypeOK, HandlersType, HandlerRecords, Tokens
<1>5. /\ UNCHANGED <<cookie, faults>>
      /\ \A d \in Calls : handlers'[d].sent = handlers[d].sent
      /\ \A d \in Calls \ {c} : /\ handlers'[d].issued = handlers[d].issued
                              /\ handlers'[d].pc = handlers[d].pc
  BY <1>1 DEF Store, browser
<1>6. IssuedAreFresh'
  <2>1. Fresh(c)'
    <3>1. \A d \in Calls : handlers'[d].sent # Len(revoked) + 1
      BY <1>3, <1>4, <1>5
    <3>2. \A d \in Calls : d # c => handlers'[d].issued # Len(revoked) + 1
      BY <1>3, <1>4, <1>5
    <3>3. Len(revoked) + 1 \in 1..Len(revoked') /\ cookie' # Len(revoked) + 1
      BY <1>3, <1>4, <1>5
    <3> QED
      BY <1>1, <1>3, <3>1, <3>2, <3>3 DEF Fresh
  <2>2. ASSUME NEW d \in Calls \ {c}, handlers[d].issued # 0
        PROVE  Fresh(d)'
    <3>1. Fresh(d)
      BY <2>2 DEF Undisturbed, IssuedAreFresh
    <3>2. PICK t : t = handlers[d].issued
      OBVIOUS
    <3>3. t \in 1..Len(revoked) /\ t \in 1..Len(revoked') /\ revoked'[t] = FALSE
      BY <1>3, <3>1, <3>2 DEF Fresh
    <3>4. t # Len(revoked) + 1
      BY <1>3, <3>3
    <3> QED
      BY <1>1, <1>5, <2>2, <3>1, <3>2, <3>3, <3>4 DEF Fresh
  <2> QED
    BY <1>1, <1>5, <2>1, <2>2 DEF IssuedAreFresh
<1>7. CookieIsReplaced'
  <2>1. cookie # 0 => revoked'[cookie] = revoked[cookie]
    BY <1>3, <1>4
  <2>2. cookie # 0 => Active(cookie)' = Active(cookie)
    BY <1>5, <2>1, Zenon DEF Active
  <2>3. Replaces(handlers[c]) /\ Replaces(handlers'[c])
    BY <1>1, <1>3 DEF Replaces
  <2> QED
    BY <1>1, <1>5, <2>2, <2>3 DEF Undisturbed, CookieIsReplaced, Replaces
<1> QED
  BY <1>2, <1>6, <1>7 DEF Undisturbed

\* The browser still waits, so the cookie of the answer is set: a token that
\* was on its way, none, or the one it has if the answer is a refusal.
LEMMA AnswerStep ==
  ASSUME TypeOK, faults = 0, Undisturbed, NEW c \in Calls, Answer(c)
  PROVE  Undisturbed'
<1>1. /\ handlers[c].pc = "answer" /\ handlers'[c] = NoHandler
      /\ \A d \in Calls \ {c} : UNCHANGED handlers[d]
      /\ UNCHANGED <<revoked, faults>>
  BY DEF Answer, TypeOK, HandlersType
<1>2. /\ cookie' = NewCookie(handlers[c])
      /\ \A d \in Calls \ {c} : UNCHANGED calls[d]
  BY <1>1 DEF Answer, Undisturbed, HandlersAreAwaited, TypeOK, CallsType
<1>3. HandlersAreAwaited'
  BY <1>1, <1>2 DEF Undisturbed, HandlersAreAwaited, NoHandler
<1>4. CASE handlers[c].issued # 0
  <2>1. Fresh(c) /\ cookie' = handlers[c].issued
    BY <1>2, <1>4 DEF Undisturbed, IssuedAreFresh, NewCookie
  <2>2. ASSUME NEW d \in Calls \ {c}, handlers[d].issued # 0
        PROVE  Fresh(d)'
    <3>1. Fresh(d)
      BY <2>2 DEF Undisturbed, IssuedAreFresh
    <3> QED
      BY <1>1, <2>1, <2>2, <3>1 DEF Fresh, NoHandler
  <2>3. IssuedAreFresh'
    BY <1>1, <2>2 DEF IssuedAreFresh, NoHandler
  <2>4. CookieIsReplaced'
    BY <1>1, <2>1 DEF CookieIsReplaced, Active, Fresh
  <2> QED
    BY <1>3, <2>3, <2>4 DEF Undisturbed
<1>5. CASE handlers[c].issued = 0
  <2>1. cookie' \in {0, cookie}
    <3>1. CASE handlers[c].kind = "logout"
      BY <1>2, <1>5, <3>1 DEF NewCookie
    <3>2. CASE handlers[c].kind # "logout"
      BY <1>2, <1>5, <3>2 DEF NewCookie
    <3> QED
      BY <3>1, <3>2
  <2>2. IssuedAreFresh'
    BY <1>1, <1>5, <2>1 DEF Undisturbed, IssuedAreFresh, Fresh, NoHandler, TypeOK
  <2>3. CookieIsReplaced'
    <3>1. CASE handlers[c].kind = "logout"
      BY <1>2, <1>5, <3>1 DEF NewCookie, CookieIsReplaced
    <3>2. CASE handlers[c].kind # "logout"
      <4>1. cookie' = cookie /\ ~Replaces(handlers[c])
        BY <1>1, <1>2, <1>5, <3>2 DEF NewCookie, Replaces
      <4> QED
        BY <1>1, <4>1 DEF Undisturbed, CookieIsReplaced, Active, Replaces
    <3> QED
      BY <3>1, <3>2
  <2> QED
    BY <1>3, <2>2, <2>3 DEF Undisturbed
<1> QED
  BY <1>4, <1>5

LEMMA UndisturbedStep ==
  ASSUME TypeOK, faults = 0 => Undisturbed, [Next]_vars, faults' = 0
  PROVE  Undisturbed'
<1>1. faults = 0 /\ Undisturbed /\ ~Fault
  <2>1. faults \in Nat
    BY DEF TypeOK
  <2>2. ~Fault
    BY <2>1 DEF Fault
  <2>3. UNCHANGED faults
    BY <2>2 DEF Next, vars, Use, Progress, AuthorizedFetch, Login, Logout, FetchDone,
                Refresh, Settle, Find, Revoke, Store, Answer, Expire, QueryFails, Lose,
                Limited, Reload
  <2> QED
    BY <2>2, <2>3
<1>2. ASSUME NEW c \in Calls, AuthorizedFetch(c) PROVE Undisturbed'
  BY <1>1, <1>2, BrowserStep DEF AuthorizedFetch, Begin, Idle, TypeOK, CallsType
<1>3. ASSUME NEW c \in Calls, Login(c) PROVE Undisturbed'
  BY <1>1, <1>3, SendStep DEF Login, LoginOutcomes, Begin, Idle, TypeOK, CallsType, CallRecords
<1>4. ASSUME NEW c \in Calls, Logout(c) PROVE Undisturbed'
  BY <1>1, <1>4, SendStep DEF Logout, Begin, Idle, TypeOK, CallsType, CallRecords
<1>5. ASSUME NEW c \in Calls, FetchDone(c) PROVE Undisturbed'
  BY <1>1, <1>5, BrowserStep DEF FetchDone, Undisturbed, HandlersAreAwaited, TypeOK, CallsType
<1>6. ASSUME NEW c \in Calls, Refresh(c) PROVE Undisturbed'
  <2>1. handlers[c].pc = "idle"
    BY <1>1, <1>6 DEF Refresh, Undisturbed, HandlersAreAwaited
  <2> QED
    BY <1>1, <1>6, <2>1, SendStep DEF Refresh, TypeOK, CallsType, CallRecords
<1>7. ASSUME NEW c \in Calls, Settle(c) PROVE Undisturbed'
  BY <1>1, <1>7, BrowserStep DEF Settle, Undisturbed, HandlersAreAwaited, TypeOK, CallsType
<1>8. CASE Expire
  BY <1>1, <1>8, BrowserStep DEF Expire, browser
<1>9. CASE UNCHANGED vars
  BY <1>1, <1>9, BrowserStep DEF vars, browser
<1> QED
  BY <1>1, <1>2, <1>3, <1>4, <1>5, <1>6, <1>7, <1>8, <1>9,
     FindStep, RevokeStep, StoreStep, AnswerStep
  DEF Next, Use, Progress, QueryFails, Lose, Limited, Reload

\* However calls overlap, the browser is never left with a revoked refresh
\* token unless something was lost (CookieIsReplaced), for any number of calls.
THEOREM Replacement == Spec => []CookieIsReplaced
<1>1. Init => Undisturbed
  BY DEF Init, Undisturbed, HandlersAreAwaited, IssuedAreFresh, CookieIsReplaced,
         NoHandler
<1>2. Init => IInv
  BY <1>1, TypeInit DEF IInv
<1>3. IInv /\ [Next]_vars => IInv'
  BY TypeStep, UndisturbedStep DEF IInv
<1>4. IInv => CookieIsReplaced
  BY DEF IInv, Undisturbed, CookieIsReplaced
<1> QED
  BY <1>2, <1>3, <1>4, PTL DEF Spec

(***************************************************************************)
(* Calls that do not overlap. The two properties speak of the moments      *)
(* between calls, so their invariant says what the one call in progress    *)
(* has made of the session, the cookie and the table at each of its steps. *)
(* A handler that was lost and goes on for nobody can only revoke: by then *)
(* the session is gone (Refreshable). Without faults the call knows the    *)
(* one token in force (Serial).                                            *)
(***************************************************************************)
Alone == \A c, d \in Calls : ~Idle(c) /\ ~Idle(d) => c = d

Kept == session = cookie /\ Active(cookie)

Refreshable(c) ==
  \/ calls[c].pc = "idle" /\ (handlers[c].pc # "idle" => session = 0)
  \/ calls[c].pc = "fetching" /\ calls[c].kind = "fetch" /\ handlers[c].pc = "idle" /\ Kept
  \/ /\ calls[c].pc = "waiting" /\ handlers[c].pc # "idle"
     /\ handlers[c].issued # 0 => handlers[c].pc = "answer" /\ Active(handlers[c].issued)
     /\ calls[c].kind = "login" => session = 0
  \/ /\ calls[c].pc = "settled"
     /\ calls[c].token # 0 =>
          handlers[c].pc = "idle" /\ calls[c].token = cookie /\ Active(cookie)
     /\ calls[c].kind = "login" /\ calls[c].token = 0 => session = 0

\* The token is the only one in force, or none is and it is 0.
Only(token) == {t \in 1..Len(revoked) : Active(t)} = {token} \ {0}

BeforeRevoke(c) ==
  /\ handlers[c].pc \in {"find", "revoke"} /\ handlers[c].issued = 0
  /\ handlers[c].sent = cookie /\ cookie # 0 /\ Only(cookie)
  /\ calls[c].kind # "login"

BeforeStore(c) == handlers[c].pc = "store" /\ handlers[c].issued = 0 /\ Only(0)

BeforeAnswer(c) ==
  /\ handlers[c].pc = "answer" /\ Only(handlers[c].issued)
  /\ handlers[c].issued = 0 => handlers[c].kind = "logout" \/ cookie = 0

Serial(c) ==
  \/ Idle(c)
  \/ /\ calls[c].pc = "fetching" /\ calls[c].kind = "fetch" /\ handlers[c].pc = "idle"
     /\ session = cookie /\ session # 0 /\ Only(cookie)
  \/ /\ calls[c].pc = "waiting"
     /\ BeforeRevoke(c) \/ BeforeStore(c) \/ BeforeAnswer(c)
     /\ calls[c].kind = "login" => session = 0
  \/ /\ calls[c].pc = "settled" /\ handlers[c].pc = "idle"
     /\ cookie = calls[c].token /\ Only(cookie)
     /\ calls[c].kind = "login" /\ calls[c].token = 0 => session = 0

OneByOne ==
  ~raced => Alone /\ SessionCanRefresh /\ \A c \in Calls : Refreshable(c)

Undropped ==
  ~raced /\ faults = 0 => SerialSession /\ \A c \in Calls : Serial(c)

Agreed == session = cookie /\ Only(session)

\* What a step of one call leaves of the others.
OthersStay(c) == \A d \in Calls \ {c} : UNCHANGED <<calls[d], handlers[d]>>

Turn(c) == ~Idle(c) \/ Quiet

LEMMA OneByOneStep ==
  ASSUME OneByOne, ~raced, NEW c \in Calls, Turn(c), OthersStay(c),
         Refreshable(c)', Idle(c)' => (session' # 0 => Kept')
  PROVE  OneByOne'
<1>1. \A d \in Calls \ {c} : Idle(d) /\ Idle(d)'
  BY DEF OneByOne, Turn, Quiet, Alone, OthersStay, Idle
<1>2. Alone'
  BY <1>1 DEF Alone
<1>3. \A d \in Calls : Refreshable(d)'
  BY <1>1 DEF Refreshable, Idle
<1>4. SessionCanRefresh'
  BY DEF SessionCanRefresh, Quiet, Kept
<1> QED
  BY <1>2, <1>3, <1>4 DEF OneByOne

LEMMA UndroppedStep ==
  ASSUME OneByOne, ~raced, NEW c \in Calls, Turn(c), OthersStay(c),
         Serial(c)', Idle(c)' => Agreed'
  PROVE  Undropped'
<1>1. \A d \in Calls \ {c} : Idle(d)'
  BY DEF OneByOne, Turn, Quiet, Alone, OthersStay, Idle
<1>2. \A d \in Calls : Serial(d)'
  BY <1>1 DEF Serial
<1>3. SerialSession'
  BY DEF SerialSession, Quiet, Agreed, Only
<1> QED
  BY <1>2, <1>3 DEF Undropped

\* The tables of calls and handlers after a write.
LEMMA Written ==
  ASSUME TypeOK, NEW c \in Calls, NEW h, NEW u
  PROVE  /\ [handlers EXCEPT ![c] = h][c] = h /\ [calls EXCEPT ![c] = u][c] = u
         /\ \A d \in Calls \ {c} : [handlers EXCEPT ![c] = h][d] = handlers[d]
                                /\ [calls EXCEPT ![c] = u][d] = calls[d]
BY DEF TypeOK, HandlersType, CallsType

LEMMA Begun ==
  ASSUME TypeOK, OneByOne, NEW c \in Calls, NEW kind, NEW pc, NEW token,
         Begin(c, kind, pc, token), ~raced'
  PROVE  /\ ~raced /\ Quiet
         /\ calls'[c] = [kind |-> kind, pc |-> pc, token |-> token]
         /\ \A d \in Calls \ {c} : UNCHANGED calls[d]
         /\ session # 0 => Kept
         /\ faults = 0 /\ Undropped => Agreed
<1>1. ~raced /\ Quiet
  BY DEF Begin, TypeOK
<1>2. session # 0 => Kept
  BY <1>1 DEF OneByOne, SessionCanRefresh, Kept
<1>3. faults = 0 /\ Undropped => Agreed
  BY <1>1 DEF Undropped, SerialSession, Agreed, Only
<1>4. /\ calls'[c] = [kind |-> kind, pc |-> pc, token |-> token]
      /\ \A d \in Calls \ {c} : UNCHANGED calls[d]
  BY Written DEF Begin
<1> QED
  BY <1>1, <1>2, <1>3, <1>4

LEMMA Sent ==
  ASSUME TypeOK, NEW c \in Calls, NEW kind, NEW pc, Send(c, kind, pc)
  PROVE  /\ handlers'[c] = [kind |-> kind, pc |-> pc, sent |-> cookie, issued |-> 0]
         /\ \A d \in Calls \ {c} : UNCHANGED handlers[d]
BY Written DEF Send

\* What a step of the table says of the tokens in force.
LEMMA OneToken ==
  ASSUME TypeOK, NEW token \in Tokens, token # 0, Only(token)
  PROVE  Active(token)
BY DEF Only, Tokens

LEMMA SameTable ==
  ASSUME UNCHANGED revoked, NEW token
  PROVE  Only(token)' = Only(token) /\ Active(token)' = Active(token)
BY DEF Only, Active

LEMMA RevokedNone ==
  ASSUME TypeOK, NEW token \in Tokens, token # 0, Only(token),
         revoked' = [revoked EXCEPT ![token] = TRUE]
  PROVE  Only(0)'
<1>1. PICK n \in Nat : n = Len(revoked) /\ DOMAIN revoked = 1..n
  BY DEF TypeOK
<1>2. DOMAIN revoked' = 1..n /\ Len(revoked') = n
  BY <1>1 DEF TypeOK
<1>3. ASSUME NEW t \in 1..n, Active(t)'
      PROVE  FALSE
  <2>1. t # token
    BY <1>1, <1>3 DEF Active
  <2>2. revoked'[t] = revoked[t]
    BY <1>1, <2>1
  <2>3. Active(t)
    BY <1>3, <2>2 DEF Active
  <2> QED
    BY <1>1, <2>1, <2>3 DEF Only
<1> QED
  BY <1>2, <1>3 DEF Only

LEMMA StoredOne ==
  ASSUME TypeOK, NEW n \in Nat, n = Len(revoked), revoked' = Append(revoked, FALSE)
  PROVE  /\ Active(n + 1)'
         /\ Only(0) => Only(n + 1)'
<1>1. DOMAIN revoked = 1..n
  BY DEF TypeOK
<1>2. /\ Len(revoked') = n + 1 /\ revoked'[n + 1] = FALSE
      /\ \A t \in 1..n : revoked'[t] = revoked[t]
  BY <1>1 DEF TypeOK
<1>3. Active(n + 1)'
  BY <1>1, <1>2 DEF Active
<1>4. ASSUME Only(0)
      PROVE  Only(n + 1)'
  <2>1. \A t \in 1..n : ~Active(t)
    BY <1>1, <1>4 DEF Only
  <2>2. \A t \in 1..n : ~Active(t)'
    BY <1>2, <2>1 DEF Active
  <2>3. \A t \in 1..(n + 1) : Active(t)' <=> t = n + 1
    BY <1>3, <2>2
  <2> QED
    BY <1>2, <2>3 DEF Only
<1> QED
  BY <1>3, <1>4

LEMMA FetchSerial ==
  ASSUME TypeOK, OneByOne, Undropped, NEW c \in Calls, ~raced',
         AuthorizedFetch(c)
  PROVE  OneByOne' /\ (faults = 0 => Undropped')
<1>1. /\ UNCHANGED <<server, expired, cookie, session, faults>> /\ session # 0
      /\ Begin(c, "fetch", "fetching", session) /\ handlers[c].pc = "idle"
  BY DEF AuthorizedFetch, Begin, Idle
<1>2. /\ ~raced /\ Quiet /\ Kept /\ (faults = 0 => Agreed) /\ OthersStay(c)
      /\ calls'[c].pc = "fetching" /\ calls'[c].kind = "fetch" /\ handlers'[c].pc = "idle"
  <2>1. PICK token : token = session
    OBVIOUS
  <2>2. Begin(c, "fetch", "fetching", token)
    BY <1>1, <2>1
  <2>3. /\ ~raced /\ Quiet /\ Kept /\ (faults = 0 => Agreed)
        /\ calls'[c] = [kind |-> "fetch", pc |-> "fetching", token |-> token]
        /\ \A d \in Calls \ {c} : UNCHANGED calls[d]
    BY <1>1, <2>2, Begun
  <2> QED
    BY <1>1, <2>3 DEF OthersStay, server
<1>3. Kept' /\ session' = session /\ (faults = 0 => Agreed')
  BY <1>1, <1>2 DEF Kept, Active, Agreed, Only, server
<1>4. Turn(c) /\ Refreshable(c)' /\ ~Idle(c)'
  BY <1>2, <1>3 DEF Turn, Refreshable, Idle
<1>5. faults = 0 => Serial(c)'
  BY <1>1, <1>2, <1>3 DEF Serial, Agreed
<1> QED
  BY <1>2, <1>4, <1>5, OneByOneStep, UndroppedStep

LEMMA LoginSerial ==
  ASSUME TypeOK, OneByOne, Undropped, NEW c \in Calls, ~raced', Login(c)
  PROVE  OneByOne' /\ (faults = 0 => Undropped')
<1>1. /\ UNCHANGED <<revoked, expired, cookie, session, faults>> /\ session = 0
      /\ Begin(c, "login", "waiting", 0)
  BY DEF Login
<1>2. PICK pc \in {"store", "answer"} : Send(c, "login", pc)
  BY DEF Login, LoginOutcomes
<1>3. /\ ~raced /\ Quiet /\ (faults = 0 => Agreed) /\ OthersStay(c)
      /\ calls'[c].pc = "waiting" /\ calls'[c].kind = "login"
      /\ handlers'[c].pc = pc /\ handlers'[c].issued = 0
  <2>1. /\ ~raced /\ Quiet /\ (faults = 0 => Agreed)
        /\ calls'[c] = [kind |-> "login", pc |-> "waiting", token |-> 0]
        /\ \A d \in Calls \ {c} : UNCHANGED calls[d]
    BY <1>1, Begun
  <2>2. /\ handlers'[c] = [kind |-> "login", pc |-> pc, sent |-> cookie, issued |-> 0]
        /\ \A d \in Calls \ {c} : UNCHANGED handlers[d]
    BY <1>2, Sent
  <2> QED
    BY <2>1, <2>2 DEF OthersStay
<1>4. Turn(c) /\ Refreshable(c)' /\ ~Idle(c)'
  BY <1>1, <1>3 DEF Turn, Refreshable, Idle
<1>5. faults = 0 => Serial(c)'
  <2>1. faults = 0 => cookie' = 0 /\ Only(0)'
    BY <1>1, <1>3, SameTable DEF Agreed
  <2>2. faults = 0 => BeforeStore(c)' \/ BeforeAnswer(c)'
    BY <1>3, <2>1 DEF BeforeStore, BeforeAnswer
  <2> QED
    BY <1>1, <1>3, <2>2 DEF Serial
<1> QED
  BY <1>3, <1>4, <1>5, OneByOneStep, UndroppedStep

LEMMA LogoutSerial ==
  ASSUME TypeOK, OneByOne, Undropped, NEW c \in Calls, ~raced', Logout(c)
  PROVE  OneByOne' /\ (faults = 0 => Undropped')
<1>1. /\ UNCHANGED <<revoked, expired, cookie, session, faults>> /\ session # 0
      /\ Begin(c, "logout", "waiting", 0)
      /\ Send(c, "logout", IF cookie = 0 THEN "answer" ELSE "revoke")
  BY DEF Logout
<1>2. PICK pc : pc = IF cookie = 0 THEN "answer" ELSE "revoke"
  OBVIOUS
<1>3. /\ ~raced /\ Quiet /\ (faults = 0 => Agreed) /\ OthersStay(c)
      /\ calls'[c].pc = "waiting" /\ calls'[c].kind = "logout"
      /\ handlers'[c].pc = pc /\ handlers'[c].issued = 0 /\ handlers'[c].sent = cookie
  <2>1. /\ ~raced /\ Quiet /\ (faults = 0 => Agreed)
        /\ calls'[c] = [kind |-> "logout", pc |-> "waiting", token |-> 0]
        /\ \A d \in Calls \ {c} : UNCHANGED calls[d]
    BY <1>1, Begun
  <2>2. Send(c, "logout", pc)
    BY <1>1, <1>2
  <2>3. /\ handlers'[c] = [kind |-> "logout", pc |-> pc, sent |-> cookie, issued |-> 0]
        /\ \A d \in Calls \ {c} : UNCHANGED handlers[d]
    BY <2>2, Sent
  <2> QED
    BY <2>1, <2>3 DEF OthersStay
<1>4. Turn(c) /\ Refreshable(c)' /\ ~Idle(c)'
  BY <1>1, <1>2, <1>3 DEF Turn, Refreshable, Idle
<1>5. faults = 0 => Serial(c)'
  <2>1. faults = 0 => cookie' # 0 /\ cookie' = cookie /\ Only(cookie)'
    BY <1>1, <1>3 DEF Agreed, Only, Active
  <2>2. faults = 0 => BeforeRevoke(c)'
    BY <1>1, <1>2, <1>3, <2>1 DEF BeforeRevoke
  <2> QED
    BY <1>3, <2>2 DEF Serial
<1> QED
  BY <1>3, <1>4, <1>5, OneByOneStep, UndroppedStep

LEMMA FetchDoneSerial ==
  ASSUME TypeOK, OneByOne, Undropped, NEW c \in Calls, ~raced', FetchDone(c)
  PROVE  OneByOne' /\ (faults = 0 => Undropped')
<1>1. /\ UNCHANGED <<server, expired, cookie, session, raced, faults>>
      /\ calls[c].pc = "fetching" /\ ~raced /\ Turn(c)
  BY DEF FetchDone, Turn, Idle
<1>2. handlers[c].pc = "idle" /\ Kept
  BY <1>1 DEF OneByOne, Refreshable
<1>3. calls'[c] = NoCall /\ OthersStay(c) /\ handlers'[c].pc = "idle"
  BY <1>1, <1>2, Written DEF FetchDone, OthersStay, server
<1>4. Refreshable(c)' /\ Kept' /\ Serial(c)'
  BY <1>1, <1>2, <1>3 DEF NoCall, Refreshable, Kept, Active, Serial, Idle, server
<1>5. faults = 0 => Agreed'
  <2>1. faults = 0 => Agreed
    BY <1>1, <1>2 DEF Undropped, Serial, Agreed, Idle
  <2> QED
    BY <1>1, <2>1 DEF Agreed, Only, Active, server
<1> QED
  BY <1>1, <1>3, <1>4, <1>5, OneByOneStep, UndroppedStep

LEMMA RefreshSerial ==
  ASSUME TypeOK, OneByOne, Undropped, NEW c \in Calls, ~raced', Refresh(c)
  PROVE  OneByOne' /\ (faults = 0 => Undropped')
<1>1. /\ UNCHANGED <<revoked, expired, cookie, session, raced, faults>>
      /\ calls[c].pc = "fetching" /\ ~raced /\ Turn(c)
      /\ Send(c, "refresh", IF cookie = 0 THEN "answer" ELSE "find")
  BY DEF Refresh, Turn, Idle
<1>2. calls[c].kind = "fetch"
  BY <1>1 DEF OneByOne, Refreshable
<1>3. PICK pc : pc = IF cookie = 0 THEN "answer" ELSE "find"
  OBVIOUS
<1>4. /\ handlers'[c].pc = pc /\ handlers'[c].issued = 0 /\ handlers'[c].sent = cookie
      /\ \A d \in Calls \ {c} : UNCHANGED handlers[d]
  <2>1. Send(c, "refresh", pc)
    BY <1>1, <1>3
  <2>2. /\ handlers'[c] = [kind |-> "refresh", pc |-> pc, sent |-> cookie, issued |-> 0]
        /\ \A d \in Calls \ {c} : UNCHANGED handlers[d]
    BY <2>1, Sent
  <2> QED
    BY <2>2
<1>5. /\ calls'[c].pc = "waiting" /\ calls'[c].kind = "fetch" /\ OthersStay(c)
  BY <1>2, <1>4 DEF Refresh, TypeOK, CallsType, CallRecords, OthersStay
<1>6. Refreshable(c)' /\ ~Idle(c)'
  BY <1>3, <1>4, <1>5 DEF Refreshable, Idle
<1>7. faults = 0 => Serial(c)'
  <2>1. faults = 0 => cookie # 0 /\ Only(cookie)
    BY <1>1 DEF Undropped, Serial, Idle
  <2>2. faults = 0 => BeforeRevoke(c)'
    BY <1>1, <1>3, <1>4, <1>5, <2>1 DEF BeforeRevoke, Only, Active
  <2> QED
    BY <1>5, <2>2 DEF Serial
<1> QED
  BY <1>1, <1>5, <1>6, <1>7, OneByOneStep, UndroppedStep

LEMMA SettleSerial ==
  ASSUME TypeOK, OneByOne, Undropped, NEW c \in Calls, ~raced', Settle(c)
  PROVE  OneByOne' /\ (faults = 0 => Undropped')
<1>1. /\ UNCHANGED <<server, expired, cookie, raced, faults>>
      /\ calls[c].pc = "settled" /\ ~raced /\ Turn(c) /\ Settled(c)
  BY DEF Settle, Turn, Idle
<1>2. calls'[c].pc = "idle" /\ OthersStay(c) /\ UNCHANGED handlers
  BY <1>1, Written DEF Settle, OthersStay, server, NoCall
<1>3. /\ calls[c].token # 0 =>
           handlers[c].pc = "idle" /\ calls[c].token = cookie /\ Active(cookie)
      /\ calls[c].kind = "login" /\ calls[c].token = 0 => session = 0
  BY <1>1 DEF OneByOne, Refreshable
<1>4. session' = calls[c].token
  BY <1>1, <1>3 DEF Settled
<1>5. session' # 0 => Kept'
  BY <1>1, <1>3, <1>4 DEF Kept, Active, server
<1>6. handlers'[c].pc # "idle" => session' = 0
  BY <1>2, <1>3, <1>4
<1>7. Refreshable(c)'
  BY <1>2, <1>6 DEF Refreshable
<1>8. faults = 0 => Serial(c)' /\ Agreed'
  <2>1. faults = 0 => handlers[c].pc = "idle" /\ cookie = calls[c].token /\ Only(cookie)
    BY <1>1 DEF Undropped, Serial, Idle
  <2>2. faults = 0 => Serial(c)'
    BY <1>2, <2>1 DEF Serial, Idle
  <2>3. faults = 0 => Agreed'
    BY <1>1, <1>4, <2>1 DEF Agreed, Only, Active, server
  <2> QED
    BY <2>2, <2>3
<1> QED
  BY <1>1, <1>2, <1>5, <1>7, <1>8, OneByOneStep, UndroppedStep

LEMMA Stepped ==
  ASSUME TypeOK, OneByOne, ~raced, NEW c \in Calls, NEW from, NEW to,
         Step(c, from, to), UNCHANGED browser, from # "idle", to # "idle"
  PROVE  /\ handlers[c].pc = from /\ handlers'[c].pc = to
         /\ handlers'[c].kind = handlers[c].kind
         /\ handlers'[c].sent = handlers[c].sent
         /\ handlers'[c].issued = handlers[c].issued
         /\ calls'[c] = calls[c] /\ cookie' = cookie /\ session' = session
         /\ calls[c].pc # "fetching"
         /\ Turn(c) /\ ~Idle(c) /\ ~Idle(c)' /\ OthersStay(c)
<1>1. /\ handlers[c].pc = from /\ handlers'[c].pc = to
      /\ handlers'[c].kind = handlers[c].kind
      /\ handlers'[c].sent = handlers[c].sent
      /\ handlers'[c].issued = handlers[c].issued
      /\ \A d \in Calls \ {c} : UNCHANGED handlers[d]
  BY DEF Step, TypeOK, HandlersType, HandlerRecords
<1>2. calls[c].pc # "fetching"
  BY <1>1 DEF OneByOne, Refreshable
<1> QED
  BY <1>1, <1>2 DEF browser, Turn, Idle, OthersStay

\* A handler that goes on without a token issued leaves the call refreshable:
\* nothing is claimed until it is answered, or the session is gone.
LEMMA SteppedRefreshable ==
  ASSUME OneByOne, ~raced, NEW c \in Calls,
         handlers[c].pc \notin {"idle", "answer"}, handlers'[c].pc # "idle",
         handlers'[c].issued = handlers[c].issued,
         calls'[c] = calls[c], UNCHANGED <<cookie, session>>
  PROVE  Refreshable(c)'
BY DEF OneByOne, Refreshable

LEMMA FindSerial ==
  ASSUME TypeOK, OneByOne, Undropped, NEW c \in Calls, ~raced', Find(c)
  PROVE  OneByOne' /\ (faults = 0 => Undropped')
<1>1. ~raced /\ UNCHANGED <<revoked, browser, faults>>
  BY DEF Find
<1>2. PICK to : to = IF Active(handlers[c].sent) THEN "revoke" ELSE "answer"
  OBVIOUS
<1>3. Step(c, "find", to) /\ to \in {"revoke", "answer"}
  BY <1>2 DEF Find
<1>4. /\ handlers[c].pc = "find" /\ handlers'[c].pc = to
      /\ handlers'[c].kind = handlers[c].kind
      /\ handlers'[c].sent = handlers[c].sent
      /\ handlers'[c].issued = handlers[c].issued
      /\ calls'[c] = calls[c] /\ cookie' = cookie /\ session' = session
      /\ calls[c].pc # "fetching"
      /\ Turn(c) /\ ~Idle(c) /\ ~Idle(c)' /\ OthersStay(c)
  BY <1>1, <1>3, Stepped
<1>5. Refreshable(c)'
  BY <1>1, <1>3, <1>4, SteppedRefreshable
<1>6. faults = 0 => Serial(c)'
  <2>1. faults = 0 => calls[c].pc = "waiting" /\ BeforeRevoke(c)
    BY <1>1, <1>4 DEF Undropped, Serial, BeforeStore, BeforeAnswer
  <2>2. faults = 0 => Active(handlers[c].sent)
    BY <2>1, OneToken DEF BeforeRevoke, TypeOK
  <2>3. faults = 0 => BeforeRevoke(c)'
    BY <1>1, <1>2, <1>4, <2>1, <2>2 DEF BeforeRevoke, Only, Active
  <2> QED
    BY <1>4, <2>1, <2>3 DEF Serial, BeforeRevoke
<1> QED
  BY <1>1, <1>4, <1>5, <1>6, OneByOneStep, UndroppedStep

LEMMA RevokeSerial ==
  ASSUME TypeOK, OneByOne, Undropped, NEW c \in Calls, ~raced', Revoke(c)
  PROVE  OneByOne' /\ (faults = 0 => Undropped')
<1>1. ~raced /\ UNCHANGED <<browser, faults>>
      /\ revoked' = [revoked EXCEPT ![handlers[c].sent] = TRUE]
  BY DEF Revoke
<1>2. PICK to : to = IF handlers[c].kind = "logout" THEN "answer" ELSE "store"
  OBVIOUS
<1>3. Step(c, "revoke", to) /\ to \in {"store", "answer"}
  BY <1>2 DEF Revoke
<1>4. /\ handlers[c].pc = "revoke" /\ handlers'[c].pc = to
      /\ handlers'[c].kind = handlers[c].kind
      /\ handlers'[c].sent = handlers[c].sent
      /\ handlers'[c].issued = handlers[c].issued
      /\ calls'[c] = calls[c] /\ cookie' = cookie /\ session' = session
      /\ calls[c].pc # "fetching"
      /\ Turn(c) /\ ~Idle(c) /\ ~Idle(c)' /\ OthersStay(c)
  BY <1>1, <1>3, Stepped
<1>5. Refreshable(c)'
  <2>1. calls[c].pc = "waiting" => handlers[c].issued = 0
    BY <1>1, <1>4 DEF OneByOne, Refreshable
  <2>2. calls[c].pc = "settled" => calls[c].token = 0
    BY <1>1, <1>4 DEF OneByOne, Refreshable
  <2> QED
    BY <1>1, <1>3, <1>4, <2>1, <2>2 DEF OneByOne, Refreshable
<1>6. faults = 0 => Serial(c)'
  <2>1. faults = 0 => calls[c].pc = "waiting" /\ BeforeRevoke(c)
    BY <1>1, <1>4 DEF Undropped, Serial, BeforeStore, BeforeAnswer
  <2>2. PICK token \in Tokens : token = cookie
    BY DEF TypeOK
  <2>3. faults = 0 => Only(0)'
    BY <1>1, <2>1, <2>2, RevokedNone DEF BeforeRevoke
  <2>4. faults = 0 => BeforeStore(c)' \/ BeforeAnswer(c)'
    BY <1>2, <1>3, <1>4, <2>1, <2>3 DEF BeforeStore, BeforeAnswer, BeforeRevoke
  <2> QED
    BY <1>4, <2>1, <2>4 DEF Serial, BeforeRevoke
<1> QED
  BY <1>1, <1>4, <1>5, <1>6, OneByOneStep, UndroppedStep

LEMMA StoreSerial ==
  ASSUME TypeOK, OneByOne, Undropped, NEW c \in Calls, ~raced', Store(c)
  PROVE  OneByOne' /\ (faults = 0 => Undropped')
<1>1. PICK n \in Nat : n = Len(revoked) /\ DOMAIN revoked = 1..n
  BY DEF TypeOK
<1>2. /\ ~raced /\ UNCHANGED <<browser, faults>> /\ handlers[c].pc = "store"
      /\ revoked' = Append(revoked, FALSE)
      /\ handlers' = [handlers EXCEPT ![c].pc = "answer", ![c].issued = n + 1]
  BY <1>1 DEF Store
<1>3. /\ handlers'[c].pc = "answer" /\ handlers'[c].issued = n + 1
      /\ handlers'[c].kind = handlers[c].kind
      /\ \A d \in Calls \ {c} : UNCHANGED handlers[d]
  BY <1>2 DEF TypeOK, HandlersType, HandlerRecords
<1>4. calls[c].pc # "fetching" /\ n + 1 # 0
  BY <1>1, <1>2 DEF OneByOne, Refreshable
<1>5. calls'[c] = calls[c] /\ UNCHANGED <<cookie, session>>
      /\ Turn(c) /\ ~Idle(c) /\ ~Idle(c)' /\ OthersStay(c)
  BY <1>2, <1>3 DEF browser, Turn, Idle, OthersStay
<1>6. Active(n + 1)' /\ (Only(0) => Only(n + 1)')
  BY <1>1, <1>2, StoredOne
<1>7. Refreshable(c)'
  <2>1. calls[c].pc = "settled" => calls[c].token = 0
    BY <1>2 DEF OneByOne, Refreshable
  <2>2. Active(handlers[c].issued)'
    BY <1>3, <1>6, Zenon DEF Active
  <2> QED
    BY <1>2, <1>3, <1>4, <1>5, <2>1, <2>2 DEF OneByOne, Refreshable
<1>8. faults = 0 => Serial(c)'
  <2>1. faults = 0 => calls[c].pc = "waiting" /\ BeforeStore(c)
    BY <1>2 DEF Undropped, Serial, BeforeRevoke, BeforeAnswer, Idle
  <2>2. faults = 0 => Only(handlers[c].issued)'
    BY <1>3, <1>6, <2>1, Zenon DEF BeforeStore, Only
  <2>3. faults = 0 => BeforeAnswer(c)'
    BY <1>3, <1>4, <2>2 DEF BeforeAnswer
  <2> QED
    BY <1>2, <1>5, <2>1, <2>3 DEF Undropped, Serial, Idle
<1> QED
  BY <1>2, <1>5, <1>7, <1>8, OneByOneStep, UndroppedStep

LEMMA AnswerSerial ==
  ASSUME TypeOK, OneByOne, Undropped, NEW c \in Calls, ~raced', Answer(c)
  PROVE  OneByOne' /\ (faults = 0 => Undropped')
<1>1. /\ ~raced /\ UNCHANGED <<revoked, session, faults>> /\ handlers[c].pc = "answer"
      /\ handlers'[c] = NoHandler /\ \A d \in Calls \ {c} : UNCHANGED handlers[d]
  BY Written DEF Answer
<1>2. Turn(c) /\ ~Idle(c) /\ handlers'[c].pc = "idle"
  BY <1>1 DEF Turn, Idle, NoHandler
<1>3. CASE calls[c].pc = "waiting"
  <2>1. /\ cookie' = NewCookie(handlers[c])
        /\ calls'[c].pc = "settled" /\ calls'[c].token = handlers[c].issued
        /\ calls'[c].kind = calls[c].kind /\ OthersStay(c)
    BY <1>1, <1>3 DEF Answer, TypeOK, CallsType, CallRecords, OthersStay
  <2>2. Refreshable(c)' /\ ~Idle(c)'
    <3>1. handlers[c].issued # 0 => cookie' = handlers[c].issued /\ Active(handlers[c].issued)
      BY <1>1, <1>3, <2>1 DEF OneByOne, Refreshable, NewCookie
    <3>2. handlers[c].issued # 0 => cookie' = calls'[c].token /\ Active(cookie)'
      BY <1>1, <2>1, <3>1 DEF Active
    <3>3. calls[c].kind = "login" => session' = 0
      BY <1>1, <1>3 DEF OneByOne, Refreshable
    <3> QED
      BY <1>2, <2>1, <3>2, <3>3 DEF Refreshable, Idle
  <2>3. faults = 0 => Serial(c)'
    <3>1. faults = 0 => BeforeAnswer(c) /\ (calls[c].kind = "login" => session = 0)
      BY <1>1, <1>2, <1>3 DEF Undropped, Serial, BeforeRevoke, BeforeStore
    <3>2. faults = 0 => cookie' = handlers[c].issued
      BY <2>1, <3>1 DEF BeforeAnswer, NewCookie
    <3>3. faults = 0 => Only(cookie)'
      BY <1>1, <3>1, <3>2 DEF BeforeAnswer, Only, Active
    <3> QED
      BY <1>1, <1>2, <2>1, <3>1, <3>2, <3>3 DEF Serial
  <2> QED
    BY <1>1, <1>2, <2>1, <2>2, <2>3, OneByOneStep, UndroppedStep
<1>4. CASE calls[c].pc # "waiting"
  <2>1. UNCHANGED <<cookie, calls>> /\ OthersStay(c)
    BY <1>1, <1>4 DEF Answer, OthersStay
  <2>2. calls[c].pc = "settled" => calls[c].token = 0
    BY <1>1 DEF OneByOne, Refreshable
  <2>3. calls[c].pc = "idle" => session = 0
    BY <1>1 DEF OneByOne, Refreshable
  <2>4. calls[c].pc \in {"idle", "settled"}
    BY <1>1, <1>4 DEF OneByOne, Refreshable
  <2>5. Refreshable(c)' /\ (Idle(c)' => session' = 0)
    BY <1>1, <1>2, <2>1, <2>2, <2>3, <2>4 DEF OneByOne, Refreshable, Idle
  <2>6. faults # 0
    BY <1>1, <1>2, <1>4 DEF Undropped, Serial
  <2> QED
    BY <1>1, <1>2, <2>1, <2>5, <2>6, OneByOneStep
<1> QED
  BY <1>3, <1>4

LEMMA QueryFailsSerial ==
  ASSUME TypeOK, OneByOne, NEW c \in Calls, ~raced', QueryFails(c)
  PROVE  OneByOne'
<1>1. ~raced /\ UNCHANGED <<revoked, browser>> /\ handlers[c].pc \in {"find", "revoke", "store"}
  BY DEF QueryFails
<1>2. PICK from : from = handlers[c].pc
  OBVIOUS
<1>3. Step(c, from, "answer") /\ from # "idle"
  BY <1>1, <1>2 DEF QueryFails, Step
<1>4. /\ handlers'[c].pc = "answer" /\ handlers'[c].issued = handlers[c].issued
      /\ calls'[c] = calls[c] /\ cookie' = cookie /\ session' = session
      /\ Turn(c) /\ ~Idle(c)' /\ OthersStay(c)
  BY <1>1, <1>3, Stepped
<1>5. Refreshable(c)'
  BY <1>1, <1>4, SteppedRefreshable
<1> QED
  BY <1>1, <1>4, <1>5, OneByOneStep

LEMMA LoseSerial ==
  ASSUME TypeOK, OneByOne, NEW c \in Calls, ~raced', Lose(c)
  PROVE  OneByOne'
<1>1. ~raced /\ UNCHANGED <<revoked, cookie, session>> /\ calls[c].pc = "waiting"
      /\ Turn(c)
  BY DEF Lose, Turn, Idle
<1>2. /\ calls'[c].pc = "settled" /\ calls'[c].token = 0 /\ calls'[c].kind = calls[c].kind
      /\ \A d \in Calls \ {c} : UNCHANGED calls[d]
  BY DEF Lose, TypeOK, CallsType, CallRecords
<1>3. \A d \in Calls \ {c} : UNCHANGED handlers[d]
  BY Written DEF Lose
<1>4. Refreshable(c)' /\ ~Idle(c)' /\ OthersStay(c)
  BY <1>1, <1>2, <1>3 DEF OneByOne, Refreshable, Idle, OthersStay
<1> QED
  BY <1>1, <1>4, OneByOneStep

LEMMA LimitedSerial ==
  ASSUME TypeOK, OneByOne, NEW c \in Calls, ~raced', Limited(c)
  PROVE  OneByOne'
<1>1. ~raced /\ UNCHANGED <<revoked, cookie, session>> /\ Turn(c)
  BY DEF Limited, Turn, Idle
<1>2. CASE calls[c].pc = "fetching" /\ calls' = [calls EXCEPT ![c] = NoCall] /\ UNCHANGED handlers
  <2>1. handlers[c].pc = "idle" /\ Kept
    BY <1>1, <1>2 DEF OneByOne, Refreshable
  <2>2. calls'[c] = NoCall /\ OthersStay(c) /\ handlers'[c].pc = "idle"
    BY <1>2, <2>1, Written DEF OthersStay
  <2>3. Refreshable(c)' /\ Kept'
    BY <1>1, <2>1, <2>2 DEF NoCall, Refreshable, Kept, Active
  <2> QED
    BY <1>1, <2>2, <2>3, OneByOneStep
<1>3. CASE /\ calls[c].pc = "waiting"
           /\ calls' = [calls EXCEPT ![c].pc = "settled", ![c].token = 0]
           /\ handlers' = [handlers EXCEPT ![c] = NoHandler]
  <2>1. /\ calls'[c].pc = "settled" /\ calls'[c].token = 0 /\ calls'[c].kind = calls[c].kind
        /\ \A d \in Calls \ {c} : UNCHANGED calls[d]
    BY <1>3 DEF TypeOK, CallsType, CallRecords
  <2>2. \A d \in Calls \ {c} : UNCHANGED handlers[d]
    BY <1>3, Written
  <2>3. Refreshable(c)' /\ ~Idle(c)' /\ OthersStay(c)
    BY <1>1, <1>3, <2>1, <2>2 DEF OneByOne, Refreshable, Idle, OthersStay
  <2> QED
    BY <1>1, <2>3, OneByOneStep
<1> QED
  BY <1>2, <1>3 DEF Limited

LEMMA ExpireSerial ==
  ASSUME OneByOne, Undropped, UNCHANGED <<server, browser, raced, faults>>
  PROVE  OneByOne' /\ (faults = 0 => Undropped')
<1>1. OneByOne'
  BY DEF OneByOne, Alone, SessionCanRefresh, Refreshable, Quiet, Idle, Kept, Active,
         server, browser
<1>2. Undropped'
  BY DEF Undropped, SerialSession, Serial, BeforeRevoke, BeforeStore, BeforeAnswer, Only,
         Quiet, Idle, Active, server, browser
<1> QED
  BY <1>1, <1>2

SerialInv == TypeOK /\ OneByOne /\ Undropped

LEMMA SerialInit == Init => SerialInv
<1> SUFFICES ASSUME Init PROVE SerialInv
  OBVIOUS
<1>1. /\ session = 0 /\ cookie = 0 /\ revoked = <<>> /\ Len(revoked) = 0
      /\ \A c \in Calls : calls[c].pc = "idle" /\ handlers[c].pc = "idle"
  BY DEF Init, NoCall, NoHandler
<1>2. OneByOne
  BY <1>1 DEF OneByOne, Alone, SessionCanRefresh, Refreshable, Idle
<1>3. Undropped
  BY <1>1 DEF Undropped, SerialSession, Serial, Idle
<1> QED
  BY <1>2, <1>3, TypeInit DEF SerialInv

LEMMA SerialNext == SerialInv /\ [Next]_vars => SerialInv'
<1> SUFFICES ASSUME TypeOK, OneByOne, Undropped, [Next]_vars
             PROVE  TypeOK' /\ OneByOne' /\ Undropped'
  BY Zenon DEF SerialInv
<1>1. TypeOK'
  BY TypeStep
<1>2. CASE raced'
  BY <1>1, <1>2 DEF OneByOne, Undropped
<1>3. CASE ~raced' /\ Fault
  <2>1. faults' # 0
    BY <1>3 DEF Fault, TypeOK
  <2>2. ASSUME NEW c \in Calls, Use(c) \/ Progress(c)
        PROVE  FALSE
    <3>1. UNCHANGED faults
      BY <2>2 DEF Use, Progress, AuthorizedFetch, Login, Logout, FetchDone,
                  Refresh, Settle, Find, Revoke, Store, Answer
    <3> QED
      BY <1>3, <3>1 DEF Fault, TypeOK
  <2>3. ~Expire /\ ~(UNCHANGED vars)
    BY <1>3 DEF Fault, TypeOK, Expire, vars
  <2>4. OneByOne'
    BY <1>3, <2>2, <2>3, QueryFailsSerial, LoseSerial, LimitedSerial DEF Next, Reload
  <2> QED
    BY <1>1, <2>1, <2>4 DEF Undropped
<1>4. CASE ~raced' /\ ~Fault
  <2>1. UNCHANGED faults
    BY <1>4 DEF Next, vars, Use, Progress, AuthorizedFetch, Login, Logout, FetchDone,
                Refresh, Settle, Find, Revoke, Store, Answer, Expire, QueryFails, Lose,
                Limited, Reload
  <2>2. ASSUME NEW c \in Calls, Use(c) \/ Progress(c)
        PROVE  OneByOne' /\ (faults = 0 => Undropped')
    BY <1>4, <2>2, FetchSerial, LoginSerial, LogoutSerial, FetchDoneSerial, RefreshSerial,
       SettleSerial, FindSerial, RevokeSerial, StoreSerial, AnswerSerial DEF Use, Progress
  <2>3. ASSUME Expire \/ UNCHANGED vars
        PROVE  OneByOne' /\ (faults = 0 => Undropped')
    <3>1. UNCHANGED <<server, browser, raced, faults>>
      BY <2>3 DEF Expire, vars
    <3> QED
      BY <3>1, ExpireSerial
  <2>4. OneByOne' /\ (faults = 0 => Undropped')
    BY <1>4, <2>2, <2>3 DEF Next, QueryFails, Lose, Limited, Reload
  <2> QED
    BY <1>1, <2>1, <2>4 DEF Undropped
<1> QED
  BY <1>1, <1>2, <1>3, <1>4

LEMMA SerialInvariance == Spec => []SerialInv
  BY SerialInit, SerialNext, PTL DEF Spec

\* While calls do not overlap and nothing is lost or refused, the session's refresh
\* token is the cookie and the only one in force between calls (AuthContext.tsx,
\* routes/auth.ts), for any number of calls and tokens.
THEOREM Agreement == Spec => []SerialSession
<1>1. SerialInv => SerialSession
  BY DEF SerialInv, Undropped, SerialSession
<1> QED
  BY <1>1, SerialInvariance, PTL

\* While calls do not overlap, a session can be refreshed, however many answers
\* were lost, requests refused by the rate limiter and queries failed before.
THEOREM Refreshing == Spec => []SessionCanRefresh
<1>1. SerialInv => SessionCanRefresh
  BY DEF SerialInv, OneByOne, SessionCanRefresh
<1> QED
  BY <1>1, SerialInvariance, PTL
=============================================================================

----------------------------- MODULE AuthSession -----------------------------
(***************************************************************************)
(* The session of one user in one browser: the provider of the web client  *)
(* (packages/web/src/auth/AuthContext.tsx) and the server's login, refresh *)
(* and logout (packages/server/src/routes/auth.ts) over the table of       *)
(* refresh tokens (auth/refreshTokenService.ts).                           *)
(*                                                                         *)
(* A token pair is a number, in the order of issue: the refresh token is   *)
(* the row with that number, the access token expires in that order. 0 is  *)
(* no token. A call is one use of the provider (authorizedFetch, login or  *)
(* logout) with the handler that serves it; calls interleave at every      *)
(* await. Wrong tokens, deleted users (nothing deletes one) and the days   *)
(* after which a refresh token expires are left out.                       *)
(***************************************************************************)
EXTENDS Naturals, Sequences, FiniteSets

CONSTANTS
  Calls,        \* uses of the provider that may be in progress at once
  MaxTokens,    \* bound on the refresh tokens issued
  MaxFaults     \* bound on lost connections, refusals of the rate limiter,
                \* failing queries and reloads

ASSUME BoundsAssumption == MaxTokens \in Nat /\ MaxFaults \in Nat

VARIABLES
  revoked,      \* the table of refresh tokens: for each, whether it is revoked
  handlers,     \* the server's side of each call
  expired,      \* the access tokens up to this one have expired
  cookie,       \* the refresh token in the browser's cookie
  session,      \* the provider's access token, kept with its user
  calls,        \* the browser's side of each call
  raced,        \* history: a call began while another was in progress
  faults

server == <<revoked, handlers>>
browser == <<cookie, session, calls>>
vars == <<server, expired, browser, raced, faults>>

NoHandler == [kind |-> "none", pc |-> "idle", sent |-> 0, issued |-> 0]
NoCall == [kind |-> "none", pc |-> "idle", token |-> 0]

InitKept ==             \* mutant: a session read back that no login preceded
  /\ revoked = <<>> /\ handlers = [c \in Calls |-> NoHandler]
  /\ cookie = 0 /\ session = 1 /\ calls = [c \in Calls |-> NoCall]
  /\ expired = 0 /\ raced = FALSE /\ faults = 0

Init ==
  /\ revoked = <<>> /\ handlers = [c \in Calls |-> NoHandler]
  /\ cookie = 0 /\ session = 0 /\ calls = [c \in Calls |-> NoCall]
  /\ expired = 0 /\ raced = FALSE /\ faults = 0

Active(token) == token # 0 /\ ~revoked[token]

Idle(c) == calls[c].pc = "idle" /\ handlers[c].pc = "idle"
Quiet == \A c \in Calls : Idle(c)

\* A call that may yet have a token issued leaves room for it.
Room == Len(revoked) + Cardinality({c \in Calls : ~Idle(c)}) < MaxTokens

(***************************************************************************)
(* The browser. A request carries the cookie of the moment it is sent.     *)
(***************************************************************************)
Begin(c, kind, pc, token) ==
  /\ Idle(c)
  /\ calls' = [calls EXCEPT ![c] = [kind |-> kind, pc |-> pc, token |-> token]]
  /\ raced' = (raced \/ ~Quiet)

Send(c, kind, pc) ==
  handlers' = [handlers EXCEPT ![c] =
                 [kind |-> kind, pc |-> pc, sent |-> cookie, issued |-> 0]]

\* A page that shows a user sends a request with the access token it has.
AuthorizedFetch(c) ==
  /\ session # 0 /\ Room
  /\ Begin(c, "fetch", "fetching", session)
  /\ UNCHANGED <<server, expired, cookie, session, faults>>

FetchDone(c) ==
  /\ calls[c].pc = "fetching" /\ calls[c].token > expired
  /\ calls' = [calls EXCEPT ![c] = NoCall]
  /\ UNCHANGED <<server, expired, cookie, session, raced, faults>>

\* Answered 401, the request sends a refresh.
Refresh(c) ==
  /\ calls[c].pc = "fetching" /\ calls[c].token <= expired
  /\ calls' = [calls EXCEPT ![c].pc = "waiting"]
  /\ Send(c, "refresh", IF cookie = 0 THEN "answer" ELSE "find")
  /\ UNCHANGED <<revoked, expired, cookie, session, raced, faults>>

\* The server accepts the credentials or it does not; register differs from
\* login in the user it makes.
LoginOutcomes == {"store", "answer"}

\* The form is shown without a user and disabled while it waits.
Login(c) ==
  /\ session = 0 /\ Room
  /\ \A d \in Calls : calls[d].kind # "login"
  /\ Begin(c, "login", "waiting", 0)
  /\ \E pc \in LoginOutcomes : Send(c, "login", pc)
  /\ UNCHANGED <<revoked, expired, cookie, session, faults>>

Logout(c) ==
  /\ session # 0
  /\ Begin(c, "logout", "waiting", 0)
  /\ Send(c, "logout", IF cookie = 0 THEN "answer" ELSE "revoke")
  /\ UNCHANGED <<revoked, expired, cookie, session, faults>>

\* The promise of the call's request is settled: setSession, except where a
\* login failed. A request that was refreshed is then sent once more and a
\* request that was not ends, neither with an effect on the session.
\* mutant: a refresh that failed keeps the session
SettledKept(c) ==
  session' = IF calls[c].kind # "logout" /\ calls[c].token = 0
             THEN session ELSE calls[c].token

Settled(c) ==
  session' = IF calls[c].kind = "login" /\ calls[c].token = 0
             THEN session ELSE calls[c].token

\* mutant: a refresh that failed is tried again
SettleAgain(c) ==
  /\ calls[c].pc = "settled"
  /\ Settled(c)
  /\ IF calls[c].kind = "fetch" /\ calls[c].token = 0
     THEN /\ calls' = [calls EXCEPT ![c].pc = "waiting"]
          /\ Send(c, "refresh", IF cookie = 0 THEN "answer" ELSE "find")
     ELSE calls' = [calls EXCEPT ![c] = NoCall] /\ UNCHANGED handlers
  /\ UNCHANGED <<revoked, expired, cookie, raced, faults>>

Settle(c) ==
  /\ calls[c].pc = "settled"
  /\ Settled(c)
  /\ calls' = [calls EXCEPT ![c] = NoCall]
  /\ UNCHANGED <<server, expired, cookie, raced, faults>>

(***************************************************************************)
(* The server: one action per await.                                       *)
(***************************************************************************)
Step(c, from, to) ==
  /\ handlers[c].pc = from
  /\ handlers' = [handlers EXCEPT ![c].pc = to]

Find(c) ==
  /\ Step(c, "find", IF Active(handlers[c].sent) THEN "revoke" ELSE "answer")
  /\ UNCHANGED <<revoked, expired, browser, raced, faults>>

\* mutant: the update finds no row
RevokeNone(c) ==
  /\ Step(c, "revoke", IF handlers[c].kind = "logout" THEN "answer" ELSE "store")
  /\ UNCHANGED <<revoked, expired, browser, raced, faults>>

\* revokeRefreshToken: how many rows it revoked is not looked at.
Revoke(c) ==
  /\ Step(c, "revoke", IF handlers[c].kind = "logout" THEN "answer" ELSE "store")
  /\ revoked' = [revoked EXCEPT ![handlers[c].sent] = TRUE]
  /\ UNCHANGED <<expired, browser, raced, faults>>

Store(c) ==
  /\ handlers[c].pc = "store"
  /\ revoked' = Append(revoked, FALSE)
  /\ handlers' = [handlers EXCEPT ![c].pc = "answer", ![c].issued = Len(revoked) + 1]
  /\ UNCHANGED <<expired, browser, raced, faults>>

\* The answer's cookie: a new token, a cleared cookie, or none in a refusal.
NewCookieKept(h) ==                       \* mutant: logout clears no cookie
  IF h.issued # 0 THEN h.issued ELSE cookie

NewCookie(h) ==
  IF h.issued # 0 THEN h.issued ELSE IF h.kind = "logout" THEN 0 ELSE cookie

Answer(c) ==
  /\ handlers[c].pc = "answer"
  /\ handlers' = [handlers EXCEPT ![c] = NoHandler]
  /\ IF calls[c].pc = "waiting"
     THEN /\ cookie' = NewCookie(handlers[c])
          /\ calls' = [calls EXCEPT ![c].pc = "settled",
                                    ![c].token = handlers[c].issued]
     ELSE UNCHANGED <<cookie, calls>>           \* nobody waits for it
  /\ UNCHANGED <<revoked, expired, session, raced, faults>>

(***************************************************************************)
(* Time and faults.                                                        *)
(***************************************************************************)
Expire ==
  /\ expired < Len(revoked)
  /\ expired' = expired + 1
  /\ UNCHANGED <<server, browser, raced, faults>>

Fault == faults < MaxFaults /\ faults' = faults + 1

\* A failing query: refresh answers 401, logout clears the cookie regardless.
QueryFails(c) ==
  /\ Fault
  /\ handlers[c].kind # "login" /\ handlers[c].pc \in {"find", "revoke", "store"}
  /\ handlers' = [handlers EXCEPT ![c].pc = "answer"]
  /\ UNCHANGED <<revoked, expired, browser, raced>>

\* A lost connection: the request or the handler's process is gone with it,
\* or the handler goes on for nobody.
Lose(c) ==
  /\ Fault
  /\ calls[c].pc = "waiting"
  /\ calls' = [calls EXCEPT ![c].pc = "settled", ![c].token = 0]
  /\ \/ handlers' = [handlers EXCEPT ![c] = NoHandler]
     \/ UNCHANGED handlers
  /\ UNCHANGED <<revoked, expired, cookie, session, raced>>

\* The handler of a request has not begun it.
Arriving(h) ==
  \/ h.kind = "refresh" /\ h.pc = "find"
  \/ h.kind = "logout" /\ h.pc = "revoke"
  \/ h.kind = "login" /\ h.pc = "store"
  \/ h.pc = "answer" /\ h.issued = 0 /\ (h.kind = "login" \/ h.sent = 0)

\* The rate limiter answers 429 in place of the routes. authorizedFetch hands
\* that on; to the provider it is a refresh or a login that failed, and a
\* logout like any other, whose status it does not look at: the cookie stays.
Limited(c) ==
  /\ Fault
  /\ \/ /\ calls[c].pc = "fetching"
        /\ calls' = [calls EXCEPT ![c] = NoCall]
        /\ UNCHANGED handlers
     \/ /\ calls[c].pc = "waiting" /\ Arriving(handlers[c])
        /\ calls' = [calls EXCEPT ![c].pc = "settled", ![c].token = 0]
        /\ handlers' = [handlers EXCEPT ![c] = NoHandler]
  /\ UNCHANGED <<revoked, expired, cookie, session, raced>>

\* The page is reloaded with calls in progress: the session is read back.
Reload ==
  /\ Fault
  /\ ~Quiet
  /\ calls' = [c \in Calls |-> NoCall]
  /\ raced' = TRUE
  /\ UNCHANGED <<server, expired, cookie, session>>

Use(c) == AuthorizedFetch(c) \/ Login(c) \/ Logout(c)

Progress(c) ==
  \/ FetchDone(c) \/ Refresh(c) \/ Settle(c)
  \/ Find(c) \/ Revoke(c) \/ Store(c) \/ Answer(c)

Next ==
  \/ \E c \in Calls : Use(c) \/ Progress(c) \/ QueryFails(c)
                      \/ Lose(c) \/ Limited(c)
  \/ Expire
  \/ Reload

Spec == Init /\ [][Next]_vars

\* A handler's awaits return, answers arrive and promises are settled.
FairSpec == Spec /\ \A c \in Calls : WF_vars(Progress(c))

(***************************************************************************)
(* Properties.                                                             *)
(***************************************************************************)
Tokens == 0..Len(revoked)

HandlerRecords ==
  [kind : {"none", "refresh", "login", "logout"},
   pc : {"idle", "find", "revoke", "store", "answer"},
   sent : Tokens, issued : Tokens]

CallRecords ==
  [kind : {"none", "fetch", "login", "logout"},
   pc : {"idle", "fetching", "waiting", "settled"}, token : Tokens]

HandlersType == handlers \in [Calls -> HandlerRecords]
CallsType == calls \in [Calls -> CallRecords]

\* Types: the table, the handlers and the calls they serve.
TypeOK ==
  /\ revoked \in Seq(BOOLEAN) /\ HandlersType /\ CallsType
  /\ expired \in Tokens /\ cookie \in Tokens /\ session \in Tokens
  /\ raced \in BOOLEAN /\ faults \in 0..MaxFaults

\* While calls do not overlap and nothing is lost or refused, browser and server agree
\* between calls: the session's own refresh token is the one in the cookie and
\* the only one the server would accept, and without a session there is none.
SerialSession ==
  ~raced /\ faults = 0 /\ Quiet =>
    /\ session = cookie
    /\ {t \in 1..Len(revoked) : Active(t)} = {session} \ {0}

\* While calls do not overlap, a user whom the page shows as signed in can be
\* refreshed, even after answers were lost, the rate limiter refused requests
\* and queries failed.
SessionCanRefresh ==
  ~raced /\ Quiet /\ session # 0 => session = cookie /\ Active(cookie)

\* However calls overlap, the browser is never left with a revoked refresh
\* token unless something was lost: the answer that replaces it is on its way.
Replaces(h) ==
  \/ h.pc = "store"
  \/ h.pc = "answer" /\ (h.issued # 0 \/ h.kind = "logout")

CookieIsReplaced ==
  faults = 0 /\ cookie # 0 /\ ~Active(cookie) =>
    \E c \in Calls : handlers[c].sent = cookie /\ Replaces(handlers[c])

\* A refresh that fails does so because the user has to sign in again: the
\* provider does not clear a session while the browser holds a token that the
\* server accepts.
FailedRefreshIsFinal ==
  faults = 0 =>
    \A c \in Calls :
      /\ calls[c].pc = "settled" /\ calls[c].kind = "fetch" /\ calls[c].token = 0
      /\ session # 0
      => ~Active(cookie)

\* Every use of the provider ends: a refresh that fails is not tried again.
CallsEnd == \A c \in Calls : []<>(calls[c].pc = "idle")
=============================================================================

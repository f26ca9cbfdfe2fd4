------------------------------- MODULE Account -------------------------------
(***************************************************************************)
(* One device's session with the REST server: the tokens it holds          *)
(* (authStore.ts), the requests that carry them and renew them on a 401    *)
(* (http.ts), and the accounts behind them (app.ts, users.ts, jwt.ts).     *)
(*                                                                         *)
(* Every request and every answer takes its time and may be lost; the user *)
(* goes on meanwhile, logs out, logs in as another, closes the app.  The   *)
(* storage of the device takes its time too (storage.ts): the tokens in    *)
(* memory change at once, what the screen shows only when they are saved.  *)
(* A pair of tokens is its user and the moment it was issued at: the       *)
(* server keeps no list of them, only time and the deletion of the user    *)
(* end them.                                                               *)
(***************************************************************************)
EXTENDS Naturals, FiniteSets, Sequences, SequencesExt

CONSTANTS Users, NoUser,
          MaxCalls,       \* bound: requests of the client under way at once
          MaxAge,         \* bound: times tokens expire
          MaxLogins,      \* bound: logins and registrations
          MaxRestarts,    \* bound: times the app is closed
          MaxPrivate,     \* bound: requests made with a session
          MaxSaves        \* bound: with as many saves under way the user does not log out

VARIABLES accounts,    \* [Users -> "none", "active" or "deleted"]: whoever comes back after a deletion is another user
          age,         \* how many times access tokens expired
          refreshFrom, \* the refresh tokens issued before have expired
          tokens,      \* the pair in memory
          stored,      \* the pair on the device
          saving,      \* what the device has to save, in order: the pair, what follows, and for whom
          screen,      \* [status, account, notice] of the store
          calls,       \* [1..MaxCalls -> requests under way]
          refreshing,  \* the refresh under way
          refused,     \* ghost: the server refused a refresh, a renewed token or the account, or failed at one
          raced,       \* ghost: the session changed hands with an answer to come, or ended twice
          left         \* what the bounds still allow
vars == <<accounts, age, refreshFrom, tokens, stored, saving, screen, calls, refreshing, refused, raced, left>>

NoTokens == [user |-> NoUser, issued |-> 0]
Pair(u) == [user |-> u, issued |-> age]
Idle == [op |-> "none", token |-> NoTokens, at |-> "idle", leg |-> "first", answer |-> "none", user |-> NoUser]
Slots == 1..MaxCalls
NoOne == 0
TheRefresh == MaxCalls + 1   \* for whom a save is, if not for a request
Busy == {k \in Slots : calls[k] # Idle}

(***************************************************************************)
(* The server, one handler at a time.                                      *)
(***************************************************************************)
verifyAccess(t) == t # NoTokens /\ t.issued = age
findById(u) == accounts[u] = "active"
postRegister(u) == IF findById(u) THEN "409" ELSE "ok"
postLogin(u) == IF findById(u) THEN "ok" ELSE "401"
requireAuth(t, answer) == IF verifyAccess(t) THEN answer ELSE "401"
getMe(u) == IF findById(u) THEN "ok" ELSE "404"
postTerms(u) == IF findById(u) THEN "ok" ELSE "404"
putPrivacy(u) == IF findById(u) THEN "ok" ELSE "404"
deleteMe(u) == IF findById(u) THEN "ok" ELSE "404"
getExport(u) == IF findById(u) THEN "ok" ELSE "404"
Answer(op, t) ==
  CASE op = "register" -> postRegister(t.user)
    [] op = "login" -> postLogin(t.user)
    [] op = "me" -> requireAuth(t, getMe(t.user))
    [] op = "terms" -> requireAuth(t, postTerms(t.user))
    [] op = "privacy" -> requireAuth(t, putPrivacy(t.user))
    [] op = "delete" -> requireAuth(t, deleteMe(t.user))
    [] op = "export" -> requireAuth(t, getExport(t.user))
postRefresh(t) == IF t.issued >= refreshFrom /\ findById(t.user) THEN "ok" ELSE "401"

Serve(k) ==
  /\ calls[k].at = "out"
  /\ LET c == calls[k]
         answer == Answer(c.op, c.token)
     IN  /\ calls' = [calls EXCEPT ![k].at = "back", ![k].answer = answer, ![k].user = c.token.user,
                                       ![k].token = IF c.op = "login" /\ answer = "ok" THEN Pair(c.token.user) ELSE @]
         /\ accounts' = IF answer # "ok" THEN accounts
                        ELSE CASE c.op = "delete" -> [accounts EXCEPT ![c.token.user] = "deleted"]
                               [] c.op = "register" -> [accounts EXCEPT ![c.token.user] = "active"]
                               [] OTHER -> accounts
         /\ refused' = (refused \/ (answer = "401" /\ c.leg = "retry") \/ (answer = "404" /\ c.op = "me"))
  /\ UNCHANGED <<age, refreshFrom, tokens, stored, saving, screen, refreshing, raced, left>>
ServeRefresh ==
  /\ refreshing.at = "out"
  /\ LET answer == postRefresh(refreshing.token)
     IN  /\ refreshing' = [refreshing EXCEPT !.at = "back", !.answer = answer, !.user = refreshing.token.user,
                                             !.token = IF answer = "ok" THEN Pair(refreshing.token.user) ELSE @]
         /\ refused' = (refused \/ answer = "401")
  /\ UNCHANGED <<accounts, age, refreshFrom, tokens, stored, saving, screen, calls, raced, left>>
(* Lost on the way or on the way back, or turned away by the rate limit    *)
(* (network); or a server that fails before or after its work, a proxy     *)
(* without one, an answer that cannot be read (500).                       *)
Failures == {"network", "500"}
Lose(k, as) ==
  /\ calls[k].at \in {"out", "back"} /\ calls[k].answer \notin Failures
  /\ calls' = [calls EXCEPT ![k].at = "back", ![k].answer = as]
  /\ refused' = (refused \/ (as = "500" /\ calls[k].op = "me"))
  /\ UNCHANGED <<accounts, age, refreshFrom, tokens, stored, saving, screen, refreshing, raced, left>>
LoseRefresh(as) ==
  /\ refreshing.at \in {"out", "back"} /\ refreshing.answer \notin Failures /\ refreshing.token # NoTokens
  /\ refreshing' = [refreshing EXCEPT !.at = "back", !.answer = as]
  /\ refused' = (refused \/ as = "500")
  /\ UNCHANGED <<accounts, age, refreshFrom, tokens, stored, saving, screen, calls, raced, left>>
TokensExpire(refreshToo) ==
  /\ left.age > 0 /\ age' = age + 1
  /\ refreshFrom' = IF refreshToo THEN age' ELSE refreshFrom
  /\ left' = [left EXCEPT !.age = @ - 1]
  /\ UNCHANGED <<accounts, tokens, stored, saving, screen, calls, refreshing, refused, raced>>

(***************************************************************************)
(* The client.  saveTokens changes the memory at once, and the device when *)
(* the storage gets to it, one save after the other; whoever saves goes on *)
(* only then, and the screen with it.                                      *)
(***************************************************************************)
Show(status, account, notice) == screen' = [status |-> status, account |-> account, notice |-> notice]
saveTokens(t, then, by) ==
  /\ tokens' = t /\ saving' = Append(saving, [tokens |-> t, then |-> then, by |-> by])
  /\ UNCHANGED screen
leave(notice, by) == saveTokens(NoTokens, notice, by)
Stays == UNCHANGED <<tokens, saving, screen>>
(* Nobody to expire: the session has ended already.                        *)
Expires == tokens # NoTokens \/ screen.status = "authenticated"
expire(by) == IF Expires THEN leave("session_expired", by) ELSE Stays
Kept(c) == [c EXCEPT !.at = "saving"]

send(op, t) == [Idle EXCEPT !.op = op, !.token = t, !.at = "out"]
Begin(op, t) ==
  \E k \in Slots \ Busy : /\ \A j \in Slots \ Busy : k <= j
                          /\ calls' = [calls EXCEPT ![k] = send(op, t)]

SessionGate == screen.status \in {"checking", "unreachable"}
bootstrap ==
  /\ SessionGate /\ \A k \in Slots : calls[k].op # "me"
  /\ tokens' = stored
  /\ IF stored = NoTokens THEN Show("anonymous", NoUser, screen.notice) /\ UNCHANGED calls
     ELSE Show("checking", screen.account, screen.notice) /\ Begin("me", stored)
  /\ UNCHANGED <<accounts, age, refreshFrom, stored, saving, refreshing, refused, raced, left>>
Enter(op, u) ==
  /\ left.logins > 0 /\ \A k \in Busy : calls[k].op \notin {"login", "register"}
  /\ Begin(op, [user |-> u, issued |-> 0])
  /\ left' = [left EXCEPT !.logins = @ - 1]
  /\ UNCHANGED <<accounts, age, refreshFrom, tokens, stored, saving, refreshing, refused, raced>>
Private(op) ==
  /\ left.private > 0
  /\ Begin(op, tokens)
  /\ left' = [left EXCEPT !.private = @ - 1]
  /\ UNCHANGED <<accounts, age, refreshFrom, tokens, stored, saving, screen, refreshing, refused, raced>>

GuestOnly == screen.status = "anonymous"
RequireAuth == screen.status = "authenticated"
Login(u) == GuestOnly /\ Enter("login", u) /\ screen' = [screen EXCEPT !.notice = "none"]
Register(u) == GuestOnly /\ accounts[u] # "deleted" /\ Enter("register", u) /\ UNCHANGED screen
TermsGate == RequireAuth /\ Private("terms")
HidePresence == RequireAuth /\ Private("privacy")
ExportData == RequireAuth /\ Private("export")
DeleteAccount == RequireAuth /\ Private("delete")

(* The ghost: the session changes hands while the answer of a request that *)
(* would act on it, or of a refresh, is still to come; a retry would end   *)
(* the session, whichever it is by then.  Or a session the user has just   *)
(* left, and the device has still to forget, is taken for an expired one.  *)
Acts(c) == c.at \in {"out", "back"} /\ (c.op \in {"me", "login", "register", "terms", "privacy", "delete"} \/ c.leg = "retry")
ChangesHands ==
  raced' = \/ raced
           \/ /\ tokens'.user # tokens.user
              /\ refreshing'.at \in {"out", "back"} \/ \E k \in Slots : Acts(calls'[k])
           \/ tokens = NoTokens /\ saving' # saving /\ Last(saving').then = "session_expired"

logout ==
  /\ RequireAuth /\ Len(saving) < MaxSaves
  /\ leave("none", NoOne)
  /\ UNCHANGED <<accounts, age, refreshFrom, stored, calls, refreshing, refused, left>>
  /\ ChangesHands
Restart ==
  /\ left.restarts > 0
  /\ Show("checking", NoUser, "none") /\ tokens' = NoTokens /\ saving' = <<>>
  /\ calls' = [k \in Slots |-> Idle] /\ refreshing' = Idle
  /\ left' = [left EXCEPT !.restarts = @ - 1]
  /\ UNCHANGED <<accounts, age, refreshFrom, stored, refused, raced>>

(* What whoever made the request does with its outcome.                    *)
SetScreen(scr) == screen' = scr /\ UNCHANGED <<tokens, saving>>
settleMe(c, k) ==
  CASE c.answer = "ok" -> SetScreen([screen EXCEPT !.status = "authenticated", !.account = c.user])
    [] c.answer = "network" -> SetScreen([screen EXCEPT !.status = "unreachable"])
    [] OTHER -> IF screen.status # "anonymous" THEN expire(k) ELSE Stays
login(c, k) == saveTokens(c.token, "login", k)
accountDeleted(k) == leave("account_deleted", k)
Settle(c, k) ==
  CASE c.op = "me" -> settleMe(c, k)
    [] c.op = "login" /\ c.answer = "ok" -> login(c, k)
    [] c.op = "register" /\ c.answer = "ok" -> SetScreen([screen EXCEPT !.notice = "none"])
    [] c.op \in {"terms", "privacy"} /\ c.answer = "ok" -> SetScreen([screen EXCEPT !.account = c.user])
    [] c.op = "delete" /\ c.answer = "ok" -> accountDeleted(k)
    [] OTHER -> Stays

(* An answer comes back: on a 401 of the first try the request waits for   *)
(* the one refresh; the retry that gets another ends the session.          *)
StartRefresh ==
  refreshing' = IF tokens = NoTokens THEN [Idle EXCEPT !.op = "refresh", !.at = "back", !.answer = "401"] ELSE send("refresh", tokens)
Renews(c) == c.answer = "401" /\ c.leg = "first" /\ c.op \notin {"login", "register"}
Return(k) ==
  LET c == calls[k] IN
  /\ c.at = "back"
  /\ IF Renews(c)
     THEN /\ Stays
          /\ calls' = [calls EXCEPT ![k].at = "waiting"]
          /\ IF refreshing = Idle THEN StartRefresh ELSE UNCHANGED refreshing
     ELSE /\ IF c.answer = "401" /\ c.leg = "retry" THEN expire(k) ELSE Settle(c, k)
          /\ calls' = [calls EXCEPT ![k] = IF saving' # saving THEN Kept(c)
                                           ELSE IF c.op = "register" /\ c.answer = "ok" THEN send("login", c.token) ELSE Idle]
          /\ UNCHANGED refreshing
  /\ refused' = IF c.op = "login" /\ c.answer = "ok" THEN FALSE ELSE refused
  /\ UNCHANGED <<accounts, age, refreshFrom, stored, left>>
  /\ ChangesHands

(* Mutant: a server that cannot be reached ends the session.               *)
RefreshResultOnce == IF refreshing.answer = "ok" THEN "refreshed" ELSE "rejected"
RefreshResult == CASE refreshing.answer = "ok" -> "refreshed" [] refreshing.answer = "network" -> "unreachable" [] OTHER -> "rejected"
(* Whoever waits goes on at once: again with the tokens there are, or with *)
(* a network error, or with the 401 that told it to renew.                 *)
Waiting == {k \in Slots : calls[k].at = "waiting"}
Resume(again) ==
  /\ refreshing' = Idle
  /\ calls' = [k \in Slots |-> IF k \notin Waiting THEN calls[k]
                               ELSE IF again THEN [send(calls[k].op, tokens) EXCEPT !.leg = "retry"] ELSE Idle]
Refreshed ==
  /\ refreshing.at = "back"
  /\ CASE RefreshResult = "refreshed" -> saveTokens(refreshing.token, "refreshed", TheRefresh)
       [] RefreshResult = "unreachable" ->
            SetScreen(IF \E k \in Waiting : calls[k].op = "me" THEN [screen EXCEPT !.status = "unreachable"] ELSE screen)
       [] RefreshResult = "rejected" -> expire(TheRefresh)
  /\ IF saving' # saving THEN refreshing' = Kept(refreshing) /\ UNCHANGED calls ELSE Resume(FALSE)
  /\ UNCHANGED <<accounts, age, refreshFrom, stored, refused, left>>
  /\ ChangesHands

(* The device has saved: the screen follows, and whoever waited for it.    *)
Saved ==
  /\ saving # <<>>
  /\ LET s == Head(saving)
     IN  /\ stored' = s.tokens /\ saving' = Tail(saving)
         /\ CASE s.then = "refreshed" -> UNCHANGED screen
              [] s.then = "login" -> Show("authenticated", s.tokens.user, screen.notice)
              [] OTHER -> Show("anonymous", NoUser, s.then)
         /\ IF s.by = TheRefresh THEN Resume(s.then = "refreshed")
            ELSE calls' = [k \in Slots |-> IF k = s.by THEN Idle ELSE calls[k]] /\ UNCHANGED refreshing
  /\ UNCHANGED <<accounts, age, refreshFrom, tokens, refused, raced, left>>

Init ==
  /\ \E u \in Users : accounts = [v \in Users |-> IF v = u THEN "active" ELSE "none"]
  /\ age = 0 /\ refreshFrom = 0
  /\ tokens = NoTokens /\ stored \in {NoTokens} \cup {[user |-> u, issued |-> 0] : u \in {v \in Users : findById(v)}}
  /\ saving = <<>>
  /\ screen = [status |-> "checking", account |-> NoUser, notice |-> "none"]
  /\ calls = [k \in Slots |-> Idle] /\ refreshing = Idle
  /\ refused = FALSE /\ raced = FALSE
  /\ left = [age |-> MaxAge, logins |-> MaxLogins, restarts |-> MaxRestarts, private |-> MaxPrivate]
Network == \/ ServeRefresh \/ \E k \in Slots : Serve(k)
           \/ \E as \in Failures : LoseRefresh(as) \/ \E k \in Slots : Lose(k, as)
User == \/ bootstrap \/ logout \/ Restart
        \/ \E u \in Users : Login(u) \/ Register(u)
        \/ TermsGate \/ HidePresence \/ ExportData \/ DeleteAccount
Client == \/ Refreshed \/ Saved
          \/ \E k \in Slots : Return(k)
Next == \/ Network \/ User \/ Client \/ \E refreshToo \in BOOLEAN : TokensExpire(refreshToo)
Spec == Init /\ [][Next]_vars
-----------------------------------------------------------------------------
(* An answer that does not come, or a server that asks to slow down, never *)
(* ends a session, whichever request it is of and whenever it is lost:     *)
(* only a server that does not know the refresh token, or a token just     *)
(* renewed, or the user, or that fails when asked to renew or who the user *)
(* is ("Server irraggiungibile: la sessione resta salvata").               *)
EndsOnlyIfRefused == screen.notice = "session_expired" /\ ~raced => refused

(* The account shown is the one the tokens are of, and the device keeps    *)
(* them, through renewals, expiries, deletions and restarts, unless the    *)
(* device is still saving, or the session changed hands while the answer   *)
(* of a request of the one before was still to come.                       *)
OneUser ==
  screen.status = "authenticated" /\ ~raced =>
    \/ screen.account = tokens.user /\ (saving = <<>> => stored = tokens)
    \/ tokens = NoTokens /\ saving # <<>>
=============================================================================

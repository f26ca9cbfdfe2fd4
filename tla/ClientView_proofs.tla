--------------------------- MODULE ClientView_proofs ---------------------------
(***************************************************************************)
(* What the client shows of what it was answered, for every value of the   *)
(* constants: the account, whose tokens are renewed and saved while        *)
(* requests are under way, and the pages, whose lists are answered in any  *)
(* order.  Each part has an inductive invariant of its own, in the         *)
(* variables of that part alone.                                           *)
(***************************************************************************)
EXTENDS ClientParts, Sequences, FiniteSetTheorems, TLAPS
-----------------------------------------------------------------------------
(***************************************************************************)
(* The account.  Unless the session changed hands with an answer to come,  *)
(* what is under way is of the session there is: requests that act on it   *)
(* carry its user, a login waits only with no session, a refresh is of the *)
(* tokens held, what the device has still to save ends with them, and a    *)
(* session that is being read has nothing else under way.                  *)
(***************************************************************************)
LEMMA StepsOfAccount ==
  [Next]_vars /\ part' = "account" => part = "account" /\ [A!Next]_(A!vars)
<1>1. ASSUME UNCHANGED vars PROVE part' = part /\ UNCHANGED A!vars
  BY <1>1 DEF vars, ofAccount, A!vars
<1>2. ASSUME Next PROVE part' = part /\ (part = "account" => A!Next)
  BY <1>2 DEF Next, WireStep, AccountStep, SocialStep, DecksStep, ScreenStep, BotStep, PagesStep
<1> QED
  BY <1>1, <1>2

Someone == Users \cup {NoUser}
AllTokens == [user : Someone, issued : Nat]
AllCalls == [op : {"none", "me", "login", "register", "terms", "privacy", "delete", "export", "refresh"}, token : AllTokens,
             at : {"idle", "out", "back", "waiting", "saving"}, leg : {"first", "retry"},
             answer : {"none", "ok", "network", "500", "401", "404", "409"}, user : Someone]
AllNotices == {"none", "session_expired", "account_deleted"}
AllSaves == [tokens : AllTokens, then : AllNotices \cup {"login", "refreshed"}, by : 0..A!TheRefresh]
Statuses == {"checking", "unreachable", "anonymous", "authenticated"}
AllScreens == [status : Statuses, account : Someone, notice : AllNotices]
OfSession(c) == c.op \in {"me", "terms", "privacy", "delete"}
Entering(c) == c.op \in {"login", "register"}
Opens(e) == e.then \in {"login", "refreshed"}

(* A request under way, against the tokens, the saves and the screen.      *)
CallOk(c, t, s, scr, ended) ==
  /\ c \in AllCalls /\ c.op # "refresh"
  /\ c.op = "none" => c = A!Idle
  /\ c.op # "none" => c.at # "idle"
  /\ c.op # "none" /\ c.at = "back" => c.answer # "none"
  /\ c.op = "me" => scr.status = "checking" /\ c.answer # "409"
  /\ Entering(c) => /\ c.leg = "first" /\ c.token.user \in Users /\ scr.status = "anonymous" /\ c.at # "waiting"
                    /\ c.at # "saving" => /\ t = A!NoTokens /\ \A i \in 1..Len(s) : s[i].then = "none"
                                          /\ c.op = "login" => scr.notice # "session_expired"
  /\ OfSession(c) /\ c.at \in {"out", "back"} =>
       /\ c.token.user = t.user /\ (c.token = A!NoTokens \/ t.user \in Users)
       /\ c.at = "back" /\ c.answer = "ok" => c.user = t.user /\ t.user \in Users
  /\ c.op = "me" /\ c.at \in {"out", "back"} => t.user \in Users
  /\ c.at = "back" /\ c.leg = "retry" /\ c.answer = "401" => ended
  /\ c.at = "back" /\ c.op = "me" /\ c.answer \in {"404", "500"} => ended
  /\ scr.status = "checking" => c.op \in {"none", "me"}
  /\ scr.status = "unreachable" => c.op = "none"
CallsOk(cs, t, s, scr, ended) ==
  /\ cs \in [A!Slots -> AllCalls]
  /\ \A k \in A!Slots : CallOk(cs[k], t, s, scr, ended)
  /\ \A j, k \in A!Slots : cs[j].op = "me" /\ cs[k].op = "me" => j = k
  /\ \A j, k \in A!Slots : Entering(cs[j]) /\ Entering(cs[k]) => j = k
(* The refresh under way. *)
RefreshOk(r, t, ended) ==
  r # A!Idle =>
    /\ r \in AllCalls /\ r.op = "refresh" /\ r.at \in {"out", "back", "saving"}
    /\ r.answer \in {"none", "ok", "network", "500", "401"}
    /\ r.at = "back" => r.answer # "none"
    /\ r.at # "saving" /\ r.token = A!NoTokens => r.at = "back" /\ r.answer = "401" /\ t = A!NoTokens
    /\ r.at # "saving" /\ r.token # A!NoTokens => /\ r.token.user = t.user /\ t.user \in Users
                                                  /\ r.at = "back" /\ r.answer \in {"401", "500"} => ended
(* What the device has still to save: after the end of a session nothing   *)
(* but another end, until a login.                                         *)
EntryOk(e, t, cs, r, ended) ==
  /\ e \in AllSaves
  /\ IF Opens(e) THEN e.tokens.user \in Users ELSE e.tokens = A!NoTokens
  /\ e.then = "session_expired" => ended
  /\ e.then = "refreshed" => e.by = A!TheRefresh
  /\ e.then = "login" => e.by \in A!Slots /\ cs[e.by].op = "login"
  /\ e.by \in A!Slots => cs[e.by].at = "saving"
  /\ e.by = A!TheRefresh => r.at = "saving"
  /\ Opens(e) /\ t # A!NoTokens => e.tokens.user = t.user
LoginFrom(s, i, j) == \E k \in 1..Len(s) : i < k /\ k <= j /\ s[k].then = "login"
Orderly(s, status) ==
  /\ \A i, j \in 1..Len(s) : i < j /\ s[i].tokens = A!NoTokens /\ s[j].then # "none" => LoginFrom(s, i, j)
  /\ \A j \in 1..Len(s) : status = "anonymous" /\ s[j].then # "none" => LoginFrom(s, 0, j)
SavesOk(s, t, status, cs, r, ended) ==
  /\ s \in Seq(AllSaves)
  /\ \A i \in 1..Len(s) : EntryOk(s[i], t, cs, r, ended)
  /\ s # <<>> => s[Len(s)].tokens = t
  /\ \A i, j \in 1..Len(s) : s[i].by = s[j].by => i = j \/ s[i].by = A!NoOne
  /\ Orderly(s, status)
(* The session itself. *)
HoldOk(t, st, s, scr, ended) ==
  /\ t \in AllTokens /\ (t = A!NoTokens \/ t.user \in Users)
  /\ st \in AllTokens /\ (st = A!NoTokens \/ st.user \in Users)
  /\ scr \in AllScreens
  /\ s = <<>> /\ scr.status = "anonymous" => t = A!NoTokens
  /\ s = <<>> /\ scr.status # "checking" => st = t
  /\ scr.status = "authenticated" => \/ t.user \in Users /\ scr.account = t.user
                                     \/ t = A!NoTokens /\ s # <<>>
  /\ scr.notice = "session_expired" => ended
(* The reading of a session: one thing after the other. *)
MeOk(c, k, t, st, s, r) ==
  /\ s = <<>> => st = t
  /\ c.at \in {"out", "back"} => s = <<>> /\ r = A!Idle
  /\ c.at = "waiting" /\ r.at # "saving" => s = <<>> /\ r # A!Idle /\ r.token # A!NoTokens
  /\ c.at = "waiting" /\ r.at = "saving" => Len(s) = 1 /\ s[1].by = A!TheRefresh
  /\ c.at = "saving" => r = A!Idle /\ Len(s) = 1 /\ s[1].by = k /\ s[1].then = "session_expired"
ReadingOk(cs, t, st, s, status, r) ==
  /\ status = "checking" /\ (\A k \in A!Slots : cs[k].op # "me") => s = <<>> /\ r = A!Idle
  /\ \A k \in A!Slots : cs[k].op = "me" => MeOk(cs[k], k, t, st, s, r)
  /\ status = "unreachable" => s = <<>> /\ r = A!Idle
OneSession ==
  /\ age \in Nat
  /\ HoldOk(tokens, stored, saving, screen, refused)
  /\ CallsOk(calls, tokens, saving, screen, refused)
  /\ RefreshOk(refreshing, tokens, refused)
  /\ SavesOk(saving, tokens, screen.status, calls, refreshing, refused)
  /\ ReadingOk(calls, tokens, stored, saving, screen.status, refreshing)
AccountKept == ~raced => OneSession

(* Whom a save is for. *)
LEMMA Slotted ==
  /\ A!NoOne \notin A!Slots /\ A!TheRefresh \notin A!Slots /\ A!NoOne # A!TheRefresh
  /\ 0..A!TheRefresh = A!Slots \cup {A!NoOne, A!TheRefresh}
BY PartsAssumption DEF A!NoOne, A!TheRefresh, A!Slots

(* What nothing under way looks like, and a request just sent.             *)
LEMMA Idles ==
  /\ A!NoTokens \in AllTokens /\ A!NoTokens.user = NoUser /\ NoUser \notin Users
  /\ A!Idle \in AllCalls /\ A!Idle.op = "none" /\ A!Idle.at = "idle" /\ A!Idle.leg = "first" /\ A!Idle.answer = "none"
  /\ \A t, s, scr, ended : CallOk(A!Idle, t, s, scr, ended)
<1>1. /\ A!NoTokens \in AllTokens /\ A!NoTokens.user = NoUser /\ NoUser \notin Users
  BY PartsAssumption DEF A!NoTokens, AllTokens, Someone
<1>2. A!Idle.op = "none" /\ A!Idle.at = "idle" /\ A!Idle.leg = "first" /\ A!Idle.answer = "none"
  BY DEF A!Idle
<1>3. A!Idle \in AllCalls
  BY <1>1 DEF A!Idle, AllCalls, Someone
<1> QED
  BY <1>1, <1>2, <1>3 DEF CallOk, Entering, OfSession
LEMMA Sent ==
  ASSUME NEW op \in {"me", "login", "register", "terms", "privacy", "delete", "export", "refresh"}, NEW t \in AllTokens
  PROVE  /\ A!send(op, t) \in AllCalls
         /\ A!send(op, t).op = op /\ A!send(op, t).token = t /\ A!send(op, t).at = "out"
         /\ A!send(op, t).leg = "first" /\ A!send(op, t).answer = "none"
<1>1. A!send(op, t) = [A!Idle EXCEPT !.op = op, !.token = t, !.at = "out"]
  BY DEF A!send
<1> QED
  BY <1>1, Idles DEF AllCalls
LEMMA KeptCall ==
  ASSUME NEW c \in AllCalls
  PROVE  /\ A!Kept(c) \in AllCalls /\ A!Kept(c).op = c.op /\ A!Kept(c).at = "saving" /\ A!Kept(c).leg = c.leg
         /\ A!Kept(c).token = c.token /\ A!Kept(c).answer = c.answer
BY DEF A!Kept, AllCalls

(* What was refused stays refused: nothing else looks at the ghost.        *)
LEMMA RefusedMore ==
  ASSUME NEW c, NEW t, NEW s, NEW scr, NEW ended, NEW more, ended => more, CallOk(c, t, s, scr, ended)
  PROVE  CallOk(c, t, s, scr, more)
BY DEF CallOk

(* The saves, when something else changes. *)
LEMMA SavesStay ==
  ASSUME NEW s, NEW t, NEW status, NEW cs, NEW r, NEW ended, SavesOk(s, t, status, cs, r, ended),
         NEW now, now = "anonymous" => status = "anonymous", NEW ds, NEW q, NEW more, ended => more,
         \A k \in A!Slots : cs[k].at = "saving" => ds[k].at = "saving" /\ ds[k].op = cs[k].op,
         r.at = "saving" => q.at = "saving"
  PROVE  SavesOk(s, t, now, ds, q, more)
<1>1. ASSUME NEW i \in 1..Len(s) PROVE EntryOk(s[i], t, ds, q, more)
  <2>1. EntryOk(s[i], t, cs, r, ended)
    BY DEF SavesOk
  <2> QED
    BY <2>1 DEF EntryOk
<1>2. Orderly(s, now)
  BY DEF SavesOk, Orderly
<1> QED
  BY <1>1, <1>2 DEF SavesOk

(* One more save: nothing opens the session again but a login. *)
LEMMA OneMoreSave ==
  ASSUME NEW s, NEW t, NEW status, NEW cs, NEW r, NEW ended, SavesOk(s, t, status, cs, r, ended),
         NEW e, NEW ds, NEW q, NEW more, ended => more, EntryOk(e, e.tokens, ds, q, more),
         s = <<>> /\ status = "anonymous" => t = A!NoTokens,
         t # A!NoTokens \/ e.then \in {"none", "login"},
         \A i \in 1..Len(s) : Opens(s[i]) /\ e.tokens # A!NoTokens => s[i].tokens.user = e.tokens.user,
         \A k \in A!Slots : cs[k].at = "saving" => ds[k].at = "saving" /\ ds[k].op = cs[k].op,
         r.at = "saving" => q.at = "saving",
         e.by \in A!Slots => cs[e.by].at # "saving",
         e.by = A!TheRefresh => r.at # "saving"
  PROVE  SavesOk(Append(s, e), e.tokens, status, ds, q, more)
<1> DEFINE n == Len(s)
           u == Append(s, e)
<1>1. s \in Seq(AllSaves) /\ e \in AllSaves /\ n \in Nat
  BY DEF SavesOk, EntryOk
<1>2. u \in Seq(AllSaves) /\ Len(u) = n + 1 /\ u[n + 1] = e /\ (\A i \in 1..n : u[i] = s[i]) /\ u # <<>>
  BY <1>1
<1>3. 1..Len(u) = 1..n \cup {n + 1} /\ n + 1 \notin 1..n /\ 1..n \subseteq 1..Len(u)
  BY <1>1, <1>2
<1> HIDE DEF u
<1>4. ASSUME NEW i \in 1..n PROVE EntryOk(s[i], e.tokens, ds, q, more) /\ (s[i].by # e.by \/ s[i].by = A!NoOne)
  <2>1. EntryOk(s[i], t, cs, r, ended)
    BY DEF SavesOk
  <2>2. s[i].by \in A!Slots \cup {A!NoOne, A!TheRefresh}
    BY <2>1, Slotted DEF EntryOk, AllSaves
  <2>3. EntryOk(s[i], e.tokens, ds, q, more)
    BY <2>1 DEF EntryOk
  <2>4. s[i].by = e.by => s[i].by = A!NoOne
    BY <2>1, <2>2, Slotted DEF EntryOk
  <2> QED
    BY <2>3, <2>4
<1>5. \A i \in 1..Len(u) : EntryOk(u[i], e.tokens, ds, q, more)
  BY <1>2, <1>3, <1>4
<1>6. \A i, j \in 1..Len(u) : u[i].by = u[j].by => i = j \/ u[i].by = A!NoOne
  BY <1>2, <1>3, <1>4 DEF SavesOk
<1>7. ASSUME NEW i \in 0..n, NEW j \in 1..n, LoginFrom(s, i, j) PROVE LoginFrom(u, i, j)
  BY <1>2, <1>3, <1>7 DEF LoginFrom
<1>8. e.then = "login" => \A i \in 0..n : LoginFrom(u, i, n + 1)
  BY <1>1, <1>2, <1>3 DEF LoginFrom
<1>9. ASSUME NEW i \in 0..n, LoginFrom(s, i, n) PROVE LoginFrom(u, i, n + 1)
  <2>1. PICK k \in 1..n : i < k /\ k <= n /\ s[k].then = "login"
    BY <1>9 DEF LoginFrom
  <2>2. k \in 1..Len(u) /\ i < k /\ k <= n + 1 /\ u[k].then = "login"
    BY <1>1, <1>2, <1>3, <2>1
  <2> QED
    BY <2>2 DEF LoginFrom
<1>10. ASSUME e.then \notin {"none", "login"}, n # 0 PROVE n \in 1..n /\ s[n].tokens # A!NoTokens /\ s[n].then # "none"
  <2>1. n \in 1..n /\ s # <<>>
    BY <1>1, <1>10
  <2>2. s[n].tokens = t /\ EntryOk(s[n], t, cs, r, ended)
    BY <2>1 DEF SavesOk
  <2>3. s[n].tokens # A!NoTokens
    BY <1>10, <2>2
  <2> QED
    BY <2>1, <2>2, <2>3 DEF EntryOk, Opens
<1>11. ASSUME NEW i \in 1..Len(u), NEW j \in 1..Len(u), i < j, u[i].tokens = A!NoTokens, u[j].then # "none"
       PROVE LoginFrom(u, i, j)
  <2>1. i \in 1..n
    BY <1>1, <1>2, <1>3, <1>11
  <2>2. CASE j \in 1..n
    <3>1. LoginFrom(s, i, j)
      BY <1>2, <1>11, <2>1, <2>2 DEF SavesOk, Orderly
    <3> QED
      BY <1>7, <2>1, <2>2, <3>1
  <2>3. CASE j = n + 1 /\ e.then = "login"
    BY <1>8, <2>1, <2>3
  <2>4. CASE j = n + 1 /\ e.then # "login"
    <3>1. e.then \notin {"none", "login"} /\ n # 0
      BY <1>2, <1>11, <2>1, <2>4
    <3>2. i < n
      BY <1>1, <1>2, <1>10, <1>11, <2>1, <3>1
    <3>3. LoginFrom(s, i, n)
      BY <1>2, <1>10, <1>11, <2>1, <3>1, <3>2 DEF SavesOk, Orderly
    <3> QED
      BY <1>9, <2>1, <2>4, <3>3
  <2> QED
    BY <1>3, <2>2, <2>3, <2>4
<1>12. ASSUME NEW j \in 1..Len(u), status = "anonymous", u[j].then # "none" PROVE LoginFrom(u, 0, j)
  <2>1. CASE j \in 1..n
    <3>1. LoginFrom(s, 0, j)
      BY <1>2, <1>12, <2>1 DEF SavesOk, Orderly
    <3> QED
      BY <1>1, <1>7, <2>1, <3>1
  <2>2. CASE j = n + 1 /\ e.then = "login"
    BY <1>1, <1>8, <2>2
  <2>3. CASE j = n + 1 /\ e.then # "login"
    <3>1. e.then \notin {"none", "login"}
      BY <1>2, <1>12, <2>3
    <3>2. n # 0
      BY <1>1, <1>12, <3>1
    <3>3. LoginFrom(s, 0, n)
      BY <1>10, <1>12, <3>1, <3>2 DEF SavesOk, Orderly
    <3> QED
      BY <1>1, <1>9, <2>3, <3>3
  <2> QED
    BY <1>3, <2>1, <2>2, <2>3
<1>13. Orderly(u, status)
  BY <1>11, <1>12 DEF Orderly
<1>14. u[Len(u)].tokens = e.tokens
  BY <1>2
<1>15. SavesOk(u, e.tokens, status, ds, q, more)
  BY <1>2, <1>5, <1>6, <1>13, <1>14 DEF SavesOk
<1> QED
  BY <1>15 DEF u

(* One save less: the first is done. *)
LEMMA OneSaveLess ==
  ASSUME NEW s, NEW t, NEW status, NEW cs, NEW r, NEW ended, SavesOk(s, t, status, cs, r, ended), s # <<>>,
         NEW ds, NEW q, NEW now,
         now = "anonymous" => ~Opens(s[1]) \/ (status = "anonymous" /\ s[1].then = "refreshed"),
         \A k \in A!Slots : cs[k].at = "saving" /\ k # s[1].by => ds[k] = cs[k],
         r.at = "saving" /\ s[1].by # A!TheRefresh => q.at = "saving"
  PROVE  /\ SavesOk(Tail(s), t, now, ds, q, ended)
         /\ Tail(s) = <<>> => s[1].tokens = t
         /\ Len(Tail(s)) = Len(s) - 1 /\ \A i \in 1..Len(Tail(s)) : Tail(s)[i] = s[i + 1]
<1> DEFINE n == Len(s)
           u == Tail(s)
<1>1. s \in Seq(AllSaves) /\ n \in Nat \ {0}
  BY DEF SavesOk
<1>tail. u \in Seq(AllSaves) /\ Len(u) = n - 1 /\ \A i \in 1..Len(u) : u[i] = s[i + 1]
  BY <1>1
<1> HIDE DEF u
<1>2. /\ u \in Seq(AllSaves) /\ Len(u) = n - 1 /\ (\A i \in 1..Len(u) : u[i] = s[i + 1] /\ i + 1 \in 1..n)
      /\ u = <<>> => n = 1
  BY <1>1, <1>tail
<1>3. ASSUME NEW i \in 1..Len(u) PROVE EntryOk(u[i], t, ds, q, ended)
  <2>1. EntryOk(s[i + 1], t, cs, r, ended) /\ u[i] = s[i + 1] /\ i + 1 # 1
    BY <1>2 DEF SavesOk
  <2>2. s[i + 1].by = s[1].by => s[i + 1].by = A!NoOne
    BY <1>1, <1>2, <2>1 DEF SavesOk
  <2>3. PICK e : e = s[i + 1]
    OBVIOUS
  <2>4. e.by \in A!Slots => ds[e.by] = cs[e.by]
    BY <2>1, <2>2, <2>3, Slotted DEF EntryOk
  <2>5. e.by = A!TheRefresh => q.at = "saving"
    BY <2>1, <2>2, <2>3, Slotted DEF EntryOk
  <2> QED
    BY <2>1, <2>3, <2>4, <2>5 DEF EntryOk
<1>4. \A i, j \in 1..Len(u) : u[i].by = u[j].by => i = j \/ u[i].by = A!NoOne
  BY <1>2 DEF SavesOk
<1>5. u # <<>> => u[Len(u)].tokens = t
  <2>1. u # <<>> => Len(u) \in 1..Len(u)
    BY <1>1, <1>2
  <2> QED
    BY <1>1, <1>2, <2>1 DEF SavesOk
<1>6. ASSUME NEW i \in 0..Len(u), NEW j \in 1..Len(u), LoginFrom(s, i + 1, j + 1) PROVE LoginFrom(u, i, j)
  <2>1. PICK k \in 1..n : i + 1 < k /\ k <= j + 1 /\ s[k].then = "login"
    BY <1>6 DEF LoginFrom
  <2>2. k - 1 \in 1..Len(u) /\ i < k - 1 /\ k - 1 <= j /\ u[k - 1].then = "login"
    BY <1>1, <1>2, <2>1
  <2> QED
    BY <2>2 DEF LoginFrom
<1>7. ASSUME NEW i \in 1..Len(u), NEW j \in 1..Len(u), i < j, u[i].tokens = A!NoTokens, u[j].then # "none"
      PROVE LoginFrom(u, i, j)
  <2>1. i + 1 \in 1..n /\ j + 1 \in 1..n /\ i + 1 < j + 1 /\ s[i + 1].tokens = A!NoTokens /\ s[j + 1].then # "none"
    BY <1>1, <1>2, <1>7
  <2>2. LoginFrom(s, i + 1, j + 1)
    BY <2>1 DEF SavesOk, Orderly
  <2> QED
    BY <1>1, <1>2, <1>6, <2>2
<1>8. ASSUME NEW j \in 1..Len(u), now = "anonymous", u[j].then # "none" PROVE LoginFrom(u, 0, j)
  <2>1. j + 1 \in 1..n /\ 1 \in 1..n /\ 1 < j + 1 /\ s[j + 1].then # "none" /\ 0 \in 0..Len(u)
    BY <1>1, <1>2, <1>8
  <2>2. EntryOk(s[1], t, cs, r, ended)
    BY <2>1 DEF SavesOk
  <2>3. CASE ~Opens(s[1])
    <3>1. LoginFrom(s, 1, j + 1)
      BY <2>1, <2>2, <2>3 DEF SavesOk, Orderly, EntryOk
    <3> QED
      BY <1>6, <2>1, <3>1
  <2>4. CASE status = "anonymous" /\ s[1].then = "refreshed"
    <3>1. LoginFrom(s, 0, 1)
      BY <2>1, <2>4 DEF SavesOk, Orderly
    <3>2. PICK k \in 1..n : 0 < k /\ k <= 1 /\ s[k].then = "login"
      BY <3>1 DEF LoginFrom
    <3>3. k = 1
      BY <3>2
    <3> QED
      BY <2>4, <3>2, <3>3
  <2> QED
    BY <1>8, <2>3, <2>4
<1>9. Orderly(u, now)
  BY <1>7, <1>8 DEF Orderly
<1>10. u = <<>> => s[1].tokens = t
  BY <1>1, <1>2 DEF SavesOk
<1>11. SavesOk(u, t, now, ds, q, ended)
  BY <1>2, <1>3, <1>4, <1>5, <1>9 DEF SavesOk
<1> QED
  BY <1>2, <1>10, <1>11 DEF u

(* With nobody entering and no session, nothing but ends are to be saved.  *)
LEMMA OnlyEnds ==
  ASSUME OneSession, screen.status = "anonymous", \A k \in A!Slots : ~Entering(calls[k])
  PROVE  \A i \in 1..Len(saving) : saving[i].then = "none"
<1>1. ASSUME NEW k \in 1..Len(saving), saving[k].then = "login" PROVE FALSE
  <2>1. EntryOk(saving[k], tokens, calls, refreshing, refused)
    BY DEF OneSession, SavesOk
  <2> QED
    BY <1>1, <2>1 DEF EntryOk, Entering
<1> QED
  BY <1>1 DEF OneSession, SavesOk, Orderly, LoginFrom

(* One request changes, and nothing of the session but what is shown. *)
LEMMA OneCall ==
  ASSUME NEW cs, NEW t, NEW s, NEW scr, NEW ended, CallsOk(cs, t, s, scr, ended),
         NEW now, now.status = scr.status, now.notice \in {"none", scr.notice}, NEW more, ended => more,
         NEW k \in A!Slots, NEW c, CallOk(c, t, s, now, more),
         c.op = "me" => cs[k].op = "me" \/ \A j \in A!Slots : cs[j].op # "me",
         Entering(c) => Entering(cs[k]) \/ \A j \in A!Slots : ~Entering(cs[j])
  PROVE  CallsOk([cs EXCEPT ![k] = c], t, s, now, more)
<1> DEFINE ds == [cs EXCEPT ![k] = c]
<1>1. cs \in [A!Slots -> AllCalls] /\ c \in AllCalls
  BY DEF CallsOk, CallOk
<1>2. ds \in [A!Slots -> AllCalls] /\ ds[k] = c /\ \A j \in A!Slots \ {k} : ds[j] = cs[j]
  BY <1>1
<1> HIDE DEF ds
<1>3. ASSUME NEW j \in A!Slots \ {k} PROVE CallOk(ds[j], t, s, now, more)
  <2>1. CallOk(cs[j], t, s, scr, ended)
    BY DEF CallsOk
  <2> QED
    BY <1>2, <2>1 DEF CallOk
<1>4. \A j \in A!Slots : CallOk(ds[j], t, s, now, more)
  BY <1>2, <1>3
<1>5. \A i, j \in A!Slots : ds[i].op = "me" /\ ds[j].op = "me" => i = j
  BY <1>2 DEF CallsOk
<1>6. \A i, j \in A!Slots : Entering(ds[i]) /\ Entering(ds[j]) => i = j
  BY <1>2 DEF CallsOk
<1>7. CallsOk(ds, t, s, now, more)
  BY <1>2, <1>4, <1>5, <1>6 DEF CallsOk
<1> QED
  BY <1>7 DEF ds

(* A session that is not being read asks for nobody. *)
LEMMA NotReading ==
  ASSUME NEW cs, NEW t, NEW s, NEW scr, NEW ended, CallsOk(cs, t, s, scr, ended), scr.status \in {"anonymous", "authenticated"},
         NEW st, NEW r
  PROVE  ReadingOk(cs, t, st, s, scr.status, r)
BY DEF CallsOk, CallOk, ReadingOk

LEMMA SessionStays ==
  ASSUME OneSession, NEW k \in A!Slots, NEW d, calls' = [calls EXCEPT ![k] = d], calls[k].at # "saving",
         UNCHANGED <<age, tokens, stored, saving, refreshing>>, refused => refused',
         screen' \in AllScreens, screen'.status = screen.status, screen'.notice \in {"none", screen.notice},
         screen.status = "authenticated" => screen'.account \in {screen.account, tokens.user},
         CallOk(d, tokens, saving, screen', refused'),
         d.op = "me" => calls[k].op = "me",
         Entering(d) => Entering(calls[k]) \/ \A j \in A!Slots : ~Entering(calls[j]),
         \/ screen.status \in {"anonymous", "authenticated"}
         \/ d.op = "me" /\ d.at \in {"out", "back"} /\ calls[k].at \in {"out", "back"}
  PROVE  OneSession'
<1>1. PICK now : now = screen'
  OBVIOUS
<1>2. PICK more : more = refused'
  OBVIOUS
<1>3. /\ CallsOk(calls, tokens, saving, screen, refused) /\ CallOk(d, tokens, saving, now, more)
      /\ now.status = screen.status /\ now.notice \in {"none", screen.notice} /\ (refused => more) /\ now \in AllScreens
  BY <1>1, <1>2 DEF OneSession
<1>4. CallsOk([calls EXCEPT ![k] = d], tokens, saving, now, more)
  BY <1>3, OneCall
<1>5. PICK ds : ds = [calls EXCEPT ![k] = d]
  OBVIOUS
<1>6. ds[k] = d /\ \A j \in A!Slots \ {k} : ds[j] = calls[j]
  BY <1>5 DEF OneSession, CallsOk
<1>7. HoldOk(tokens, stored, saving, now, more)
  BY <1>1, <1>3 DEF OneSession, HoldOk
<1>8. RefreshOk(refreshing, tokens, more)
  BY <1>3 DEF OneSession, RefreshOk
<1>9. SavesOk(saving, tokens, now.status, ds, refreshing, more)
  <2>1. SavesOk(saving, tokens, screen.status, calls, refreshing, refused)
    BY DEF OneSession
  <2>2. \A j \in A!Slots : calls[j].at = "saving" => ds[j].at = "saving" /\ ds[j].op = calls[j].op
    BY <1>6
  <2> QED
    BY <1>3, <2>1, <2>2, SavesStay
<1>10. ReadingOk(ds, tokens, stored, saving, now.status, refreshing)
  <2>1. CASE screen.status \in {"anonymous", "authenticated"}
    BY <1>3, <1>4, <1>5, <2>1, NotReading
  <2>2. CASE d.op = "me" /\ d.at \in {"out", "back"} /\ calls[k].at \in {"out", "back"}
    <3>1. screen.status # "unreachable" /\ calls[k].op = "me"
      BY <2>2 DEF OneSession, CallsOk, CallOk
    <3>2. MeOk(calls[k], k, tokens, stored, saving, refreshing)
      BY <3>1 DEF OneSession, ReadingOk
    <3>3. MeOk(d, k, tokens, stored, saving, refreshing)
      BY <2>2, <3>2 DEF MeOk
    <3>4. \A j \in A!Slots : ds[j].op = "me" => MeOk(ds[j], j, tokens, stored, saving, refreshing)
      BY <1>6, <3>3 DEF OneSession, ReadingOk
    <3> QED
      BY <1>3, <1>6, <2>2, <3>1, <3>4 DEF ReadingOk
  <2> QED
    BY <2>1, <2>2
<1> QED
  BY <1>1, <1>2, <1>4, <1>5, <1>7, <1>8, <1>9, <1>10 DEF OneSession

LEMMA OneCallOk ==
  ASSUME OneSession, NEW k \in A!Slots
  PROVE  calls \in [A!Slots -> AllCalls] /\ calls[k] \in AllCalls /\ CallOk(calls[k], tokens, saving, screen, refused)
BY DEF OneSession, CallsOk

(* A request on its way, seen with its slot. *)
LEMMA UnderWay ==
  ASSUME OneSession, NEW k \in A!Slots, calls[k].at \in {"out", "back"}
  PROVE  /\ calls[k].op \notin {"none", "refresh"}
         /\ calls[k].op # "me" => screen.status \in {"anonymous", "authenticated"}
         /\ screen \in AllScreens
<1>1. CallOk(calls[k], tokens, saving, screen, refused) /\ screen \in AllScreens
  BY OneCallOk DEF OneSession, HoldOk
<1> QED
  BY <1>1, Idles DEF CallOk, AllScreens, Statuses

(* A request is served, and what it asked for is refused or done. *)
LEMMA ServeKeeps ==
  ASSUME OneSession, NEW k \in A!Slots, A!Serve(k)
  PROVE  OneSession'
<1>1. PICK c : c = calls[k]
  OBVIOUS
<1>2. c.at = "out" /\ c \in AllCalls /\ CallOk(c, tokens, saving, screen, refused) /\ c.op \notin {"none", "refresh"}
  BY <1>1, OneCallOk, UnderWay DEF A!Serve
<1>3. PICK answer : answer = A!Answer(c.op, c.token)
  OBVIOUS
<1>4. answer \in {"ok", "401", "404", "409"} /\ (c.op = "me" => answer # "409")
      /\ (OfSession(c) /\ answer = "ok" => c.token # A!NoTokens)
  BY <1>2, <1>3 DEF A!Answer, A!postRegister, A!postLogin, A!requireAuth, A!getMe, A!postTerms, A!putPrivacy, A!deleteMe,
                    A!getExport, AllCalls, OfSession, A!verifyAccess
<1>5. PICK token : token = (IF c.op = "login" /\ answer = "ok" THEN A!Pair(c.token.user) ELSE c.token)
  OBVIOUS
<1>6. token \in AllTokens /\ token.user = c.token.user /\ (OfSession(c) => token = c.token)
  BY <1>2, <1>5 DEF AllCalls, AllTokens, A!Pair, OneSession, OfSession
<1> DEFINE d == [c EXCEPT !.at = "back", !.answer = answer, !.user = c.token.user, !.token = token]
<1>7. /\ d \in AllCalls /\ d.op = c.op /\ d.leg = c.leg /\ d.at = "back" /\ d.answer = answer
      /\ d.user = c.token.user /\ d.token = token
  BY <1>2, <1>4, <1>6 DEF AllCalls, AllTokens
<1>8. calls' = [calls EXCEPT ![k] = d]
  BY <1>1, <1>3, <1>5, OneCallOk DEF A!Serve
<1>9. refused' = (refused \/ (answer = "401" /\ c.leg = "retry") \/ (answer = "404" /\ c.op = "me"))
  BY <1>1, <1>3 DEF A!Serve
<1> HIDE DEF d
<1>10. PICK more : more = refused'
  OBVIOUS
<1>11. CallOk(d, tokens, saving, screen, more)
  BY <1>2, <1>4, <1>6, <1>7, <1>9, <1>10 DEF CallOk, OfSession, Entering
<1>12. UNCHANGED <<age, tokens, stored, saving, screen, refreshing>>
  BY DEF A!Serve
<1>13. /\ screen.status \in {"anonymous", "authenticated"} \/ d.op = "me"
       /\ screen \in AllScreens /\ (Entering(d) => Entering(c))
  BY <1>1, <1>2, <1>7, UnderWay DEF Entering
<1> QED
  BY <1>1, <1>2, <1>7, <1>8, <1>9, <1>10, <1>11, <1>12, <1>13, SessionStays

(* An answer is lost, or is one that says nothing. *)
LEMMA LoseKeeps ==
  ASSUME OneSession, NEW k \in A!Slots, NEW as \in A!Failures, A!Lose(k, as)
  PROVE  OneSession'
<1>1. PICK c : c = calls[k]
  OBVIOUS
<1>2. c.at \in {"out", "back"} /\ c \in AllCalls /\ CallOk(c, tokens, saving, screen, refused) /\ c.op \notin {"none", "refresh"}
  BY <1>1, OneCallOk, UnderWay DEF A!Lose
<1> DEFINE d == [c EXCEPT !.at = "back", !.answer = as]
<1>3. /\ d \in AllCalls /\ d.op = c.op /\ d.leg = c.leg /\ d.at = "back" /\ d.answer = as /\ as \in {"network", "500"}
      /\ d.token = c.token
  BY <1>2 DEF AllCalls, A!Failures
<1>4. calls' = [calls EXCEPT ![k] = d]
  BY <1>1, OneCallOk DEF A!Lose
<1>5. refused' = (refused \/ (as = "500" /\ c.op = "me"))
  BY <1>1 DEF A!Lose
<1> HIDE DEF d
<1>6. PICK more : more = refused'
  OBVIOUS
<1>7. CallOk(d, tokens, saving, screen, more)
  BY <1>2, <1>3, <1>5, <1>6 DEF CallOk, OfSession, Entering
<1>8. UNCHANGED <<age, tokens, stored, saving, screen, refreshing>>
  BY DEF A!Lose
<1>9. /\ screen.status \in {"anonymous", "authenticated"} \/ d.op = "me"
      /\ screen \in AllScreens /\ (Entering(d) => Entering(c))
  BY <1>1, <1>2, <1>3, UnderWay DEF Entering
<1> QED
  BY <1>1, <1>2, <1>3, <1>4, <1>5, <1>6, <1>7, <1>8, <1>9, SessionStays

(* The refresh is answered, or its answer is lost. *)
LEMMA RefreshKeeps ==
  ASSUME OneSession, A!ServeRefresh \/ \E as \in A!Failures : A!LoseRefresh(as)
  PROVE  OneSession'
<1>1. UNCHANGED <<age, tokens, stored, saving, screen, calls>> /\ (refused => refused')
  BY DEF A!ServeRefresh, A!LoseRefresh
<1>2. refreshing # A!Idle /\ refreshing.at \in {"out", "back"} /\ refreshing.token # A!NoTokens
  <2>1. refreshing.at \in {"out", "back"} /\ (refreshing.at = "out" \/ refreshing.token # A!NoTokens)
    BY DEF A!ServeRefresh, A!LoseRefresh
  <2>2. refreshing # A!Idle
    BY <2>1, Idles
  <2> QED
    BY <2>1, <2>2 DEF OneSession, RefreshOk
<1>3. /\ refreshing \in AllCalls /\ refreshing.op = "refresh" /\ refreshing.token.user = tokens.user /\ tokens.user \in Users
  BY <1>2 DEF OneSession, RefreshOk
<1>4. /\ refreshing' \in AllCalls /\ refreshing'.op = "refresh" /\ refreshing'.at = "back"
      /\ refreshing'.answer \in {"ok", "network", "500", "401"} /\ refreshing'.token.user = tokens.user
      /\ refreshing'.answer \in {"401", "500"} => refused'
  <2>1. ASSUME NEW as \in A!Failures, A!LoseRefresh(as)
        PROVE  /\ refreshing' \in AllCalls /\ refreshing'.op = "refresh" /\ refreshing'.at = "back"
               /\ refreshing'.answer \in {"ok", "network", "500", "401"} /\ refreshing'.token.user = tokens.user
               /\ refreshing'.answer \in {"401", "500"} => refused'
    <3>1. refreshing' = [refreshing EXCEPT !.at = "back", !.answer = as] /\ refused' = (refused \/ as = "500")
          /\ as \in {"network", "500"}
      BY <2>1 DEF A!LoseRefresh, A!Failures
    <3> QED
      BY <1>3, <3>1 DEF AllCalls
  <2>2. CASE A!ServeRefresh
    <3>1. PICK answer : answer = A!postRefresh(refreshing.token)
      OBVIOUS
    <3>2. answer \in {"ok", "401"} /\ refused' = (refused \/ answer = "401")
      BY <2>2, <3>1 DEF A!ServeRefresh, A!postRefresh
    <3>3. PICK token : token = (IF answer = "ok" THEN A!Pair(refreshing.token.user) ELSE refreshing.token)
      OBVIOUS
    <3>4. token \in AllTokens /\ token.user = tokens.user /\ refreshing.token.user \in Someone
      BY <1>3, <3>3 DEF AllCalls, AllTokens, A!Pair, OneSession
    <3>5. refreshing' = [refreshing EXCEPT !.at = "back", !.answer = answer, !.user = refreshing.token.user, !.token = token]
      BY <2>2, <3>1, <3>3 DEF A!ServeRefresh
    <3> QED
      BY <1>3, <3>2, <3>4, <3>5 DEF AllCalls
  <2> QED
    BY <2>1, <2>2
<1>5. refreshing'.token # A!NoTokens /\ refreshing' # A!Idle
  BY <1>3, <1>4, Idles
<1>6. RefreshOk(refreshing', tokens, refused')
  BY <1>3, <1>4, <1>5 DEF RefreshOk
<1>7. PICK more : more = refused'
  OBVIOUS
<1>8. CallsOk(calls, tokens, saving, screen, more) /\ HoldOk(tokens, stored, saving, screen, more)
  BY <1>1, <1>7, RefusedMore DEF OneSession, CallsOk, HoldOk
<1>9. PICK q : q = refreshing'
  OBVIOUS
<1>10. SavesOk(saving, tokens, screen.status, calls, q, more)
  <2>1. SavesOk(saving, tokens, screen.status, calls, refreshing, refused)
    BY DEF OneSession
  <2> QED
    BY <1>1, <1>2, <1>7, <1>9, <2>1, SavesStay
<1>11. ReadingOk(calls, tokens, stored, saving, screen.status, q)
  <2>1. q # A!Idle /\ q.at = "back" /\ q.token # A!NoTokens
    BY <1>4, <1>5, <1>9
  <2> QED
    BY <1>2, <2>1 DEF OneSession, ReadingOk, MeOk
<1> QED
  BY <1>1, <1>6, <1>7, <1>8, <1>9, <1>10, <1>11 DEF OneSession

(* Tokens expire. *)
LEMMA TimeKeeps ==
  ASSUME OneSession, NEW refreshToo \in BOOLEAN, A!TokensExpire(refreshToo)
  PROVE  OneSession'
BY DEF A!TokensExpire, OneSession

(* A request is sent. *)
LEMMA BeginKeeps ==
  ASSUME OneSession, NEW op \in {"login", "register", "terms", "privacy", "delete", "export"}, NEW t \in AllTokens, A!Begin(op, t),
         UNCHANGED <<age, tokens, stored, saving, refreshing, refused>>,
         screen.status \in {"anonymous", "authenticated"}, screen' = screen \/ screen' = [screen EXCEPT !.notice = "none"],
         op \in {"login", "register"} => \A j \in A!Slots : ~Entering(calls[j]),
         CallOk(A!send(op, t), tokens, saving, screen', refused)
  PROVE  OneSession'
<1>1. PICK k \in A!Slots \ A!Busy : calls' = [calls EXCEPT ![k] = A!send(op, t)]
  BY DEF A!Begin
<1>2. calls[k] = A!Idle
  BY <1>1 DEF A!Busy
<1>3. A!send(op, t).op = op
  BY Sent
<1>4. /\ screen' \in AllScreens /\ screen'.status = screen.status /\ screen'.notice \in {"none", screen.notice}
      /\ screen'.account = screen.account
  BY DEF OneSession, HoldOk, AllScreens, AllNotices
<1>5. PICK d : d = A!send(op, t)
  OBVIOUS
<1>6. CallOk(d, tokens, saving, screen', refused') /\ d.op = op
  BY <1>3, <1>5
<1> QED
  BY <1>1, <1>2, <1>4, <1>5, <1>6, Idles, SessionStays DEF Entering

(* The session left on the device is read, and its user asked for: nothing *)
(* else is under way.                                                      *)
LEMMA NothingLeft ==
  ASSUME age' \in Nat, HoldOk(tokens', stored', saving', screen', refused'), saving' = <<>>, refreshing' = A!Idle,
         calls' \in [A!Slots -> AllCalls], \A k \in A!Slots : calls'[k] = A!Idle
  PROVE  OneSession'
<1>1. CallsOk(calls', tokens', saving', screen', refused')
  BY Idles DEF CallsOk, Entering
<1>2. RefreshOk(refreshing', tokens', refused')
  BY DEF RefreshOk
<1>3. SavesOk(saving', tokens', screen'.status, calls', refreshing', refused')
  BY DEF SavesOk, Orderly
<1>4. ReadingOk(calls', tokens', stored', saving', screen'.status, refreshing')
  BY Idles DEF ReadingOk
<1> QED
  BY <1>1, <1>2, <1>3, <1>4 DEF OneSession
LEMMA BootstrapKeeps ==
  ASSUME OneSession, A!bootstrap
  PROVE  OneSession'
<1>1. \A k \in A!Slots : calls[k].op # "me"
  BY DEF A!bootstrap
<1>2. saving = <<>> /\ refreshing = A!Idle
  BY <1>1 DEF A!bootstrap, A!SessionGate, OneSession, ReadingOk
<1>3. calls \in [A!Slots -> AllCalls] /\ \A k \in A!Slots : calls[k] = A!Idle
  BY <1>1 DEF A!bootstrap, A!SessionGate, OneSession, CallsOk, CallOk
<1>4. tokens' = stored /\ UNCHANGED <<age, stored, saving, refreshing, refused>>
  BY DEF A!bootstrap
<1>5. stored \in AllTokens /\ (stored = A!NoTokens \/ stored.user \in Users)
  BY DEF OneSession, HoldOk
<1>6. /\ screen.account \in Someone /\ screen.notice \in AllNotices
      /\ screen.notice = "session_expired" => refused
  BY DEF OneSession, HoldOk, AllScreens
<1>7. CASE stored = A!NoTokens
  <2>1. screen' = [status |-> "anonymous", account |-> NoUser, notice |-> screen.notice] /\ calls' = calls
    BY <1>7 DEF A!bootstrap, A!Show
  <2>2. screen'.status = "anonymous" /\ screen'.notice = screen.notice /\ screen' \in AllScreens
    BY <1>6, <2>1 DEF AllScreens, Statuses, Someone
  <2>3. HoldOk(tokens', stored', saving', screen', refused')
    BY <1>4, <1>5, <1>6, <1>7, <2>2 DEF HoldOk
  <2> QED
    BY <1>2, <1>3, <1>4, <2>1, <2>3, NothingLeft DEF OneSession
<1>8. CASE stored # A!NoTokens
  <2>1. screen' = [status |-> "checking", account |-> screen.account, notice |-> screen.notice] /\ A!Begin("me", stored)
    BY <1>8 DEF A!bootstrap, A!Show
  <2>2. screen'.status = "checking" /\ screen'.notice = screen.notice /\ screen' \in AllScreens
    BY <1>6, <2>1 DEF AllScreens, Statuses
  <2>3. HoldOk(tokens', stored', saving', screen', refused')
    BY <1>4, <1>5, <1>6, <2>2 DEF HoldOk
  <2>4. PICK k \in A!Slots : calls' = [calls EXCEPT ![k] = A!send("me", stored)]
    BY <2>1 DEF A!Begin
  <2>5. PICK d : d = A!send("me", stored)
    OBVIOUS
  <2>6. d \in AllCalls /\ d.op = "me" /\ d.token = stored /\ d.at = "out" /\ d.leg = "first" /\ d.answer = "none"
    BY <1>5, <2>5, Sent
  <2>7. PICK now : now = screen'
    OBVIOUS
  <2>8. CallOk(d, stored, saving, now, refused)
    BY <1>5, <1>8, <2>2, <2>6, <2>7 DEF CallOk, Entering, OfSession
  <2>9. PICK cs : cs = calls'
    OBVIOUS
  <2>10. cs \in [A!Slots -> AllCalls] /\ cs[k] = d /\ \A j \in A!Slots \ {k} : cs[j] = A!Idle
    BY <1>3, <2>4, <2>5, <2>6, <2>9
  <2>11. CallsOk(cs, stored, saving, now, refused)
    BY <2>6, <2>8, <2>10, Idles DEF CallsOk, Entering
  <2>12. RefreshOk(refreshing, stored, refused)
    BY <1>2 DEF RefreshOk
  <2>13. SavesOk(saving, stored, now.status, cs, refreshing, refused)
    BY <1>2 DEF SavesOk, Orderly
  <2>14. ReadingOk(cs, stored, stored, saving, now.status, refreshing)
    BY <1>2, <2>2, <2>6, <2>7, <2>10, Idles DEF ReadingOk, MeOk
  <2> QED
    BY <1>4, <2>3, <2>7, <2>9, <2>11, <2>12, <2>13, <2>14 DEF OneSession
<1> QED
  BY <1>7, <1>8

(* A user comes in. *)
LEMMA EnterKeeps ==
  ASSUME OneSession, NEW u \in Users, A!Login(u) \/ A!Register(u)
  PROVE  OneSession'
<1>1. PICK op \in {"login", "register"} : A!Enter(op, u) /\ (op = "login" => screen' = [screen EXCEPT !.notice = "none"])
                                          /\ (op = "register" => screen' = screen)
  BY DEF A!Login, A!Register
<1>2. screen.status = "anonymous" /\ UNCHANGED <<age, tokens, stored, saving, refreshing, refused>>
  BY <1>1 DEF A!Login, A!Register, A!GuestOnly, A!Enter
<1>3. \A j \in A!Slots : ~Entering(calls[j])
  BY <1>1, Idles DEF A!Enter, A!Busy, Entering
<1>4. \A i \in 1..Len(saving) : saving[i].then = "none"
  BY <1>2, <1>3, OnlyEnds
<1>5. tokens = A!NoTokens
  <2>1. CASE saving = <<>>
    BY <1>2, <2>1 DEF OneSession, HoldOk
  <2>2. CASE saving # <<>>
    <3>1. saving \in Seq(AllSaves)
      BY DEF OneSession, SavesOk
    <3>2. Len(saving) \in 1..Len(saving)
      BY <2>2, <3>1
    <3>3. EntryOk(saving[Len(saving)], tokens, calls, refreshing, refused) /\ saving[Len(saving)].tokens = tokens
      BY <2>2, <3>2 DEF OneSession, SavesOk
    <3> QED
      BY <1>4, <3>2, <3>3 DEF EntryOk, Opens
  <2> QED
    BY <2>1, <2>2
<1>6. screen'.status = "anonymous" /\ (op = "login" => screen'.notice = "none")
  BY <1>1, <1>2 DEF OneSession, HoldOk, AllScreens
<1> DEFINE t == [user |-> u, issued |-> 0]
<1>7. t \in AllTokens /\ t.user = u
  BY DEF AllTokens, Someone
<1>8. A!Begin(op, t)
  BY <1>1 DEF A!Enter
<1> HIDE DEF t
<1>9. CallOk(A!send(op, t), tokens, saving, screen', refused)
  BY <1>4, <1>5, <1>6, <1>7, Sent DEF CallOk, Entering, OfSession
<1> QED
  BY <1>1, <1>2, <1>3, <1>7, <1>8, <1>9, BeginKeeps

(* A request is made with the session, or with what is left of it. *)
LEMMA PrivateKeeps ==
  ASSUME OneSession, A!TermsGate \/ A!HidePresence \/ A!ExportData \/ A!DeleteAccount
  PROVE  OneSession'
<1>1. PICK op \in {"terms", "privacy", "export", "delete"} : A!Private(op)
  BY DEF A!TermsGate, A!HidePresence, A!ExportData, A!DeleteAccount
<1>2. screen.status = "authenticated" /\ UNCHANGED <<age, tokens, stored, saving, screen, refreshing, refused>> /\ A!Begin(op, tokens)
  BY <1>1 DEF A!TermsGate, A!HidePresence, A!ExportData, A!DeleteAccount, A!RequireAuth, A!Private
<1>3. tokens \in AllTokens /\ (tokens = A!NoTokens \/ tokens.user \in Users)
  BY DEF OneSession, HoldOk
<1>4. CallOk(A!send(op, tokens), tokens, saving, screen, refused)
  BY <1>2, <1>3, Sent DEF CallOk, Entering, OfSession
<1> QED
  BY <1>2, <1>3, <1>4, BeginKeeps

LEMMA RestartKeeps ==
  ASSUME OneSession, A!Restart
  PROVE  OneSession'
<1>1. /\ tokens' = A!NoTokens /\ refreshing' = A!Idle /\ calls' = [k \in A!Slots |-> A!Idle] /\ saving' = <<>>
      /\ screen' = [status |-> "checking", account |-> NoUser, notice |-> "none"]
      /\ UNCHANGED <<age, stored, refused>>
  BY DEF A!Restart, A!Show
<1>2. screen'.status = "checking" /\ screen'.notice = "none" /\ screen' \in AllScreens
  BY <1>1 DEF AllScreens, Statuses, Someone, AllNotices
<1>3. HoldOk(tokens', stored', saving', screen', refused')
  BY <1>1, <1>2, Idles DEF HoldOk, OneSession
<1>4. calls' \in [A!Slots -> AllCalls] /\ \A k \in A!Slots : calls'[k] = A!Idle
  BY <1>1, Idles
<1> QED
  BY <1>1, <1>3, <1>4, NothingLeft DEF OneSession

(* The ghost of a session that changes hands. *)
LEMMA SameHands ==
  ASSUME A!ChangesHands, ~raced'
  PROVE  /\ ~raced
         /\ tokens'.user # tokens.user => /\ refreshing'.at \notin {"out", "back"}
                                          /\ \A k \in A!Slots : ~A!Acts(calls'[k])
         /\ ~(tokens = A!NoTokens /\ saving' # saving /\ A!Last(saving').then = "session_expired")
BY DEF A!ChangesHands

(* The memory changes and the device has one more save: for the user who   *)
(* leaves, for a request that came back, or for the refresh.               *)
ForTheUser(e) ==
  e.by = A!NoOne /\ e.then = "none" /\ screen.status = "authenticated" /\ UNCHANGED <<calls, refreshing, refused>>
ForRequest(e, k) ==
  /\ e.by = k /\ calls[k].at = "back" /\ calls' = [calls EXCEPT ![k] = A!Kept(calls[k])] /\ UNCHANGED refreshing
  /\ \/ e.then = "session_expired" /\ refused /\ refused' = refused
     \/ e.then = "account_deleted" /\ calls[k].op = "delete" /\ refused' = refused
     \/ e.then = "login" /\ calls[k].op = "login" /\ e.tokens.user \in Users
ForTheRefresh(e) ==
  /\ e.by = A!TheRefresh /\ refreshing.at = "back" /\ refreshing' = A!Kept(refreshing) /\ UNCHANGED <<calls, refused>>
  /\ \/ e.then = "session_expired" /\ refused
     \/ e.then = "refreshed" /\ e.tokens.user = tokens.user /\ tokens.user \in Users
LEMMA SaveKeeps ==
  ASSUME OneSession, NEW e \in AllSaves, tokens' = e.tokens, saving' = Append(saving, e), UNCHANGED <<age, stored, screen>>,
         A!ChangesHands, ~raced',
         ~Opens(e) => e.tokens = A!NoTokens,
         tokens # A!NoTokens \/ e.then \in {"none", "login"},
         ForTheUser(e) \/ ForTheRefresh(e) \/ \E k \in A!Slots : ForRequest(e, k)
  PROVE  OneSession'
<1>1. saving \in Seq(AllSaves)
  BY DEF OneSession, SavesOk
<1>2. PICK s : s = saving'
  OBVIOUS
<1>3. /\ s \in Seq(AllSaves) /\ Len(s) = Len(saving) + 1 /\ s # <<>> /\ s[Len(s)] = e
      /\ \A i \in 1..Len(saving) : s[i] = saving[i]
  BY <1>1, <1>2
<1>4. PICK cs : cs = calls'
  OBVIOUS
<1>5. PICK r : r = refreshing'
  OBVIOUS
<1>6. PICK more : more = refused'
  OBVIOUS
<1>7. calls \in [A!Slots -> AllCalls] /\ \A j \in A!Slots : calls[j] \in AllCalls /\ CallOk(calls[j], tokens, saving, screen, refused)
  BY DEF OneSession, CallsOk
<1>8. ASSUME NEW k \in A!Slots, ForRequest(e, k)
      PROVE  /\ cs \in [A!Slots -> AllCalls] /\ cs[k] = A!Kept(calls[k])
             /\ \A j \in A!Slots \ {k} : cs[j] = calls[j]
             /\ cs[k].at = "saving" /\ cs[k].op = calls[k].op /\ cs[k].op # "none" /\ cs[k].leg = calls[k].leg
             /\ cs[k].token = calls[k].token /\ cs[k].answer = calls[k].answer
  <2>1. calls[k] \in AllCalls /\ calls[k].op # "none"
    BY <1>7, <1>8, UnderWay DEF ForRequest
  <2>2. A!Kept(calls[k]) \in AllCalls
    BY <2>1, KeptCall
  <2>3. cs = [calls EXCEPT ![k] = A!Kept(calls[k])]
    BY <1>4, <1>8 DEF ForRequest
  <2>4. cs \in [A!Slots -> AllCalls] /\ cs[k] = A!Kept(calls[k]) /\ \A j \in A!Slots \ {k} : cs[j] = calls[j]
    BY <1>7, <2>2, <2>3
  <2> QED
    BY <2>1, <2>4, KeptCall
<1>9. /\ cs \in [A!Slots -> AllCalls]
      /\ \A j \in A!Slots : /\ cs[j].op = calls[j].op /\ (calls[j].at = "saving" => cs[j].at = "saving")
                            /\ cs[j] = calls[j] \/ cs[j].at = "saving"
  <2>1. CASE cs = calls
    BY <1>7, <2>1
  <2>2. CASE cs # calls
    <3>1. PICK k \in A!Slots : ForRequest(e, k)
      BY <1>4, <2>2 DEF ForTheUser, ForTheRefresh
    <3> QED
      BY <1>8, <3>1
  <2> QED
    BY <2>1, <2>2
<1>10. screen.status # "unreachable" /\ (screen.status = "checking" => e.then \in {"session_expired", "refreshed"})
  <2>1. CASE ForTheUser(e)
    BY <2>1 DEF ForTheUser
  <2>2. CASE ForTheRefresh(e)
    <3>1. refreshing # A!Idle
      BY <2>2, Idles DEF ForTheRefresh
    <3> QED
      BY <2>2, <3>1 DEF ForTheRefresh, OneSession, ReadingOk
  <2>3. ASSUME NEW k \in A!Slots, ForRequest(e, k)
        PROVE  screen.status # "unreachable" /\ (screen.status = "checking" => e.then \in {"session_expired", "refreshed"})
    <3>1. CallOk(calls[k], tokens, saving, screen, refused) /\ calls[k].op \notin {"none", "refresh"}
      BY <1>7, <2>3, UnderWay DEF ForRequest
    <3> QED
      BY <2>3, <3>1 DEF ForRequest, CallOk
  <2> QED
    BY <2>1, <2>2, <2>3
<1>11. e.then = "login" => /\ \A i \in 1..Len(saving) : saving[i].then = "none"
                           /\ tokens = A!NoTokens /\ screen.status = "anonymous" /\ screen.notice # "session_expired"
                           /\ e.tokens.user \in Users
  <2>1. ASSUME e.then = "login"
        PROVE  /\ \A i \in 1..Len(saving) : saving[i].then = "none"
               /\ tokens = A!NoTokens /\ screen.status = "anonymous" /\ screen.notice # "session_expired"
               /\ e.tokens.user \in Users
    <3>1. PICK k \in A!Slots : ForRequest(e, k)
      BY <2>1 DEF ForTheUser, ForTheRefresh
    <3>2. CallOk(calls[k], tokens, saving, screen, refused) /\ calls[k].op = "login" /\ calls[k].at = "back"
      BY <1>7, <2>1, <3>1 DEF ForRequest
    <3> QED
      BY <2>1, <3>1, <3>2 DEF ForRequest, CallOk, Entering
  <2> QED
    BY <2>1
<1>12. e.then # "login" => more = refused
  BY <1>6 DEF ForTheUser, ForTheRefresh, ForRequest
<1>13. e.then = "session_expired" => more
  BY <1>6 DEF ForTheUser, ForTheRefresh, ForRequest
<1>14. e.then = "refreshed" => e.tokens.user = tokens.user /\ tokens.user \in Users
  BY DEF ForTheUser, ForTheRefresh, ForRequest
<1>15. /\ ~raced
       /\ e.tokens.user # tokens.user => /\ r.at \notin {"out", "back"}
                                         /\ \A j \in A!Slots : ~A!Acts(cs[j])
  BY <1>4, <1>5, SameHands DEF A!Acts
<1>16. e.tokens.user = tokens.user =>
         /\ e.then \in {"none", "refreshed"} /\ (e.tokens = A!NoTokens <=> tokens = A!NoTokens)
         /\ more = refused
  <2>1. ASSUME e.tokens.user = tokens.user, tokens = A!NoTokens PROVE e.then = "none"
    BY <1>11, <2>1, Idles
  <2>2. ASSUME e.tokens.user = tokens.user, tokens # A!NoTokens PROVE e.tokens # A!NoTokens /\ e.then = "refreshed"
    <3>1. tokens.user \in Users
      BY <2>2 DEF OneSession, HoldOk
    <3> QED
      BY <1>11, <2>2, <3>1, Idles DEF Opens
  <2> QED
    BY <1>12, <2>1, <2>2, Idles DEF Opens
<1>17. HoldOk(e.tokens, stored, s, screen, more)
  <2>1. e.tokens \in AllTokens /\ (e.tokens = A!NoTokens \/ e.tokens.user \in Users)
    BY <1>11, <1>14 DEF AllSaves, Opens
  <2>2. screen.notice = "session_expired" => more
    BY <1>11, <1>12 DEF OneSession, HoldOk
  <2>3. screen.status = "authenticated" => e.tokens = A!NoTokens \/ (e.tokens.user \in Users /\ screen.account = e.tokens.user)
    <3>1. CASE e.then = "refreshed"
      BY <1>14, <3>1, Idles DEF OneSession, HoldOk
    <3>2. CASE e.then # "refreshed"
      BY <1>11, <3>2 DEF Opens
    <3> QED
      BY <3>1, <3>2
  <2> QED
    BY <1>3, <2>1, <2>2, <2>3 DEF OneSession, HoldOk
<1>18. ASSUME NEW j \in A!Slots PROVE CallOk(cs[j], e.tokens, s, screen, more)
  <2>1. PICK c : c = cs[j]
    OBVIOUS
  <2>2. PICK b : b = calls[j]
    OBVIOUS
  <2>3. /\ CallOk(b, tokens, saving, screen, refused) /\ c \in AllCalls /\ c.op = b.op /\ (c = b \/ c.at = "saving")
    BY <1>7, <1>9, <2>1, <2>2
  <2>4. CASE c # b
    <3>1. PICK k \in A!Slots : ForRequest(e, k)
      BY <1>4, <1>7, <2>1, <2>2, <2>4 DEF ForTheUser, ForTheRefresh
    <3>2. j = k
      BY <1>8, <2>1, <2>2, <2>4, <3>1
    <3>3. c.op # "none" /\ c.leg = b.leg /\ c.token = b.token /\ c.answer = b.answer /\ c.at = "saving" /\ b.at = "back"
      BY <1>8, <2>1, <2>2, <3>1, <3>2 DEF ForRequest
    <3>4. CallOk(c, e.tokens, s, screen, more)
      BY <2>3, <3>3 DEF CallOk, Entering, OfSession
    <3> QED
      BY <2>1, <3>4
  <2>5. CASE c = b /\ e.tokens.user # tokens.user
    <3>1. ~A!Acts(c)
      BY <1>15, <2>1, <2>5 DEF A!Acts
    <3>2. CallOk(c, e.tokens, s, screen, more)
      BY <2>3, <2>5, <3>1 DEF CallOk, Entering, OfSession, A!Acts, AllCalls
    <3> QED
      BY <2>1, <3>2
  <2>6. CASE c = b /\ e.tokens.user = tokens.user
    <3>1. tokens = A!NoTokens => e.then = "none" /\ e.tokens = A!NoTokens
      BY <1>14, <1>16, <2>6, Idles
    <3>2. (\A i \in 1..Len(saving) : saving[i].then = "none") /\ tokens = A!NoTokens => \A i \in 1..Len(s) : s[i].then = "none"
      <4>1. 1..Len(s) = 1..Len(saving) \cup {Len(s)}
        BY <1>1, <1>3
      <4> QED
        BY <1>3, <3>1, <4>1
    <3>3. CallOk(c, e.tokens, s, screen, refused)
      BY <2>3, <2>6, <3>1, <3>2 DEF CallOk, Entering, OfSession
    <3> QED
      BY <1>16, <2>1, <2>6, <3>3
  <2> QED
    BY <2>3, <2>4, <2>5, <2>6
<1>19. CallsOk(cs, e.tokens, s, screen, more)
  <2>1. \A i, j \in A!Slots : cs[i].op = "me" /\ cs[j].op = "me" => i = j
    BY <1>9 DEF OneSession, CallsOk
  <2>2. \A i, j \in A!Slots : Entering(cs[i]) /\ Entering(cs[j]) => i = j
    BY <1>9 DEF OneSession, CallsOk, Entering
  <2> QED
    BY <1>9, <1>18, <2>1, <2>2 DEF CallsOk
<1>20. RefreshOk(r, e.tokens, more)
  <2>1. CASE ForTheRefresh(e)
    <3>1. refreshing # A!Idle
      BY <2>1, Idles DEF ForTheRefresh
    <3>2. refreshing \in AllCalls /\ refreshing.op = "refresh" /\ refreshing.answer \in {"none", "ok", "network", "500", "401"}
      BY <3>1 DEF OneSession, RefreshOk
    <3>3. /\ r \in AllCalls /\ r.op = "refresh" /\ r.at = "saving" /\ r.answer = refreshing.answer
      BY <1>5, <2>1, <3>2, KeptCall DEF ForTheRefresh
    <3> QED
      BY <3>2, <3>3 DEF RefreshOk
  <2>2. CASE ~ForTheRefresh(e)
    <3>1. r = refreshing
      BY <1>5, <2>2 DEF ForTheUser, ForRequest
    <3>2. CASE e.tokens.user # tokens.user
      BY <1>15, <3>1, <3>2 DEF OneSession, RefreshOk
    <3>3. CASE e.tokens.user = tokens.user
      BY <1>16, <3>1, <3>3 DEF OneSession, RefreshOk
    <3> QED
      BY <3>2, <3>3
  <2> QED
    BY <2>1, <2>2
<1>21. SavesOk(saving, tokens, screen.status, calls, refreshing, more)
  <2>1. SavesOk(saving, tokens, screen.status, calls, refreshing, refused)
    BY DEF OneSession
  <2>2. CASE e.then = "login"
    <3>1. ASSUME NEW i \in 1..Len(saving) PROVE EntryOk(saving[i], tokens, calls, refreshing, more)
      <4>1. EntryOk(saving[i], tokens, calls, refreshing, refused) /\ saving[i].then = "none"
        BY <1>11, <2>1, <2>2 DEF SavesOk
      <4> QED
        BY <4>1 DEF EntryOk
    <3> QED
      BY <2>1, <3>1 DEF SavesOk
  <2> QED
    BY <1>12, <2>1, <2>2
<1>22. SavesOk(s, e.tokens, screen.status, cs, r, more)
  <2>1. r.at = "saving" \/ r = refreshing
    <3>1. CASE ForTheRefresh(e)
      <4>1. refreshing # A!Idle
        BY <3>1, Idles DEF ForTheRefresh
      <4>2. refreshing \in AllCalls
        BY <4>1 DEF OneSession, RefreshOk
      <4> QED
        BY <1>5, <3>1, <4>2, KeptCall DEF ForTheRefresh
    <3>2. CASE ~ForTheRefresh(e)
      BY <1>5, <3>2 DEF ForTheUser, ForRequest
    <3> QED
      BY <3>1, <3>2
  <2>2. /\ e.by \in A!Slots => calls[e.by].at # "saving" /\ cs[e.by].at = "saving" /\ (e.then = "login" => cs[e.by].op = "login")
        /\ e.by = A!TheRefresh => refreshing.at # "saving" /\ r.at = "saving"
        /\ e.then = "refreshed" => e.by = A!TheRefresh
        /\ e.then = "login" => e.by \in A!Slots
    <3>1. CASE ForTheUser(e)
      BY <3>1, Slotted DEF ForTheUser
    <3>2. CASE ForTheRefresh(e)
      <4>1. refreshing # A!Idle
        BY <3>2, Idles DEF ForTheRefresh
      <4>2. refreshing \in AllCalls
        BY <4>1 DEF OneSession, RefreshOk
      <4> QED
        BY <1>5, <3>2, <4>2, KeptCall, Slotted DEF ForTheRefresh
    <3>3. ASSUME NEW k \in A!Slots, ForRequest(e, k)
          PROVE  /\ e.by = k /\ calls[k].at = "back" /\ cs[k].at = "saving" /\ (e.then = "login" => cs[k].op = "login")
                 /\ e.then # "refreshed"
      BY <1>8, <3>3 DEF ForRequest
    <3> QED
      BY <3>1, <3>2, <3>3, Slotted
  <2>3. EntryOk(e, e.tokens, cs, r, more)
    BY <1>11, <1>13, <1>14, <2>2 DEF EntryOk, Opens
  <2>4. \A i \in 1..Len(saving) : Opens(saving[i]) /\ e.tokens # A!NoTokens => saving[i].tokens.user = e.tokens.user
    <3>1. CASE e.then = "login"
      BY <1>11, <3>1 DEF Opens
    <3>2. CASE e.then = "refreshed"
      <4>1. tokens # A!NoTokens
        BY <1>14, <3>2, Idles
      <4> QED
        BY <1>14, <3>2, <4>1 DEF OneSession, SavesOk, EntryOk
    <3> QED
      BY <3>1, <3>2 DEF Opens
  <2>5. saving = <<>> /\ screen.status = "anonymous" => tokens = A!NoTokens
    BY DEF OneSession, HoldOk
  <2>6. SavesOk(Append(saving, e), e.tokens, screen.status, cs, r, more)
    BY <1>9, <1>21, <2>1, <2>2, <2>3, <2>4, <2>5, OneMoreSave
  <2> QED
    BY <1>2, <2>6
<1>23. ReadingOk(cs, e.tokens, stored, s, screen.status, r)
  <2>1. CASE screen.status # "checking"
    <3>1. screen.status \in {"anonymous", "authenticated"}
      BY <1>10, <2>1 DEF OneSession, HoldOk, AllScreens, Statuses
    <3> QED
      BY <1>19, <3>1, NotReading
  <2>2. CASE screen.status = "checking"
    <3>1. ASSUME ForTheRefresh(e) PROVE \E k \in A!Slots : cs[k].op = "me" /\ MeOk(cs[k], k, e.tokens, stored, s, r)
      <4>1. refreshing # A!Idle /\ refreshing.at = "back" /\ cs = calls /\ e.by = A!TheRefresh
        BY <1>4, <3>1, Idles DEF ForTheRefresh
      <4>2. refreshing \in AllCalls
        BY <4>1 DEF OneSession, RefreshOk
      <4>3. r.at = "saving"
        BY <1>5, <3>1, <4>2, KeptCall DEF ForTheRefresh
      <4>4. PICK k \in A!Slots : calls[k].op = "me" /\ MeOk(calls[k], k, tokens, stored, saving, refreshing)
        BY <2>2, <4>1 DEF OneSession, ReadingOk
      <4>5. calls[k].at = "waiting" /\ saving = <<>>
        BY <1>7, <4>1, <4>4 DEF MeOk, CallOk, AllCalls
      <4>6. Len(s) = 1 /\ s[1] = e
        BY <1>3, <4>5
      <4> QED
        BY <1>3, <4>1, <4>3, <4>4, <4>5, <4>6 DEF MeOk
    <3>2. ASSUME NEW k \in A!Slots, ForRequest(e, k) PROVE cs[k].op = "me" /\ MeOk(cs[k], k, e.tokens, stored, s, r)
      <4>1. calls[k].op = "me" /\ calls[k].at = "back" /\ e.by = k /\ r = refreshing
        BY <1>5, <1>7, <2>2, <3>2, UnderWay DEF ForRequest, CallOk
      <4>2. saving = <<>> /\ refreshing = A!Idle
        BY <4>1 DEF OneSession, ReadingOk, MeOk
      <4>3. Len(s) = 1 /\ s[1] = e
        BY <1>3, <4>2
      <4>4. e.then = "session_expired"
        BY <3>2, <4>1 DEF ForRequest
      <4> QED
        BY <1>3, <1>8, <3>2, <4>1, <4>2, <4>3, <4>4 DEF MeOk
    <3>3. PICK k \in A!Slots : cs[k].op = "me" /\ MeOk(cs[k], k, e.tokens, stored, s, r)
      BY <2>2, <3>1, <3>2 DEF ForTheUser
    <3>4. \A j \in A!Slots : cs[j].op = "me" => j = k
      BY <1>19, <3>3 DEF CallsOk
    <3> QED
      BY <2>2, <3>3, <3>4 DEF ReadingOk
  <2> QED
    BY <2>1, <2>2
<1> QED
  BY <1>2, <1>4, <1>5, <1>6, <1>17, <1>19, <1>20, <1>22, <1>23 DEF OneSession

(* The memory and the saves, as the operations of the store change them.   *)
LEMMA Saves ==
  ASSUME OneSession, NEW t \in AllTokens, NEW then \in AllNotices \cup {"login", "refreshed"}, NEW by \in 0..A!TheRefresh,
         A!saveTokens(t, then, by)
  PROVE  \E e \in AllSaves : /\ e.tokens = t /\ e.then = then /\ e.by = by
                             /\ tokens' = e.tokens /\ saving' = Append(saving, e) /\ UNCHANGED screen
                             /\ saving' # saving /\ A!Last(saving').then = then
<1> DEFINE e == [tokens |-> t, then |-> then, by |-> by]
<1>1. e \in AllSaves /\ e.tokens = t /\ e.then = then /\ e.by = by
  BY DEF AllSaves
<1>2. tokens' = e.tokens /\ saving' = Append(saving, e) /\ UNCHANGED screen
  BY DEF A!saveTokens
<1> HIDE DEF e
<1>3. saving \in Seq(AllSaves)
  BY DEF OneSession, SavesOk
<1>4. Len(saving') = Len(saving) + 1 /\ Len(saving) \in Nat /\ saving'[Len(saving) + 1] = e
  BY <1>1, <1>2, <1>3
<1>5. saving' # saving /\ A!Last(saving').then = then
  BY <1>1, <1>4 DEF A!Last
<1> QED
  BY <1>1, <1>2, <1>5

LEMMA LogoutKeeps ==
  ASSUME OneSession, A!logout, ~raced'
  PROVE  OneSession'
<1>1. A!saveTokens(A!NoTokens, "none", A!NoOne) /\ screen.status = "authenticated" /\ A!ChangesHands
      /\ UNCHANGED <<age, stored, calls, refreshing, refused>>
  BY DEF A!logout, A!leave, A!RequireAuth
<1>2. PICK e \in AllSaves : /\ e.tokens = A!NoTokens /\ e.then = "none" /\ e.by = A!NoOne
                            /\ tokens' = e.tokens /\ saving' = Append(saving, e) /\ UNCHANGED screen
  BY <1>1, Saves, Idles, Slotted DEF AllNotices
<1>3. ForTheUser(e) /\ ~Opens(e)
  BY <1>1, <1>2 DEF ForTheUser, Opens
<1> QED
  BY <1>1, <1>2, <1>3, SaveKeeps

(* The first 401 of a request: it waits for the one refresh, which starts  *)
(* if there is none.                                                       *)
LEMMA RenewKeeps ==
  ASSUME OneSession, NEW k \in A!Slots, A!Return(k), A!Renews(calls[k])
  PROVE  OneSession'
<1>1. calls \in [A!Slots -> AllCalls] /\ calls[k] \in AllCalls /\ CallOk(calls[k], tokens, saving, screen, refused)
  BY OneCallOk
<1>2. PICK c : c = calls[k]
  OBVIOUS
<1>3. /\ c \in AllCalls /\ c.at = "back" /\ c.op \notin {"none", "refresh"} /\ A!Renews(c)
      /\ c.op # "me" => screen.status \in {"anonymous", "authenticated"}
  BY <1>1, <1>2, UnderWay DEF A!Return
<1> DEFINE d == [c EXCEPT !.at = "waiting"]
<1>4. /\ d \in AllCalls /\ d.op = c.op /\ d.leg = c.leg /\ d.at = "waiting" /\ d.answer = c.answer
      /\ d.user = c.user /\ d.token = c.token
  BY <1>3 DEF AllCalls
<1>5. c.answer = "401" /\ c.leg = "first" /\ c.op \notin {"login", "register"}
  BY <1>3 DEF A!Renews
<1>6. calls' = [calls EXCEPT ![k] = d]
  BY <1>1, <1>2, <1>3 DEF A!Return
<1>7. PICK cs : cs = calls'
  OBVIOUS
<1>8. cs[k] = d /\ \A j \in A!Slots \ {k} : cs[j] = calls[j]
  BY <1>1, <1>6, <1>7
<1>9. cs = [calls EXCEPT ![k] = d]
  BY <1>6, <1>7
<1> HIDE DEF d
<1>10. UNCHANGED <<age, tokens, stored, saving, screen, refused>>
  BY <1>2, <1>3, <1>5 DEF A!Return, A!Stays
<1>11. CallsOk(cs, tokens, saving, screen, refused)
  <2>1. CallOk(d, tokens, saving, screen, refused)
    BY <1>1, <1>2, <1>3, <1>4, <1>5 DEF CallOk, OfSession, Entering
  <2>2. CallsOk(calls, tokens, saving, screen, refused)
    BY DEF OneSession
  <2> QED
    <3>1. d.op = "me" => calls[k].op = "me"
      BY <1>2, <1>4
    <3>2. Entering(d) => Entering(calls[k])
      BY <1>2, <1>4 DEF Entering
    <3>3. PICK now : now = screen
      OBVIOUS
    <3>4. CallOk(d, tokens, saving, now, refused) /\ now.status = screen.status /\ now.notice \in {"none", screen.notice}
      BY <2>1, <3>3
    <3>5. CallsOk([calls EXCEPT ![k] = d], tokens, saving, now, refused)
      BY <2>2, <3>1, <3>2, <3>4, OneCall
    <3> QED
      BY <1>9, <3>3, <3>5
<1>12. PICK r : r = refreshing'
  OBVIOUS
<1>13. /\ refreshing # A!Idle => r = refreshing
       /\ refreshing = A!Idle /\ tokens = A!NoTokens => r = [A!Idle EXCEPT !.op = "refresh", !.at = "back", !.answer = "401"]
       /\ refreshing = A!Idle /\ tokens # A!NoTokens => r = A!send("refresh", tokens)
  BY <1>2, <1>3, <1>12 DEF A!Return, A!StartRefresh
<1>14. tokens \in AllTokens /\ (tokens = A!NoTokens \/ tokens.user \in Users)
  BY DEF OneSession, HoldOk
<1>15. /\ RefreshOk(r, tokens, refused) /\ r # A!Idle
       /\ refreshing = A!Idle => r.at # "saving" /\ (tokens # A!NoTokens => r.token # A!NoTokens)
  <2>1. CASE refreshing # A!Idle
    BY <1>13, <2>1 DEF OneSession
  <2>2. CASE refreshing = A!Idle /\ tokens = A!NoTokens
    <3>1. /\ r \in AllCalls /\ r.op = "refresh" /\ r.at = "back" /\ r.answer = "401" /\ r.token = A!NoTokens
      BY <1>13, <2>2, Idles DEF A!Idle, AllCalls
    <3> QED
      BY <2>2, <3>1, Idles DEF RefreshOk
  <2>3. CASE refreshing = A!Idle /\ tokens # A!NoTokens
    <3>1. r \in AllCalls /\ r.op = "refresh" /\ r.at = "out" /\ r.answer = "none" /\ r.token = tokens
      BY <1>13, <1>14, <2>3, Sent
    <3> QED
      BY <1>14, <2>3, <3>1, Idles DEF RefreshOk
  <2> QED
    BY <2>1, <2>2, <2>3
<1>16. SavesOk(saving, tokens, screen.status, cs, r, refused)
  <2>1. SavesOk(saving, tokens, screen.status, calls, refreshing, refused)
    BY DEF OneSession
  <2>2. \A j \in A!Slots : calls[j].at = "saving" => cs[j].at = "saving" /\ cs[j].op = calls[j].op
    BY <1>2, <1>3, <1>8
  <2>3. refreshing.at = "saving" => r.at = "saving"
    BY <1>13, Idles
  <2> QED
    BY <2>1, <2>2, <2>3, SavesStay
<1>17. ReadingOk(cs, tokens, stored, saving, screen.status, r)
  <2>1. CASE c.op # "me"
    BY <1>3, <1>11, <2>1, NotReading
  <2>2. CASE c.op = "me"
    <3>1. screen.status = "checking" /\ tokens.user \in Users
      BY <1>1, <1>2, <1>3, <2>2 DEF CallOk
    <3>2. MeOk(c, k, tokens, stored, saving, refreshing)
      BY <1>2, <2>2 DEF OneSession, ReadingOk
    <3>3. MeOk(d, k, tokens, stored, saving, r)
      BY <1>3, <1>4, <1>15, <3>1, <3>2, Idles DEF MeOk
    <3>4. \A j \in A!Slots : cs[j].op = "me" => j = k
      BY <1>4, <1>8, <1>11, <2>2 DEF CallsOk
    <3> QED
      BY <1>4, <1>8, <2>2, <3>1, <3>3, <3>4 DEF ReadingOk
  <2> QED
    BY <2>1, <2>2
<1> QED
  BY <1>7, <1>10, <1>11, <1>12, <1>15, <1>16, <1>17 DEF OneSession

(* A session ends for whoever finds it expired, if it has not ended yet.   *)
LEMMA ExpireKeeps ==
  ASSUME OneSession, NEW by \in 0..A!TheRefresh, A!expire(by), A!ChangesHands, ~raced', UNCHANGED <<age, stored, refused>>,
         saving' # saving => /\ tokens # A!NoTokens => refused
                             /\ \/ by = A!TheRefresh /\ refreshing.at = "back" /\ refreshing' = A!Kept(refreshing) /\ UNCHANGED calls
                                \/ /\ by \in A!Slots /\ calls[by].at = "back" /\ UNCHANGED refreshing
                                   /\ calls' = [calls EXCEPT ![by] = A!Kept(calls[by])]
  PROVE  (saving' = saving /\ UNCHANGED <<tokens, screen>>) \/ OneSession'
<1>1. CASE ~A!Expires
  BY <1>1 DEF A!expire, A!Stays
<1>2. CASE A!Expires
  <2>1. A!saveTokens(A!NoTokens, "session_expired", by)
    BY <1>2 DEF A!expire, A!leave
  <2>2. PICK e \in AllSaves : /\ e.tokens = A!NoTokens /\ e.then = "session_expired" /\ e.by = by
                              /\ tokens' = e.tokens /\ saving' = Append(saving, e) /\ UNCHANGED screen
                              /\ saving' # saving /\ A!Last(saving').then = "session_expired"
    BY <2>1, Saves, Idles DEF AllNotices
  <2>3. tokens # A!NoTokens /\ ~Opens(e)
    BY <2>2, SameHands DEF Opens
  <2>4. ForTheRefresh(e) \/ \E k \in A!Slots : ForRequest(e, k)
    BY <2>2, <2>3 DEF ForTheRefresh, ForRequest
  <2> QED
    BY <2>2, <2>3, <2>4, SaveKeeps
<1> QED
  BY <1>1, <1>2

(* The user of the session has been asked for: nothing else is under way.  *)
LEMMA OnlyMe ==
  ASSUME OneSession, NEW k \in A!Slots, calls[k].op = "me"
  PROVE  /\ screen.status = "checking" /\ \A j \in A!Slots \ {k} : calls[j] = A!Idle
         /\ MeOk(calls[k], k, tokens, stored, saving, refreshing)
<1>1. screen.status = "checking"
  BY DEF OneSession, CallsOk, CallOk
<1>2. \A j \in A!Slots : calls[j].op = "me" => j = k
  BY DEF OneSession, CallsOk
<1>3. \A j \in A!Slots \ {k} : calls[j] = A!Idle
  BY <1>1, <1>2 DEF OneSession, CallsOk, CallOk
<1> QED
  BY <1>1, <1>3 DEF OneSession, ReadingOk

(* Any other answer: what whoever made the request does with it. *)
LEMMA MeKeeps ==
  ASSUME OneSession, NEW k \in A!Slots, A!Return(k), ~raced', calls[k].op = "me", ~A!Renews(calls[k])
  PROVE  OneSession'
<1>1. calls \in [A!Slots -> AllCalls] /\ calls[k] \in AllCalls /\ CallOk(calls[k], tokens, saving, screen, refused)
  BY OneCallOk
<1>2. PICK c : c = calls[k]
  OBVIOUS
<1>3. /\ c.op = "me" /\ c.at = "back" /\ screen.status = "checking" /\ tokens.user \in Users
      /\ refreshing = A!Idle /\ saving = <<>> /\ stored = tokens /\ \A j \in A!Slots \ {k} : calls[j] = A!Idle
  BY <1>1, <1>2, OnlyMe DEF A!Return, MeOk, CallOk
<1>4. /\ UNCHANGED <<age, stored, refreshing, refused>> /\ A!ChangesHands
      /\ calls' = [calls EXCEPT ![k] = IF saving' # saving THEN A!Kept(c) ELSE A!Idle]
      /\ IF c.answer = "401" /\ c.leg = "retry" THEN A!expire(k) ELSE A!settleMe(c, k)
  BY <1>2, <1>3 DEF A!Return, A!Settle
<1>5. saving' = saving => calls' \in [A!Slots -> AllCalls] /\ \A j \in A!Slots : calls'[j] = A!Idle
  BY <1>1, <1>3, <1>4, Idles
<1>6. CASE c.answer = "ok"
  <2>1. screen' = [screen EXCEPT !.status = "authenticated", !.account = c.user] /\ UNCHANGED <<tokens, saving>>
    BY <1>4, <1>6 DEF A!settleMe, A!SetScreen
  <2>2. c.user = tokens.user
    BY <1>1, <1>2, <1>3, <1>6 DEF CallOk, OfSession
  <2>3. screen'.status = "authenticated" /\ screen'.account = tokens.user /\ screen'.notice = screen.notice /\ screen' \in AllScreens
    BY <1>3, <2>1, <2>2 DEF OneSession, HoldOk, AllScreens, Statuses, Someone
  <2>4. HoldOk(tokens', stored', saving', screen', refused')
    BY <1>3, <1>4, <2>1, <2>3 DEF OneSession, HoldOk
  <2> QED
    BY <1>3, <1>4, <1>5, <2>1, <2>4, NothingLeft DEF OneSession
<1>7. CASE c.answer = "network"
  <2>1. screen' = [screen EXCEPT !.status = "unreachable"] /\ UNCHANGED <<tokens, saving>>
    BY <1>4, <1>7 DEF A!settleMe, A!SetScreen
  <2>2. screen'.status = "unreachable" /\ screen'.notice = screen.notice /\ screen' \in AllScreens
    BY <2>1 DEF OneSession, HoldOk, AllScreens, Statuses
  <2>3. HoldOk(tokens', stored', saving', screen', refused')
    BY <1>3, <1>4, <2>1, <2>2 DEF OneSession, HoldOk
  <2> QED
    BY <1>3, <1>4, <1>5, <2>1, <2>3, NothingLeft DEF OneSession
<1>8. CASE c.answer \notin {"ok", "network"}
  <2>1. A!expire(k) /\ A!Expires
    BY <1>3, <1>4, <1>8, Idles DEF A!settleMe, A!Expires
  <2>2. refused
    BY <1>1, <1>2, <1>3, <1>8 DEF CallOk, AllCalls, A!Renews
  <2>3. k \in 0..A!TheRefresh
    BY Slotted
  <2>4. A!saveTokens(A!NoTokens, "session_expired", k)
    BY <2>1 DEF A!expire, A!leave
  <2>5. saving' # saving
    BY <2>3, <2>4, Saves, Idles DEF AllNotices
  <2>6. calls' = [calls EXCEPT ![k] = A!Kept(calls[k])] /\ calls[k].at = "back"
    BY <1>2, <1>3, <1>4, <2>5
  <2> QED
    BY <1>4, <2>1, <2>2, <2>3, <2>5, <2>6, ExpireKeeps
<1> QED
  BY <1>6, <1>7, <1>8

LEMMA AnswerKeeps ==
  ASSUME OneSession, NEW k \in A!Slots, A!Return(k), ~raced', ~A!Renews(calls[k]), calls[k].op # "me"
  PROVE  OneSession'
<1>1. calls \in [A!Slots -> AllCalls] /\ calls[k] \in AllCalls /\ CallOk(calls[k], tokens, saving, screen, refused)
  BY OneCallOk
<1>2. PICK c : c = calls[k]
  OBVIOUS
<1>3. /\ c \in AllCalls /\ c.at = "back" /\ c.op \notin {"none", "me", "refresh"} /\ CallOk(c, tokens, saving, screen, refused)
      /\ screen.status \in {"anonymous", "authenticated"} /\ screen \in AllScreens
  BY <1>1, <1>2, UnderWay DEF A!Return
<1>4. /\ UNCHANGED <<age, stored, refreshing>> /\ A!ChangesHands
      /\ refused' = IF c.op = "login" /\ c.answer = "ok" THEN FALSE ELSE refused
      /\ IF c.answer = "401" /\ c.leg = "retry" THEN A!expire(k) ELSE A!Settle(c, k)
      /\ calls' = [calls EXCEPT ![k] = IF saving' # saving THEN A!Kept(c)
                                       ELSE IF c.op = "register" /\ c.answer = "ok" THEN A!send("login", c.token) ELSE A!Idle]
  BY <1>2, <1>3 DEF A!Return
<1>5. k \in 0..A!TheRefresh
  BY Slotted
<1>6. ASSUME UNCHANGED <<tokens, saving, refused>>, screen' \in AllScreens, screen'.status = screen.status,
             screen'.notice \in {"none", screen.notice},
             c.op = "register" /\ c.answer = "ok" => screen'.notice = "none",
             screen.status = "authenticated" => screen'.account \in {screen.account, tokens.user}
      PROVE  OneSession'
  <2>1. PICK d : d = (IF c.op = "register" /\ c.answer = "ok" THEN A!send("login", c.token) ELSE A!Idle)
    OBVIOUS
  <2>2. calls' = [calls EXCEPT ![k] = d]
    BY <1>4, <1>6, <2>1
  <2>3. PICK now : now = screen'
    OBVIOUS
  <2>4. /\ CallOk(d, tokens, saving, now, refused) /\ d.op # "me"
        /\ Entering(d) => Entering(c)
    <3>1. CASE c.op = "register" /\ c.answer = "ok"
      <4>1. d = A!send("login", c.token) /\ c.token \in AllTokens
        BY <1>3, <2>1, <3>1 DEF AllCalls
      <4>2. d \in AllCalls /\ d.op = "login" /\ d.token = c.token /\ d.at = "out" /\ d.leg = "first" /\ d.answer = "none"
        BY <4>1, Sent
      <4> QED
        BY <1>3, <1>6, <2>3, <3>1, <4>2 DEF CallOk, OfSession, Entering
    <3>2. CASE ~(c.op = "register" /\ c.answer = "ok")
      BY <2>1, <3>2, Idles DEF Entering
    <3> QED
      BY <3>1, <3>2
  <2>5. CallOk(d, tokens, saving, screen', refused')
    <3>1. refused' = refused
      BY <1>6
    <3>2. PICK more : more = refused
      OBVIOUS
    <3>3. CallOk(d, tokens, saving, now, more) /\ refused' = more
      BY <2>4, <3>1, <3>2
    <3> QED
      BY <2>3, <3>3
  <2>6. calls[k].at # "saving" /\ (Entering(d) => Entering(calls[k])) /\ (d.op = "me" => calls[k].op = "me")
    BY <1>2, <1>3, <2>4
  <2>7. UNCHANGED <<age, tokens, stored, saving, refreshing>>
    BY <1>4, <1>6
  <2>8. ASSUME refused PROVE refused'
    <3>1. refused' = refused
      BY <1>6
    <3> QED
      BY <2>8, <3>1
  <2> QED
    BY <1>3, <1>6, <2>2, <2>5, <2>6, <2>7, <2>8, SessionStays
<1>7. CASE c.answer = "401" /\ c.leg = "retry"
  <2>1. refused /\ A!expire(k) /\ UNCHANGED refused
    BY <1>3, <1>4, <1>7 DEF CallOk
  <2>2. saving' # saving => calls' = [calls EXCEPT ![k] = A!Kept(calls[k])] /\ calls[k].at = "back"
    BY <1>2, <1>3, <1>4
  <2>3. (saving' = saving /\ UNCHANGED <<tokens, screen>>) \/ OneSession'
    BY <1>4, <1>5, <2>1, <2>2, ExpireKeeps
  <2> QED
    BY <1>3, <1>6, <1>7, <2>1, <2>3
<1>8. CASE c.op \in {"login", "delete"} /\ c.answer = "ok"
  <2>1. A!Settle(c, k)
    BY <1>4, <1>8
  <2>2. PICK then : then = (IF c.op = "login" THEN "login" ELSE "account_deleted")
    OBVIOUS
  <2>3. PICK t : t = (IF c.op = "login" THEN c.token ELSE A!NoTokens)
    OBVIOUS
  <2>4. A!saveTokens(t, then, k)
    BY <1>8, <2>1, <2>2, <2>3 DEF A!Settle, A!login, A!accountDeleted, A!leave
  <2>5. t \in AllTokens /\ then \in {"login", "account_deleted"}
    BY <1>3, <2>2, <2>3, Idles DEF AllCalls
  <2>6. PICK e \in AllSaves : /\ e.tokens = t /\ e.then = then /\ e.by = k
                              /\ tokens' = e.tokens /\ saving' = Append(saving, e) /\ UNCHANGED screen
                              /\ saving' # saving
    BY <1>5, <2>4, <2>5, Saves DEF AllNotices
  <2>7. calls' = [calls EXCEPT ![k] = A!Kept(c)]
    BY <1>4, <2>6
  <2>8. CASE c.op = "login"
    <3>1. then = "login" /\ e.tokens.user \in Users
      BY <1>3, <2>2, <2>3, <2>6, <2>8 DEF CallOk, Entering
    <3> QED
      BY <1>2, <1>3, <1>4, <2>6, <2>7, <2>8, <3>1, SaveKeeps DEF ForRequest, Opens
  <2>9. CASE c.op = "delete"
    <3>1. then = "account_deleted" /\ e.tokens = A!NoTokens /\ tokens # A!NoTokens
      BY <1>3, <1>8, <2>2, <2>3, <2>6, <2>9, Idles DEF CallOk, OfSession
    <3>2. refused' = refused
      BY <1>4, <2>9
    <3> QED
      BY <1>2, <1>3, <1>4, <2>6, <2>7, <2>9, <3>1, <3>2, SaveKeeps DEF ForRequest, Opens
  <2> QED
    BY <1>8, <2>8, <2>9
<1>9. CASE ~(c.answer = "401" /\ c.leg = "retry") /\ c.op = "register" /\ c.answer = "ok"
  <2>1. screen' = [screen EXCEPT !.notice = "none"] /\ UNCHANGED <<tokens, saving, refused>>
    BY <1>4, <1>9 DEF A!Settle, A!SetScreen
  <2>2. /\ screen' \in AllScreens /\ screen'.status = screen.status /\ screen'.notice = "none"
        /\ screen'.account = screen.account
    BY <1>3, <2>1 DEF AllScreens, AllNotices
  <2> QED
    BY <1>6, <2>1, <2>2
<1>10. CASE ~(c.answer = "401" /\ c.leg = "retry") /\ c.op \in {"terms", "privacy"} /\ c.answer = "ok"
  <2>1. screen' = [screen EXCEPT !.account = c.user] /\ UNCHANGED <<tokens, saving, refused>>
    BY <1>4, <1>10 DEF A!Settle, A!SetScreen
  <2>2. c.user = tokens.user /\ c.user \in Someone
    BY <1>3, <1>10 DEF CallOk, OfSession, AllCalls
  <2>3. /\ screen' \in AllScreens /\ screen'.status = screen.status /\ screen'.notice = screen.notice
        /\ screen'.account = tokens.user
    BY <1>3, <2>1, <2>2 DEF AllScreens
  <2> QED
    BY <1>6, <1>10, <2>1, <2>3
<1>11. CASE /\ ~(c.answer = "401" /\ c.leg = "retry")
            /\ ~(c.op \in {"login", "delete", "register", "terms", "privacy"} /\ c.answer = "ok")
  <2>1. UNCHANGED <<tokens, saving, screen, refused>>
    BY <1>3, <1>4, <1>11 DEF A!Settle, A!Stays
  <2> QED
    BY <1>3, <1>6, <1>11, <2>1
<1> QED
  BY <1>7, <1>8, <1>9, <1>10, <1>11

(* Whoever waited for the refresh gives up, or asks again with the tokens  *)
(* there are.                                                              *)
LEMMA Resumed ==
  ASSUME OneSession, NEW again \in BOOLEAN, A!Resume(again)
  PROVE  /\ refreshing' = A!Idle /\ calls' \in [A!Slots -> AllCalls]
         /\ \A k \in A!Slots : IF calls[k].at # "waiting" THEN calls'[k] = calls[k]
                               ELSE IF again THEN /\ calls'[k].op = calls[k].op /\ calls'[k].at = "out" /\ calls'[k].leg = "retry"
                                                  /\ calls'[k].token = tokens /\ calls'[k].answer = "none"
                                                  /\ calls[k].op \in {"me", "terms", "privacy", "delete", "export"}
                               ELSE calls'[k] = A!Idle
<1>1. refreshing' = A!Idle
  BY DEF A!Resume
<1>2. calls' = [k \in A!Slots |-> IF calls[k].at # "waiting" THEN calls[k]
                                  ELSE IF again THEN [A!send(calls[k].op, tokens) EXCEPT !.leg = "retry"] ELSE A!Idle]
  BY DEF A!Resume, A!Waiting
<1>3. ASSUME NEW k \in A!Slots, calls[k].at = "waiting"
      PROVE  /\ calls[k].op \in {"me", "terms", "privacy", "delete", "export"}
             /\ [A!send(calls[k].op, tokens) EXCEPT !.leg = "retry"] \in AllCalls
             /\ [A!send(calls[k].op, tokens) EXCEPT !.leg = "retry"].op = calls[k].op
             /\ [A!send(calls[k].op, tokens) EXCEPT !.leg = "retry"].at = "out"
             /\ [A!send(calls[k].op, tokens) EXCEPT !.leg = "retry"].leg = "retry"
             /\ [A!send(calls[k].op, tokens) EXCEPT !.leg = "retry"].token = tokens
             /\ [A!send(calls[k].op, tokens) EXCEPT !.leg = "retry"].answer = "none"
  <2>1. calls[k] \in AllCalls /\ CallOk(calls[k], tokens, saving, screen, refused) /\ tokens \in AllTokens
    BY OneCallOk DEF OneSession, HoldOk
  <2>2. PICK op : op = calls[k].op
    OBVIOUS
  <2>3. op \in {"me", "terms", "privacy", "delete", "export"}
    BY <1>3, <2>1, <2>2, Idles DEF CallOk, AllCalls, Entering
  <2>4. PICK d : d = A!send(op, tokens)
    OBVIOUS
  <2>5. d \in AllCalls /\ d.op = op /\ d.token = tokens /\ d.at = "out" /\ d.leg = "first" /\ d.answer = "none"
    BY <2>1, <2>3, <2>4, Sent
  <2>6. /\ [d EXCEPT !.leg = "retry"] \in AllCalls /\ [d EXCEPT !.leg = "retry"].op = op /\ [d EXCEPT !.leg = "retry"].at = "out"
        /\ [d EXCEPT !.leg = "retry"].leg = "retry" /\ [d EXCEPT !.leg = "retry"].token = tokens
        /\ [d EXCEPT !.leg = "retry"].answer = "none"
    BY <2>5 DEF AllCalls
  <2> QED
    BY <2>2, <2>3, <2>4, <2>6
<1>4. calls \in [A!Slots -> AllCalls]
  BY DEF OneSession, CallsOk
<1> QED
  BY <1>1, <1>2, <1>3, <1>4, Idles

(* The one refresh comes back. *)
LEMMA RefreshedKeeps ==
  ASSUME OneSession, A!Refreshed, ~raced'
  PROVE  OneSession'
<1>1. PICK r : r = refreshing
  OBVIOUS
<1>2. r # A!Idle /\ r.at = "back"
  BY <1>1, Idles DEF A!Refreshed
<1>3. /\ r \in AllCalls /\ r.answer \in {"ok", "network", "500", "401"} /\ screen.status # "unreachable"
      /\ r.token = A!NoTokens => r.answer = "401" /\ tokens = A!NoTokens
      /\ r.token # A!NoTokens => r.token.user = tokens.user /\ tokens.user \in Users /\ (r.answer \in {"401", "500"} => refused)
  BY <1>1, <1>2 DEF OneSession, RefreshOk, ReadingOk
<1>4. UNCHANGED <<age, stored, refused>> /\ A!ChangesHands
      /\ IF saving' # saving THEN refreshing' = A!Kept(refreshing) /\ UNCHANGED calls ELSE A!Resume(FALSE)
  BY DEF A!Refreshed
<1>5. A!TheRefresh \in 0..A!TheRefresh
  BY Slotted
<1>6. \A k \in A!Slots : calls[k].op = "me" => calls[k].at = "waiting" /\ saving = <<>> /\ r.token # A!NoTokens
                                               /\ stored = tokens
  <2>1. ASSUME NEW k \in A!Slots, calls[k].op = "me"
        PROVE  calls[k].at = "waiting" /\ saving = <<>> /\ r.token # A!NoTokens /\ stored = tokens
    <3>1. MeOk(calls[k], k, tokens, stored, saving, refreshing) /\ calls[k] \in AllCalls /\ calls[k].at # "idle"
      BY <2>1, OnlyMe, OneCallOk DEF CallOk
    <3> QED
      BY <1>1, <1>2, <3>1 DEF MeOk, AllCalls
  <2> QED
    BY <2>1
<1>7. ASSUME UNCHANGED <<tokens, saving>>, screen' \in AllScreens, screen'.notice = screen.notice,
             IF \E k \in A!Slots : calls[k].op = "me" THEN screen'.status = "unreachable" ELSE screen' = screen
      PROVE  OneSession'
  <2>1. A!Resume(FALSE)
    BY <1>4, <1>7
  <2>2. /\ refreshing' = A!Idle /\ calls' \in [A!Slots -> AllCalls]
        /\ \A k \in A!Slots : IF calls[k].at # "waiting" THEN calls'[k] = calls[k] ELSE calls'[k] = A!Idle
    BY <2>1, Resumed
  <2>3. CASE \E k \in A!Slots : calls[k].op = "me"
    <3>1. PICK k \in A!Slots : calls[k].op = "me"
      BY <2>3
    <3>2. \A j \in A!Slots : calls'[j] = A!Idle
      BY <1>6, <2>2, <3>1, OnlyMe
    <3>3. saving = <<>> /\ stored = tokens
      BY <1>6, <3>1
    <3>4. HoldOk(tokens', stored', saving', screen', refused')
      BY <1>4, <1>7, <2>3, <3>3 DEF OneSession, HoldOk
    <3> QED
      BY <1>4, <1>7, <2>2, <3>2, <3>3, <3>4, NothingLeft DEF OneSession
  <2>4. CASE ~\E k \in A!Slots : calls[k].op = "me"
    <3>1. screen.status \in {"anonymous", "authenticated"} /\ screen' = screen
      BY <1>1, <1>2, <1>3, <1>7, <2>4 DEF OneSession, ReadingOk, HoldOk, AllScreens, Statuses
    <3>2. PICK cs : cs = calls'
      OBVIOUS
    <3>3. CallsOk(cs, tokens, saving, screen, refused)
      BY <2>2, <3>2, Idles DEF OneSession, CallsOk, Entering
    <3>4. PICK q : q = refreshing'
      OBVIOUS
    <3>5. SavesOk(saving, tokens, screen.status, cs, q, refused)
      <4>1. SavesOk(saving, tokens, screen.status, calls, refreshing, refused)
        BY DEF OneSession
      <4>2. \A k \in A!Slots : calls[k].at = "saving" => cs[k].at = "saving" /\ cs[k].op = calls[k].op
        BY <2>2, <3>2
      <4> QED
        BY <1>1, <1>2, <4>1, <4>2, SavesStay
    <3>6. ReadingOk(cs, tokens, stored, saving, screen.status, q)
      BY <3>1, <3>3, NotReading
    <3>7. RefreshOk(q, tokens, refused)
      BY <2>2, <3>4 DEF RefreshOk
    <3> QED
      BY <1>4, <1>7, <3>1, <3>2, <3>3, <3>4, <3>5, <3>6, <3>7 DEF OneSession
  <2> QED
    BY <2>3, <2>4
<1>8. CASE r.answer = "ok"
  <2>1. A!saveTokens(r.token, "refreshed", A!TheRefresh)
    BY <1>1, <1>8 DEF A!Refreshed, A!RefreshResult
  <2>2. r.token \in AllTokens /\ r.token.user = tokens.user /\ tokens.user \in Users
    BY <1>3, <1>8 DEF AllCalls
  <2>3. PICK e \in AllSaves : /\ e.tokens = r.token /\ e.then = "refreshed" /\ e.by = A!TheRefresh
                              /\ tokens' = e.tokens /\ saving' = Append(saving, e) /\ UNCHANGED screen
                              /\ saving' # saving
    BY <1>5, <2>1, <2>2, Saves DEF AllNotices
  <2>4. ForTheRefresh(e) /\ Opens(e) /\ tokens # A!NoTokens
    BY <1>1, <1>2, <1>4, <2>2, <2>3, Idles DEF ForTheRefresh, Opens
  <2> QED
    BY <1>4, <2>3, <2>4, SaveKeeps
<1>9. CASE r.answer = "network"
  <2>1. screen' = (IF \E k \in A!Waiting : calls[k].op = "me" THEN [screen EXCEPT !.status = "unreachable"] ELSE screen)
        /\ UNCHANGED <<tokens, saving>>
    BY <1>1, <1>9 DEF A!Refreshed, A!RefreshResult, A!SetScreen
  <2>2. (\E k \in A!Waiting : calls[k].op = "me") <=> \E k \in A!Slots : calls[k].op = "me"
    BY <1>6 DEF A!Waiting
  <2>3. screen \in AllScreens
    BY DEF OneSession, HoldOk
  <2>4. CASE \E k \in A!Slots : calls[k].op = "me"
    <3>1. screen' = [screen EXCEPT !.status = "unreachable"]
      BY <2>1, <2>2, <2>4
    <3>2. screen' \in AllScreens /\ screen'.notice = screen.notice /\ screen'.status = "unreachable"
      BY <2>3, <3>1 DEF AllScreens, Statuses
    <3> QED
      BY <1>7, <2>1, <2>4, <3>2
  <2>5. CASE ~\E k \in A!Slots : calls[k].op = "me"
    <3>1. screen' = screen
      BY <2>1, <2>2, <2>5
    <3> QED
      BY <1>7, <2>1, <2>3, <2>5, <3>1
  <2> QED
    BY <2>4, <2>5
<1>10. CASE r.answer \in {"401", "500"}
  <2>1. A!expire(A!TheRefresh)
    BY <1>1, <1>10 DEF A!Refreshed, A!RefreshResult
  <2>2. tokens # A!NoTokens => refused
    BY <1>3, <1>10, Idles
  <2>3. (saving' = saving /\ UNCHANGED <<tokens, screen>>) \/ OneSession'
    BY <1>1, <1>2, <1>4, <1>5, <2>1, <2>2, ExpireKeeps
  <2>4. CASE saving' = saving /\ UNCHANGED <<tokens, screen>>
    <3>1. tokens = A!NoTokens
      <4>1. ASSUME tokens # A!NoTokens PROVE FALSE
        <5>1. A!saveTokens(A!NoTokens, "session_expired", A!TheRefresh)
          BY <2>1, <4>1 DEF A!expire, A!leave, A!Expires
        <5> QED
          BY <1>5, <2>4, <5>1, Saves, Idles DEF AllNotices
      <4> QED
        BY <4>1
    <3>2. \A k \in A!Slots : calls[k].op # "me"
      BY <1>3, <1>6, <3>1, Idles
    <3> QED
      BY <1>7, <2>4, <3>2 DEF OneSession, HoldOk
  <2> QED
    BY <2>3, <2>4
<1> QED
  BY <1>3, <1>8, <1>9, <1>10

(* The device has saved: what is left of the saves, and whoever waited.    *)
LEMMA SavedKeeps ==
  ASSUME OneSession, A!Saved
  PROVE  OneSession'
<1>1. PICK e : e = Head(saving)
  OBVIOUS
<1>2. PICK s : s = Tail(saving)
  OBVIOUS
<1>3. saving # <<>> /\ saving \in Seq(AllSaves) /\ 1 \in 1..Len(saving) /\ e = saving[1]
  BY <1>1 DEF A!Saved, OneSession, SavesOk
<1>4. EntryOk(e, tokens, calls, refreshing, refused)
  BY <1>3 DEF OneSession, SavesOk
<1>5. e.by \in A!Slots \cup {A!NoOne, A!TheRefresh} /\ e.tokens \in AllTokens
      /\ e.then \in {"none", "session_expired", "account_deleted", "login", "refreshed"}
  BY <1>4, Slotted DEF EntryOk, AllSaves, AllNotices
<1>6. /\ stored' = e.tokens /\ saving' = s /\ UNCHANGED <<age, tokens, refused>>
      /\ e.then = "refreshed" => UNCHANGED screen
      /\ e.then = "login" => screen' = [status |-> "authenticated", account |-> e.tokens.user, notice |-> screen.notice]
      /\ e.then \notin {"refreshed", "login"} => screen' = [status |-> "anonymous", account |-> NoUser, notice |-> e.then]
      /\ IF e.by = A!TheRefresh THEN A!Resume(e.then = "refreshed")
         ELSE calls' = [k \in A!Slots |-> IF k = e.by THEN A!Idle ELSE calls[k]] /\ UNCHANGED refreshing
  BY <1>1, <1>2 DEF A!Saved, A!Show
<1>7. screen \in AllScreens /\ (screen.notice = "session_expired" => refused)
  BY DEF OneSession, HoldOk
<1>8. PICK now : now = screen'
  OBVIOUS
<1>9. /\ now \in AllScreens
      /\ e.then = "refreshed" => now = screen
      /\ e.then = "login" => now.status = "authenticated" /\ now.account = e.tokens.user /\ now.notice = screen.notice
      /\ e.then \notin {"refreshed", "login"} => now.status = "anonymous" /\ now.notice = e.then
  <2>1. e.then \notin {"refreshed", "login"} => e.then \in AllNotices
    BY <1>5 DEF AllNotices
  <2>2. e.then = "login" => e.tokens.user \in Someone
    BY <1>4 DEF EntryOk, Opens, Someone
  <2> QED
    BY <1>5, <1>6, <1>7, <1>8, <2>1, <2>2 DEF AllScreens, Statuses, Someone
<1>10. now.notice = "session_expired" => refused
  BY <1>4, <1>5, <1>7, <1>9 DEF EntryOk
<1>11. e.then = "login" => screen.status = "anonymous" /\ e.by \in A!Slots /\ calls[e.by].op = "login" /\ calls[e.by].at = "saving"
  BY <1>4 DEF EntryOk, OneSession, CallsOk, CallOk, Entering
<1>12. screen.status # "unreachable" /\ now.status # "unreachable"
  BY <1>3, <1>9 DEF OneSession, ReadingOk
<1>13. PICK cs : cs = calls'
  OBVIOUS
<1>14. PICK r : r = refreshing'
  OBVIOUS
<1>15. /\ cs \in [A!Slots -> AllCalls]
       /\ \A k \in A!Slots : \/ cs[k] = calls[k] /\ k # e.by
                             \/ cs[k] = A!Idle
                             \/ /\ e.then = "refreshed" /\ e.by = A!TheRefresh /\ calls[k].at = "waiting" /\ cs[k].op = calls[k].op
                                /\ cs[k].at = "out" /\ cs[k].leg = "retry" /\ cs[k].token = tokens /\ cs[k].answer = "none"
                                /\ cs[k].op \in {"me", "terms", "privacy", "delete", "export"}
       /\ \A k \in A!Slots : calls[k].at = "saving" /\ k # e.by => cs[k] = calls[k]
       /\ \A k \in A!Slots : k = e.by => cs[k] = A!Idle
       /\ e.by = A!TheRefresh => r = A!Idle
       /\ e.by # A!TheRefresh => r = refreshing
       /\ e.by = A!TheRefresh => \A k \in A!Slots : calls[k].at = "waiting" =>
            IF e.then = "refreshed" THEN cs[k].at = "out" ELSE cs[k] = A!Idle
  <2>1. calls \in [A!Slots -> AllCalls]
    BY DEF OneSession, CallsOk
  <2>2. CASE e.by # A!TheRefresh
    BY <1>6, <1>13, <1>14, <2>1, <2>2, Idles
  <2>3. CASE e.by = A!TheRefresh
    <3>1. A!Resume(e.then = "refreshed") /\ (e.then = "refreshed") \in BOOLEAN
      BY <1>6, <2>3
    <3>2. e.by \notin A!Slots
      BY <2>3, Slotted
    <3>3. PICK again \in BOOLEAN : again = (e.then = "refreshed")
      OBVIOUS
    <3>4. A!Resume(again)
      BY <3>1, <3>3
    <3> QED
      BY <1>13, <1>14, <2>3, <3>2, <3>3, <3>4, Resumed
  <2> QED
    BY <2>2, <2>3
<1>16. /\ SavesOk(s, tokens, now.status, cs, r, refused)
       /\ s = <<>> => e.tokens = tokens
       /\ Len(s) = Len(saving) - 1 /\ \A i \in 1..Len(s) : s[i] = saving[i + 1]
  <2>1. SavesOk(saving, tokens, screen.status, calls, refreshing, refused)
    BY DEF OneSession
  <2>2. now.status = "anonymous" => ~Opens(saving[1]) \/ (screen.status = "anonymous" /\ saving[1].then = "refreshed")
    BY <1>3, <1>9 DEF Opens
  <2>3. \A k \in A!Slots : calls[k].at = "saving" /\ k # saving[1].by => cs[k] = calls[k]
    BY <1>3, <1>15
  <2>4. refreshing.at = "saving" /\ saving[1].by # A!TheRefresh => r.at = "saving"
    BY <1>3, <1>15
  <2> QED
    BY <1>2, <1>3, <2>1, <2>2, <2>3, <2>4, OneSaveLess
<1>17. 1..Len(s) = {i - 1 : i \in 2..Len(saving)} /\ Len(saving) \in Nat /\ Len(s) \in Nat
  BY <1>3, <1>16
<1>18. e.then = "refreshed" => screen.status # "anonymous"
  <2>1. ASSUME e.then = "refreshed", screen.status = "anonymous" PROVE FALSE
    <3>1. LoginFrom(saving, 0, 1)
      BY <1>3, <2>1 DEF OneSession, SavesOk, Orderly
    <3>2. PICK k \in 1..Len(saving) : 0 < k /\ k <= 1 /\ saving[k].then = "login"
      BY <3>1 DEF LoginFrom
    <3>3. k = 1
      BY <3>2
    <3> QED
      BY <1>3, <2>1, <3>2, <3>3
  <2> QED
    BY <2>1
<1>19. HoldOk(tokens, e.tokens, s, now, refused)
  <2>1. e.tokens = A!NoTokens \/ e.tokens.user \in Users
    BY <1>4 DEF EntryOk
  <2>2. s = <<>> /\ now.status = "anonymous" => tokens = A!NoTokens
    BY <1>4, <1>9, <1>16, <1>18 DEF EntryOk, Opens
  <2>3. now.status = "authenticated" => \/ tokens.user \in Users /\ now.account = tokens.user
                                        \/ tokens = A!NoTokens /\ s # <<>>
    <3>1. CASE tokens = A!NoTokens
      BY <1>4, <1>9, <1>16, <3>1, Idles DEF EntryOk, Opens
    <3>2. CASE tokens # A!NoTokens
      BY <1>4, <1>9, <3>2 DEF EntryOk, Opens, OneSession, HoldOk
    <3> QED
      BY <3>1, <3>2
  <2> QED
    BY <1>5, <1>9, <1>10, <1>16, <2>1, <2>2, <2>3 DEF OneSession, HoldOk
<1>20. ASSUME NEW k \in A!Slots, calls[k].op = "me"
       PROVE  /\ screen.status = "checking" /\ Len(saving) = 1 /\ s = <<>> /\ r = A!Idle /\ tokens = e.tokens
              /\ \A j \in A!Slots \ {k} : calls[j] = A!Idle
              /\ cs[k].op = "me" => e.then = "refreshed" /\ cs[k].at = "out"
  <2>1. screen.status = "checking" /\ MeOk(calls[k], k, tokens, stored, saving, refreshing)
        /\ \A j \in A!Slots \ {k} : calls[j] = A!Idle
    BY <1>20, OnlyMe
  <2>2. calls[k].at \in {"waiting", "saving"}
    BY <1>3, <1>20, <2>1, OneCallOk DEF MeOk, CallOk, AllCalls
  <2>3. Len(saving) = 1
    BY <1>3, <2>1, <2>2 DEF MeOk
  <2>4. s = <<>> /\ e.tokens = tokens
    BY <1>2, <1>3, <1>16, <2>3
  <2>5. CASE calls[k].at = "waiting"
    <3>1. refreshing.at = "saving" /\ e.by = A!TheRefresh
      BY <1>3, <2>1, <2>3, <2>5 DEF MeOk
    <3>2. r = A!Idle /\ k # e.by
      BY <1>15, <3>1, Slotted
    <3>3. cs[k].op = "me" => e.then = "refreshed" /\ cs[k].at = "out"
      <4>1. CASE e.then = "refreshed"
        BY <1>15, <2>5, <3>1, <4>1
      <4>2. CASE e.then # "refreshed"
        BY <1>15, <2>5, <3>1, <4>2, Idles
      <4> QED
        BY <4>1, <4>2
    <3> QED
      BY <2>1, <2>3, <2>4, <3>2, <3>3
  <2>6. CASE calls[k].at = "saving"
    <3>1. e.by = k /\ refreshing = A!Idle
      BY <1>3, <2>1, <2>6 DEF MeOk
    <3> QED
      BY <1>15, <2>1, <2>3, <2>4, <3>1, Slotted, Idles
  <2> QED
    BY <2>2, <2>5, <2>6
<1>21. ASSUME NEW k \in A!Slots PROVE CallOk(cs[k], tokens, s, now, refused)
  <2>1. PICK c : c = cs[k]
    OBVIOUS
  <2>2. PICK b : b = calls[k]
    OBVIOUS
  <2>3. CallOk(b, tokens, saving, screen, refused)
    BY <2>2, OneCallOk
  <2>4. CASE c = A!Idle
    BY <2>1, <2>4, Idles
  <2>5. CASE c = b /\ c # A!Idle /\ k # e.by
    <3>1. b.op # "me" \/ (now = screen /\ e.then = "refreshed")
      BY <1>9, <1>20, <2>1, <2>2, <2>5
    <3>2. Entering(b) /\ b.at # "saving" => \A i \in 1..Len(s) : s[i].then = "none"
      <4>1. ASSUME Entering(b), b.at # "saving" PROVE \A i \in 1..Len(s) : s[i].then = "none"
        <5>1. \A i \in 1..Len(saving) : saving[i].then = "none"
          BY <2>3, <4>1 DEF CallOk
        <5>2. \A i \in 1..Len(s) : i + 1 \in 1..Len(saving)
          BY <1>3, <1>16
        <5> QED
          BY <1>16, <5>1, <5>2
      <4> QED
        BY <4>1
    <3>3. Entering(b) => now.status = "anonymous"
      <4>1. ASSUME Entering(b), e.then = "login" PROVE FALSE
        <5>1. Entering(calls[e.by]) /\ e.by \in A!Slots
          BY <1>11, <4>1 DEF Entering
        <5> QED
          BY <2>2, <2>5, <4>1, <5>1 DEF OneSession, CallsOk
      <4> QED
        BY <1>9, <2>3, <4>1 DEF CallOk
    <3>4. b.op = "login" /\ b.at # "saving" => now.notice # "session_expired"
      <4>1. ASSUME b.op = "login", b.at # "saving" PROVE e.then = "none"
        BY <1>3, <2>3, <4>1 DEF CallOk, Entering
      <4> QED
        BY <1>9, <4>1
    <3>5. now.status = "checking" => b.op \in {"none", "me"}
      BY <1>5, <1>9, <2>3 DEF CallOk
    <3>6. CallOk(c, tokens, s, now, refused)
      BY <1>12, <2>3, <2>5, <3>1, <3>2, <3>3, <3>4, <3>5 DEF CallOk, Entering
    <3> QED
      BY <2>1, <3>6
  <2>6. CASE c # A!Idle /\ ~(c = b /\ k # e.by)
    <3>1. /\ e.then = "refreshed" /\ b.at = "waiting" /\ c.op = b.op /\ now = screen
          /\ c.at = "out" /\ c.leg = "retry" /\ c.token = tokens /\ c.answer = "none"
          /\ c.op \in {"me", "terms", "privacy", "delete", "export"} /\ c \in AllCalls
      BY <1>9, <1>15, <2>1, <2>2, <2>6
    <3>2. tokens = A!NoTokens \/ tokens.user \in Users
      BY DEF OneSession, HoldOk
    <3>3. c.op = "me" => tokens.user \in Users
      BY <1>4, <1>20, <2>2, <3>1 DEF EntryOk, Opens
    <3>4. CallOk(c, tokens, s, now, refused)
      BY <2>3, <3>1, <3>2, <3>3 DEF CallOk, OfSession, Entering
    <3> QED
      BY <2>1, <3>4
  <2> QED
    BY <2>4, <2>5, <2>6
<1>22. CallsOk(cs, tokens, s, now, refused)
  <2>1. \A k \in A!Slots : cs[k].op \in {"none", calls[k].op}
    BY <1>15, Idles
  <2>2. \A i, j \in A!Slots : cs[i].op = "me" /\ cs[j].op = "me" => i = j
    BY <2>1 DEF OneSession, CallsOk
  <2>3. \A i, j \in A!Slots : Entering(cs[i]) /\ Entering(cs[j]) => i = j
    BY <2>1 DEF OneSession, CallsOk, Entering
  <2> QED
    BY <1>15, <1>21, <2>2, <2>3 DEF CallsOk
<1>23. RefreshOk(r, tokens, refused)
  BY <1>15 DEF OneSession, RefreshOk
<1>24. ReadingOk(cs, tokens, e.tokens, s, now.status, r)
  <2>1. CASE now.status # "checking"
    <3>1. now.status \in {"anonymous", "authenticated"}
      BY <1>9, <1>12, <2>1 DEF AllScreens, Statuses
    <3> QED
      BY <1>22, <3>1, NotReading
  <2>2. CASE now.status = "checking"
    <3>1. e.then = "refreshed" /\ screen.status = "checking"
      BY <1>5, <1>9, <2>2
    <3>2. PICK k \in A!Slots : calls[k].op = "me"
      BY <1>3, <3>1 DEF OneSession, ReadingOk
    <3>3. s = <<>> /\ r = A!Idle /\ tokens = e.tokens /\ (cs[k].op = "me" => cs[k].at = "out")
      BY <1>20, <3>2
    <3>4. \A j \in A!Slots : cs[j].op = "me" => j = k
      <4>1. \A j \in A!Slots \ {k} : calls[j] = A!Idle
        BY <1>20, <3>2
      <4> QED
        BY <1>15, <4>1, Idles
    <3>5. cs[k].op = "me" => MeOk(cs[k], k, tokens, e.tokens, s, r)
      BY <3>3 DEF MeOk
    <3> QED
      BY <2>2, <3>3, <3>4, <3>5 DEF ReadingOk
  <2> QED
    BY <2>1, <2>2
<1> QED
  BY <1>6, <1>8, <1>13, <1>14, <1>16, <1>19, <1>22, <1>23, <1>24 DEF OneSession

(* Every step of the account keeps the session one. *)
LEMMA AccountSteps ==
  ASSUME AccountKept, [A!Next]_(A!vars)
  PROVE  AccountKept'
<1> SUFFICES ASSUME ~raced' PROVE OneSession'
  BY DEF AccountKept
<1>1. CASE UNCHANGED A!vars
  BY <1>1 DEF A!vars, AccountKept, OneSession
<1>2. ASSUME raced' = raced PROVE OneSession
  BY <1>2 DEF AccountKept
<1>3. ASSUME A!ChangesHands PROVE OneSession
  BY <1>3, SameHands DEF AccountKept
<1>4. CASE A!ServeRefresh \/ \E as \in A!Failures : A!LoseRefresh(as)
  BY <1>2, <1>4, RefreshKeeps DEF A!ServeRefresh, A!LoseRefresh
<1>5. CASE \E k \in A!Slots : A!Serve(k) \/ \E as \in A!Failures : A!Lose(k, as)
  BY <1>2, <1>5, ServeKeeps, LoseKeeps DEF A!Serve, A!Lose
<1>6. CASE A!bootstrap
  BY <1>2, <1>6, BootstrapKeeps DEF A!bootstrap
<1>7. CASE A!logout
  BY <1>3, <1>7, LogoutKeeps DEF A!logout
<1>8. CASE A!Restart
  BY <1>2, <1>8, RestartKeeps DEF A!Restart
<1>9. CASE \E u \in Users : A!Login(u) \/ A!Register(u)
  BY <1>2, <1>9, EnterKeeps DEF A!Login, A!Register, A!Enter
<1>10. CASE A!TermsGate \/ A!HidePresence \/ A!ExportData \/ A!DeleteAccount
  BY <1>2, <1>10, PrivateKeeps DEF A!TermsGate, A!HidePresence, A!ExportData, A!DeleteAccount, A!Private
<1>11. CASE A!Refreshed
  BY <1>3, <1>11, RefreshedKeeps DEF A!Refreshed
<1>12. CASE A!Saved \/ \E refreshToo \in BOOLEAN : A!TokensExpire(refreshToo)
  BY <1>2, <1>12, SavedKeeps, TimeKeeps DEF A!Saved, A!TokensExpire
<1>13. CASE \E k \in A!Slots : A!Return(k)
  <2>1. PICK k \in A!Slots : A!Return(k)
    BY <1>13
  <2>2. OneSession
    BY <1>3, <2>1 DEF A!Return
  <2> QED
    BY <2>1, <2>2, RenewKeeps, MeKeeps, AnswerKeeps
<1> QED
  BY <1>1, <1>4, <1>5, <1>6, <1>7, <1>8, <1>9, <1>10, <1>11, <1>12, <1>13 DEF A!Next, A!Network, A!User, A!Client
LEMMA AccountStarts ==
  ASSUME A!Init
  PROVE  AccountKept
<1>1. /\ tokens = A!NoTokens /\ refreshing = A!Idle /\ calls = [k \in A!Slots |-> A!Idle] /\ age = 0 /\ saving = <<>>
      /\ screen = [status |-> "checking", account |-> NoUser, notice |-> "none"]
      /\ stored = A!NoTokens \/ \E u \in Users : stored = [user |-> u, issued |-> 0]
  BY DEF A!Init
<1>2. screen.status = "checking" /\ screen.notice = "none" /\ screen \in AllScreens
  BY <1>1 DEF AllScreens, Statuses, Someone, AllNotices
<1>3. stored \in AllTokens /\ (stored = A!NoTokens \/ stored.user \in Users)
  BY <1>1, Idles DEF AllTokens, Someone
<1>4. HoldOk(tokens, stored, saving, screen, refused)
  BY <1>1, <1>2, <1>3, Idles DEF HoldOk
<1>5. CallsOk(calls, tokens, saving, screen, refused)
  BY <1>1, Idles DEF CallsOk, Entering
<1>6. RefreshOk(refreshing, tokens, refused)
  BY <1>1 DEF RefreshOk
<1>7. SavesOk(saving, tokens, screen.status, calls, refreshing, refused)
  BY <1>1 DEF SavesOk, Orderly
<1>8. ReadingOk(calls, tokens, stored, saving, screen.status, refreshing)
  BY <1>1, <1>2, Idles DEF ReadingOk
<1> QED
  BY <1>1, <1>4, <1>5, <1>6, <1>7, <1>8 DEF AccountKept, OneSession

(* A session is told to be over only if the server refused it, or failed   *)
(* when asked to renew it or whose it is, and the account shown is the one *)
(* the tokens are of, in memory and on the device: the invariant that the  *)
(* run client_parts checks of the part "account", for any users, any       *)
(* number of requests and of saves under way, of expiries, logins and      *)
(* restarts (http.ts, authStore.ts, storage.ts).                           *)
THEOREM SessionHolds == Spec => []SessionIsSound
<1> DEFINE Inv == part = "account" => AccountKept
<1>1. Init => Inv
  <2> SUFFICES ASSUME Init, part = "account" PROVE AccountKept
    OBVIOUS
  <2>1. A!Init
    BY DEF Init
  <2> QED
    BY <2>1, AccountStarts
<1>2. Inv /\ [Next]_vars => Inv'
  BY StepsOfAccount, AccountSteps
<1>3. Inv => SessionIsSound
  BY DEF SessionIsSound, AccountKept, OneSession, HoldOk, A!EndsOnlyIfRefused, A!OneUser
<1> QED
  BY <1>1, <1>2, <1>3, PTL DEF Spec
-----------------------------------------------------------------------------
(***************************************************************************)
(* The pages of the client.  Requests under way answer in any order: what  *)
(* is kept is that each that is awaited asks for the text typed, and that  *)
(* what is shown differs from the answer it came with only in the entry    *)
(* that was damaged.                                                       *)
(***************************************************************************)
LEMMA StepsOfPages ==
  [Next]_vars /\ part' = "pages" => part = "pages" /\ [P!Next]_(P!vars)
<1>1. ASSUME UNCHANGED vars PROVE part' = part /\ UNCHANGED P!vars
  BY <1>1 DEF vars, ofPages, P!vars
<1>2. ASSUME Next PROVE part' = part /\ (part = "pages" => P!Next)
  BY <1>2 DEF Next, WireStep, AccountStep, SocialStep, DecksStep, ScreenStep, BotStep, PagesStep
<1> QED
  BY <1>1, <1>2

(* A text of the server is told as what it means, and no other text is     *)
(* taken for it (HTTP_ERROR_TEXTS).                                        *)
LEMMA TextsAreOfOneCode == \A c \in DOMAIN P!HTTP_ERROR_TEXTS : \A t \in P!HTTP_ERROR_TEXTS[c] : P!HTTP[t] = c
  BY DEF P!HTTP_ERROR_TEXTS, P!HTTP

Refusals == {"challengeSelfBusy", "challengeTargetBusy", "challengeOffline", "challengeNoPlayer", "friendAlready", "friendPending",
             "friendLimit", "friendTheirLimit", "friendPendingLimit", "friendRequestAbsent", "blockAbsent", "deckNotValid", "deckNotFound"}

(* The thirteen texts an action of a page may be refused with.             *)
LEMMA RefusalsAreKnown ==
  ASSUME NEW text \in Refusals
  PROVE  P!HTTP[text] \in DOMAIN P!HTTP_ERROR_TEXTS /\ text \in P!HTTP_ERROR_TEXTS[P!HTTP[text]] /\ text \notin DOMAIN P!Foreign
  BY DEF Refusals, P!HTTP_ERROR_TEXTS, P!HTTP, P!Foreign

(* What is told of a refusal is the code of its text.                      *)
LEMMA RefusalsAreRead ==
  ASSUME NEW text \in Refusals
  PROVE  P!interpretHttpResponse(text) = P!HTTP[text]
<1>1. PICK T, H : T = P!HTTP_ERROR_TEXTS /\ H = P!HTTP
  OBVIOUS
<1>2. /\ \A c \in DOMAIN T : \A t \in T[c] : H[t] = c
      /\ H[text] \in DOMAIN T /\ text \in T[H[text]] /\ text \notin DOMAIN P!Foreign
  BY <1>1, TextsAreOfOneCode, RefusalsAreKnown
<1>3. P!matchErrorText(text) = IF \E c \in DOMAIN T : text \in T[c] THEN CHOOSE c \in DOMAIN T : text \in T[c] ELSE P!NoCode
  BY <1>1 DEF P!matchErrorText
<1>4. P!matchErrorText(text) = H[text]
  BY <1>2, <1>3
<1> QED
  BY <1>1, <1>2, <1>4 DEF P!interpretHttpResponse

(* A list, and a request as the page keeps it: what an update of one field *)
(* leaves of it is known.                                                  *)
IsList(items) == DOMAIN items = Entries /\ items = [e \in Entries |-> items[e]]
IsAsk(a) ==
  /\ a = [n |-> a.n, of |-> a.of, at |-> a.at, text |-> a.text, items |-> a.items, damage |-> a.damage]
  /\ IsList(a.items)
IsAct(a) ==
  /\ a = [on |-> a.on, does |-> a.does, at |-> a.at, seen |-> a.seen, text |-> a.text, items |-> a.items, damage |-> a.damage]
  /\ IsList(a.items)
(* What an entry offers, and what the entry then says in the server.       *)
Acted == {"challenge", "request", "accept", "deleteRequest", "unblock", "activate"}
Agrees(does, says) ==
  \/ does = "challenge" /\ says = "online"
  \/ does = "request" /\ says = "none"
  \/ does = "accept" /\ says = "incoming"
  \/ does = "deleteRequest" /\ says \in {"incoming", "outgoing"}
  \/ does = "unblock" /\ says = "blocked"
  \/ does = "activate" /\ says = "valid"

AskedForTheText ==
  /\ view.kind = "loading" => asks # {}
  /\ page = "search" => /\ \A a \in asks : a.of = query
                        /\ view.kind = "ready" /\ view.of # query => asks # {}
(* The action under way was offered by what the page was answered; what it *)
(* is refused with is a text of the server, and says the entry changed.    *)
ActIsOffered ==
  /\ act.at = "out" => act.does \in Acted /\ (act.seen # P!Unknown => Agrees(act.does, act.seen))
  /\ act.at = "back" => /\ act.text = P!Done \/ (act.text \in Refusals /\ act.damage = P!Intact)
                        /\ act.seen # P!Unknown => act.text \in P!Busy \cup {P!Done}
  /\ act.at = "told" /\ act.text # P!Done => told = P!HTTP[act.text]
Lists == IsList(listed) /\ IsList(sent.items) /\ IsAct(act) /\ \A a \in asks : IsAsk(a)
PagesKept == Lists /\ AskedForTheText /\ P!DamageIsContained /\ ActIsOffered

(* The invariant implies what the run checks of the pages.                 *)
LEMMA PagesKeptIsSound == PagesKept => P!PageSettles /\ P!DamageIsContained /\ P!RefusalsAreTold
<1>1. ASSUME PagesKept PROVE P!PageSettles
  BY <1>1 DEF PagesKept, AskedForTheText, P!PageSettles
<1>2. ASSUME PagesKept PROVE P!RefusalsAreTold
  BY <1>2 DEF PagesKept, ActIsOffered, P!RefusalsAreTold
<1> QED
  BY <1>1, <1>2 DEF PagesKept

(* The empty list is a list.                                               *)
LEMMA EmptyIsList == IsList(P!Empty)
  BY DEF IsList, P!Empty

(* At the start the list is asked for, or nothing is searched.             *)
LEMMA PagesStart == P!Init => PagesKept
<1> SUFFICES ASSUME P!Init PROVE PagesKept
  OBVIOUS
<1>1. IsList(listed) /\ IsList(P!Empty)
  BY EmptyIsList DEF P!Init, IsList
<1>2. act = P!NoAct /\ IsAct(act) /\ act.at = "none"
  BY <1>1 DEF P!Init, IsAct, P!NoAct
<1>3. sent.items = P!Empty /\ view.kind \notin {"ready"} /\ query = ""
  BY DEF P!Init
<1>4. ASSUME NEW a \in asks PROVE IsAsk(a) /\ a.of = query
  <2>1. a = [n |-> MaxAsks, of |-> "", at |-> "out", text |-> P!Done, items |-> P!Empty, damage |-> P!Intact]
    BY <1>4 DEF P!Init
  <2> QED
    BY <2>1, <1>1, <1>3 DEF IsAsk
<1>5. view.kind = "loading" => asks # {}
  <2>1. CASE page = "search"
    BY <2>1 DEF P!Init
  <2>2. CASE page # "search"
    BY <2>2 DEF P!Init
  <2> QED
    BY <2>1, <2>2
<1> QED
  BY <1>1, <1>2, <1>3, <1>4, <1>5 DEF PagesKept, Lists, AskedForTheText, P!DamageIsContained, ActIsOffered

(* What the adapter makes of a list with one field damaged.                *)
LEMMA OneIsHarmed ==
  ASSUME NEW items, NEW damage, IsList(items)
  PROVE  /\ P!normalize(items, damage).ok =>
              \/ \A e \in Entries \ {damage.of} : P!normalize(items, damage).items[e] = items[e]
              \/ damage.of = NoEntry /\ P!normalize(items, damage).items = P!Empty
         /\ damage = P!Intact => P!normalize(items, damage).ok
<1>1. PICK n : n = P!normalize(items, damage)
  OBVIOUS
<1>2. PICK v, d : v = P!Repaired(damage.of, items) /\ d = damage.of
  OBVIOUS
<1>3. CASE damage.how = "refused"
  <2> PICK harmed : harmed = [items EXCEPT ![d] = P!Gone]
    OBVIOUS
  <2>1. n = [ok |-> TRUE, items |-> harmed] \/ n = [ok |-> FALSE, items |-> P!Empty]
    BY <1>1, <1>2, <1>3 DEF P!normalize
  <2>2. damage # P!Intact
    BY <1>3 DEF P!Intact
  <2>3. \A e \in Entries \ {d} : harmed[e] = items[e]
    BY DEF IsList
  <2>4. CASE n = [ok |-> TRUE, items |-> harmed]
    <3>1. \A e \in Entries \ {d} : n.items[e] = items[e]
      BY <2>3, <2>4
    <3> QED
      BY <2>2, <3>1, <1>1, <1>2
  <2>5. CASE n = [ok |-> FALSE, items |-> P!Empty]
    <3>1. n.ok = FALSE
      BY <2>5
    <3> QED
      BY <2>2, <3>1, <1>1
  <2> QED
    BY <2>1, <2>4, <2>5
<1>4. CASE damage.how = "repaired"
  <2> PICK harmed : harmed = [items EXCEPT ![d] = v]
    OBVIOUS
  <2>1. n = [ok |-> TRUE, items |-> harmed]
    BY <1>1, <1>2, <1>4 DEF P!normalize
  <2>3. \A e \in Entries \ {d} : harmed[e] = items[e]
    BY DEF IsList
  <2>4. n.ok /\ \A e \in Entries \ {d} : n.items[e] = items[e]
    BY <2>1, <2>3
  <2> QED
    BY <2>4, <1>1, <1>2
<1>5. CASE damage.how = "emptied" /\ ~(damage.of # NoEntry)
  <2>1. n = [ok |-> TRUE, items |-> P!Empty]
    BY <1>1, <1>5 DEF P!normalize
  <2> QED
    BY <2>1, <1>1, <1>5
<1>6. CASE ~(damage.how = "refused" \/ damage.how = "repaired" \/ (damage.how = "emptied" /\ ~(damage.of # NoEntry)))
  <2>1. n = [ok |-> TRUE, items |-> items]
    BY <1>1, <1>6 DEF P!normalize
  <2> QED
    BY <2>1, <1>1
<1> QED
  BY <1>3, <1>4, <1>5, <1>6

Answered(a, text, items, damage) == [a EXCEPT !.at = "back", !.text = text, !.items = items, !.damage = damage]

(* A request that is answered is for the same text.                        *)
LEMMA AskAnswered ==
  ASSUME NEW a, NEW text, NEW items, NEW damage, IsAsk(a), IsList(items), NEW b, b = Answered(a, text, items, damage)
  PROVE  IsAsk(b) /\ b.of = a.of
<1>1. PICK n, of : n = a.n /\ of = a.of
  OBVIOUS
<1>2. b = [n |-> n, of |-> of, at |-> "back", text |-> text, items |-> items, damage |-> damage]
  BY <1>1 DEF IsAsk, Answered
<1>3. b.n = n /\ b.of = of /\ b.at = "back" /\ b.text = text /\ b.items = items /\ b.damage = damage
  BY <1>2
<1> QED
  BY <1>1, <1>2, <1>3 DEF IsAsk

(* A request that goes out is for the same text.                           *)
LEMMA AskMoved ==
  ASSUME NEW a, NEW where, IsAsk(a), NEW b, b = [a EXCEPT !.at = where]
  PROVE  IsAsk(b) /\ b.of = a.of
<1>1. PICK items : items = a.items
  OBVIOUS
<1> QED
  BY <1>1 DEF IsAsk

(* A new request is for the text now typed.                                *)
LEMMA AskMade ==
  ASSUME NEW where
  PROVE  IsAsk(P!NewAsk(where)) /\ P!NewAsk(where).of = query'
<1>1. PICK b : b = P!NewAsk(where)
  OBVIOUS
<1>2. PICK n, of : n = left.asks /\ of = query'
  OBVIOUS
<1>3. b = [n |-> n, of |-> of, at |-> where, text |-> P!Done, items |-> P!Empty, damage |-> P!Intact]
  BY <1>1, <1>2 DEF P!NewAsk
<1> QED
  BY <1>1, <1>2, <1>3, EmptyIsList DEF IsAsk

(* What a step leaves alone stays as it was.                               *)
LEMMA ActStays == ActIsOffered /\ UNCHANGED <<act, told>> => ActIsOffered'
  BY DEF ActIsOffered
LEMMA DamageStays == P!DamageIsContained /\ UNCHANGED <<view, sent>> => P!DamageIsContained'
  BY DEF P!DamageIsContained
LEMMA NothingToContain == view'.kind # "ready" => P!DamageIsContained'
  BY DEF P!DamageIsContained
LEMMA ListsStay == Lists /\ UNCHANGED <<listed, act, sent>> /\ (\A a \in asks' : IsAsk(a)) => Lists'
  BY DEF Lists, IsAct, IsAsk, IsList

(* The server answers a request, or it fails.                              *)
LEMMA ServePageKeeps == ASSUME PagesKept, NEW a \in asks, P!Serve(a) PROVE PagesKept'
<1>1. UNCHANGED <<page, listed, view, query, act, told, sent>>
  BY DEF P!Serve
<1>2. PICK text, items, damage : P!Back(a, text, items, damage) /\ IsList(items)
  <2>1. IsList(listed) /\ IsList(P!Empty)
    BY EmptyIsList DEF PagesKept, Lists
  <2> QED
    BY <2>1 DEF P!Serve
<1>3. PICK b : b = Answered(a, text, items, damage)
  OBVIOUS
<1>4. asks' = (asks \ {a}) \cup {b}
  BY <1>2, <1>3 DEF P!Back, Answered
<1>5. IsAsk(b) /\ b.of = a.of
  BY <1>2, <1>3, AskAnswered DEF PagesKept, Lists
<1>6. \A x \in asks' : IsAsk(x) /\ (page = "search" => x.of = query)
  BY <1>4, <1>5 DEF PagesKept, Lists, AskedForTheText
<1>7. Lists'
  BY <1>1, <1>6, ListsStay DEF PagesKept
<1>8. AskedForTheText'
  BY <1>1, <1>4, <1>6 DEF AskedForTheText
<1> QED
  BY <1>1, <1>7, <1>8, ActStays, DamageStays DEF PagesKept

(* The request of the search goes out.                                     *)
LEMMA SearchTimerKeeps == ASSUME PagesKept, NEW a \in asks, P!TimerFires(a) PROVE PagesKept'
<1>1. UNCHANGED <<page, listed, view, query, act, told, sent>>
  BY DEF P!TimerFires
<1>3. PICK b : b = [a EXCEPT !.at = "out"]
  OBVIOUS
<1>4. asks' = (asks \ {a}) \cup {b}
  BY <1>3 DEF P!TimerFires
<1>5. IsAsk(b) /\ b.of = a.of
  BY <1>3, AskMoved DEF PagesKept, Lists
<1>6. \A x \in asks' : IsAsk(x) /\ (page = "search" => x.of = query)
  BY <1>4, <1>5 DEF PagesKept, Lists, AskedForTheText
<1>7. Lists'
  BY <1>1, <1>6, ListsStay DEF PagesKept
<1>8. AskedForTheText'
  BY <1>1, <1>4, <1>6 DEF AskedForTheText
<1> QED
  BY <1>1, <1>7, <1>8, ActStays, DamageStays DEF PagesKept

(* An answer is shown: what differs from it is the entry damaged.          *)
LEMMA ShownIsContained ==
  ASSUME NEW items, NEW damage, NEW of, IsList(items), P!normalize(items, damage).ok,
         P!Show("ready", P!normalize(items, damage).items, of), sent' = [items |-> items, harmed |-> damage.of]
  PROVE  P!DamageIsContained' /\ IsList(sent'.items)
<1>1. PICK list, d : list = P!normalize(items, damage).items /\ d = damage.of
  OBVIOUS
<1>2. (\A e \in Entries \ {d} : list[e] = items[e]) \/ (d = NoEntry /\ list = P!Empty)
  BY <1>1, OneIsHarmed
<1>3. view'.items = list
  BY <1>1 DEF P!Show
<1>4. sent'.items = items /\ sent'.harmed = d
  BY <1>1
<1>5. P!Empty' = P!Empty
  BY DEF P!Empty
<1>6. (\A e \in Entries \ {sent'.harmed} : view'.items[e] = sent'.items[e]) \/ (sent'.harmed = NoEntry /\ view'.items = P!Empty)
  BY <1>2, <1>3, <1>4
<1> QED
  BY <1>4, <1>5, <1>6 DEF P!DamageIsContained

(* An answer is read: shown, or an error, or nothing changes.              *)
LEMMA ReadPageKeeps == ASSUME PagesKept, NEW a \in asks, P!Read(a) PROVE PagesKept'
<1>1. asks' = asks \ {a} /\ UNCHANGED <<page, listed, query, act, told>>
  BY DEF P!Read
<1>2. PICK ok \in BOOLEAN, keeps \in BOOLEAN, read \in BOOLEAN :
        /\ ok = (P!normalize(a.items, a.damage).ok = TRUE) /\ keeps = (page = "friends" /\ view.kind = "ready")
        /\ read = (a.text = P!Done)
  OBVIOUS
<1>3. P!normalize(a.items, a.damage).ok \in BOOLEAN
  BY DEF P!normalize
<1>4. IsAsk(a) /\ (page = "search" => a.of = query)
  BY DEF PagesKept, Lists, AskedForTheText
<1>5. \A x \in asks' : IsAsk(x) /\ (page = "search" => x.of = query)
  BY <1>1 DEF PagesKept, Lists, AskedForTheText
<1>6. CASE read /\ ok
  <2>1. P!Show("ready", P!normalize(a.items, a.damage).items, a.of) /\ sent' = [items |-> a.items, harmed |-> a.damage.of]
    BY <1>2, <1>3, <1>6 DEF P!Read
  <2>2. P!DamageIsContained' /\ IsList(sent'.items)
    BY <2>1, <1>2, <1>4, <1>6, ShownIsContained DEF IsAsk
  <2>3. view'.kind = "ready" /\ view'.of = a.of
    BY <2>1 DEF P!Show
  <2>4. Lists'
    BY <2>2, <1>1, <1>5 DEF PagesKept, Lists, IsList, IsAct, IsAsk
  <2>5. AskedForTheText'
    BY <2>3, <1>1, <1>4, <1>5 DEF AskedForTheText
  <2> QED
    BY <2>2, <2>4, <2>5, <1>1, ActStays DEF PagesKept
<1>7. CASE ~(read /\ ok) /\ keeps
  <2>1. UNCHANGED <<view, sent>> /\ page # "search" /\ view.kind # "loading"
    BY <1>2, <1>3, <1>7 DEF P!Read
  <2>4. Lists'
    BY <2>1, <1>1, <1>5, ListsStay DEF PagesKept
  <2>5. AskedForTheText'
    BY <2>1, <1>1, <1>5 DEF AskedForTheText
  <2> QED
    BY <2>1, <2>4, <2>5, <1>1, ActStays, DamageStays DEF PagesKept
<1>8. CASE ~(read /\ ok) /\ ~keeps
  <2>1. PICK kind \in {"ready", "error"} : P!Show(kind, P!Empty, a.of) /\ sent' = [items |-> P!Empty, harmed |-> NoEntry]
    BY <1>2, <1>3, <1>8 DEF P!Read
  <2>2. view'.items = P!Empty /\ view'.kind # "loading" /\ view'.of = a.of /\ sent'.items = P!Empty /\ sent'.harmed = NoEntry
    BY <2>1 DEF P!Show
  <2>3. P!DamageIsContained' /\ IsList(sent'.items)
    BY <2>2, EmptyIsList DEF P!DamageIsContained
  <2>4. Lists'
    BY <2>3, <1>1, <1>5 DEF PagesKept, Lists, IsList, IsAct, IsAsk
  <2>5. AskedForTheText'
    BY <2>2, <1>1, <1>4, <1>5 DEF AskedForTheText
  <2> QED
    BY <2>3, <2>4, <2>5, <1>1, ActStays DEF PagesKept
<1> QED
  BY <1>6, <1>7, <1>8

(* The friends are asked for again.                                        *)
LEMMA RefreshPageKeeps == ASSUME PagesKept, P!refresh PROVE PagesKept'
<1>1. UNCHANGED <<page, listed, view, query, act, told, sent>> /\ page = "friends"
  BY DEF P!refresh
<1>2. PICK b : b = P!NewAsk("out")
  OBVIOUS
<1>3. IsAsk(b) /\ asks' = asks \cup {b}
  BY <1>2, AskMade DEF P!refresh
<1>4. Lists'
  BY <1>1, <1>3, ListsStay DEF PagesKept, Lists
<1>5. AskedForTheText'
  BY <1>1, <1>3 DEF PagesKept, AskedForTheText
<1> QED
  BY <1>1, <1>4, <1>5, ActStays, DamageStays DEF PagesKept

(* The user asks again after an error.                                     *)
LEMMA RetryKeeps == ASSUME PagesKept, P!retry PROVE PagesKept'
<1>1. UNCHANGED <<page, listed, query, act, told, sent>> /\ page # "search"
  BY DEF P!retry
<1>2. PICK b : b = P!NewAsk("out")
  OBVIOUS
<1>3. IsAsk(b) /\ asks' = {b} /\ view'.kind = "loading"
  BY <1>2, AskMade DEF P!retry, P!Show, P!Deactivated
<1>4. Lists'
  BY <1>1, <1>3, ListsStay DEF PagesKept
<1>5. AskedForTheText'
  BY <1>1, <1>3 DEF AskedForTheText
<1> QED
  BY <1>1, <1>3, <1>4, <1>5, ActStays, NothingToContain DEF PagesKept

(* Searching again: the only request awaited is for the text now typed.    *)
LEMMA SearchKeeps ==
  ASSUME Lists, P!DamageIsContained, UNCHANGED <<page, listed, sent>>, P!SearchAgain
  PROVE  AskedForTheText' /\ P!DamageIsContained' /\ \A a \in asks' : IsAsk(a)
<1>2. PICK b : b = P!NewAsk("timer")
  OBVIOUS
<1>3. IsAsk(b) /\ asks' = {b} /\ b.of = query'
  BY <1>2, AskMade DEF P!SearchAgain, P!Deactivated
<1>4. UNCHANGED view \/ view'.kind = "loading"
  BY DEF P!SearchAgain, P!Show
<1>5. AskedForTheText'
  BY <1>3 DEF AskedForTheText
<1> QED
  BY <1>3, <1>4, <1>5, DamageStays, NothingToContain

(* Another text is typed: the requests for the one before are dropped.     *)
LEMMA TypedKeeps == ASSUME PagesKept, NEW q, P!Typed(q) PROVE PagesKept'
<1>1. UNCHANGED <<page, listed, act, told, sent>> /\ page = "search"
  BY DEF P!Typed
<1>2. \/ view'.kind \in {"idle", "short"} /\ asks' = {}
      \/ P!SearchAgain
  <2>1. \/ \E kind \in {"idle", "short"} : P!Show(kind, P!Empty, q) /\ asks' = P!Deactivated
        \/ P!SearchAgain
    BY DEF P!Typed
  <2>2. ASSUME NEW kind \in {"idle", "short"}, P!Show(kind, P!Empty, q) PROVE view'.kind = kind
    BY <2>2 DEF P!Show
  <2> QED
    BY <2>1, <2>2 DEF P!Deactivated
<1>3. CASE view'.kind \in {"idle", "short"} /\ asks' = {}
  <2>1. AskedForTheText' /\ P!DamageIsContained' /\ \A a \in asks' : IsAsk(a)
    BY <1>3, NothingToContain DEF AskedForTheText
  <2> QED
    BY <2>1, <1>1, ListsStay, ActStays DEF PagesKept
<1>4. CASE P!SearchAgain
  BY <1>1, <1>4, SearchKeeps, ListsStay, ActStays DEF PagesKept
<1> QED
  BY <1>2, <1>3, <1>4

(* No action is under way.                                                 *)
LEMMA ActAtRest == IsAct(P!NoAct) /\ P!NoAct.at = "none" /\ P!NoAct.items = P!Empty
  BY EmptyIsList DEF P!NoAct, IsAct

(* The outcome is seen; a search acted on is repeated.                     *)
LEMMA OnDoneKeeps == ASSUME PagesKept, P!onDone PROVE PagesKept'
<1>1. UNCHANGED <<page, listed, sent>> /\ act' = P!NoAct
  BY DEF P!onDone
<1>2. ActIsOffered' /\ IsAct(act)'
  BY <1>1, ActAtRest DEF ActIsOffered, IsAct, IsList
<1>3. P!SearchAgain \/ UNCHANGED <<query, view, asks>>
  BY DEF P!onDone
<1>4. AskedForTheText' /\ P!DamageIsContained' /\ \A a \in asks' : IsAsk(a)
  <2>1. CASE P!SearchAgain
    BY <2>1, <1>1, SearchKeeps DEF PagesKept
  <2>2. CASE UNCHANGED <<query, view, asks>>
    BY <2>2, <1>1, DamageStays DEF PagesKept, AskedForTheText, Lists
  <2> QED
    BY <1>3, <2>1, <2>2
<1>5. Lists'
  BY <1>1, <1>2, <1>4 DEF PagesKept, Lists, IsList, IsAsk
<1> QED
  BY <1>2, <1>4, <1>5 DEF PagesKept

(* A list with one entry set is a list.                                    *)
LEMMA ListSet ==
  ASSUME NEW items, IsList(items), NEW e, NEW v
  PROVE  IsList([items EXCEPT ![e] = v])
<1>1. PICK f : f = [items EXCEPT ![e] = v]
  OBVIOUS
<1>2. f = [x \in Entries |-> IF x = e THEN v ELSE items[x]]
  BY <1>1 DEF IsList
<1>3. DOMAIN f = Entries /\ f = [x \in Entries |-> f[x]]
  BY <1>2
<1> QED
  BY <1>1, <1>3 DEF IsList

(* The list changes in the server.                                         *)
LEMMA ChangeKeeps == ASSUME PagesKept, NEW e, P!ListChanges(e) PROVE PagesKept'
<1>1. UNCHANGED <<page, asks, view, query, act, told, sent>>
  BY DEF P!ListChanges
<1>2. PICK s : listed' = [listed EXCEPT ![e] = s]
  BY DEF P!ListChanges
<1>3. IsList(listed')
  BY <1>2, ListSet DEF PagesKept, Lists
<1>4. Lists'
  BY <1>1, <1>3 DEF PagesKept, Lists, IsList, IsAct, IsAsk
<1>5. AskedForTheText'
  BY <1>1 DEF PagesKept, AskedForTheText
<1> QED
  BY <1>1, <1>4, <1>5, ActStays, DamageStays DEF PagesKept

(* What a page offers on an entry is what the server then does, if the     *)
(* entry is as it was answered.                                            *)
LEMMA OfferAgrees ==
  ASSUME P!DamageIsContained, NEW e \in Entries, NEW does \in P!Offers(e)
  PROVE  does \in Acted /\ (sent.harmed # e => Agrees(does, sent.items[e]))
<1>1. PICK is : is = view.items[e]
  OBVIOUS
<1>2. view.kind = "ready" /\ does \in Acted /\ Agrees(does, is) /\ is # P!Gone
  <2>1. view.kind = "ready"
    BY DEF P!Offers
  <2>2. \/ is = "online" /\ does = "challenge"
        \/ is = "none" /\ does = "request"
        \/ is = "incoming" /\ does \in {"accept", "deleteRequest"}
        \/ is = "outgoing" /\ does = "deleteRequest"
        \/ is = "blocked" /\ does = "unblock"
        \/ is = "valid" /\ does = "activate"
    BY <1>1, <2>1 DEF P!Offers
  <2> QED
    BY <2>1, <2>2 DEF Acted, Agrees, P!Gone
<1>3. view.items # P!Empty
  BY <1>1, <1>2 DEF P!Empty
<1>4. sent.harmed # e => sent.items[e] = is
  BY <1>1, <1>2, <1>3 DEF P!DamageIsContained
<1> QED
  BY <1>2, <1>4

(* The user acts on an entry.                                              *)
LEMMA OfferedActKeeps == ASSUME PagesKept, NEW e \in Entries, NEW does \in P!Offers(e), P!Act(e, does) PROVE PagesKept'
<1>1. UNCHANGED <<page, listed, asks, view, query, sent>>
  BY DEF P!Act
<1>2. PICK s : s = IF sent.harmed = e THEN P!Unknown ELSE sent.items[e]
  OBVIOUS
<1>3. act' = [on |-> e, does |-> does, at |-> "out", seen |-> s, text |-> P!Done, items |-> P!Empty, damage |-> P!Intact]
  BY <1>2 DEF P!Act, P!NoAct
<1>4. act'.at = "out" /\ act'.does = does /\ act'.seen = s
  BY <1>3
<1>5. does \in Acted /\ (s # P!Unknown => Agrees(does, s))
  BY <1>2, OfferAgrees DEF PagesKept
<1>6. ActIsOffered'
  BY <1>4, <1>5 DEF ActIsOffered, P!Unknown
<1>7. IsAct(act')
  BY <1>3, EmptyIsList DEF IsAct
<1>8. Lists'
  BY <1>1, <1>7 DEF PagesKept, Lists, IsList, IsAct, IsAsk
<1>9. AskedForTheText'
  BY <1>1 DEF PagesKept, AskedForTheText
<1> QED
  BY <1>1, <1>6, <1>8, <1>9, DamageStays DEF PagesKept

(* What the server answers to an action: all of its refusals are texts it  *)
(* has, and those an entry as it was offered meets do not depend on it.    *)
LEMMA OutcomesAreTexts ==
  ASSUME NEW e, NEW does \in Acted, NEW text \in P!Outcomes(e, does)
  PROVE  /\ text = P!Done \/ text \in Refusals
         /\ Agrees(does, listed[e]) => text \in P!Busy \cup {P!Done}
<1>1. PICK there : there = listed[e]
  OBVIOUS
<1>2. CASE does = "challenge"
  BY <1>1, <1>2 DEF P!Outcomes, Refusals, Agrees, P!Busy
<1>3. CASE does = "request"
  BY <1>1, <1>3 DEF P!Outcomes, Refusals, Agrees, P!Busy, P!Gone
<1>4. CASE does = "accept"
  BY <1>1, <1>4 DEF P!Outcomes, Refusals, Agrees, P!Busy
<1>5. CASE does = "deleteRequest"
  BY <1>1, <1>5 DEF P!Outcomes, Refusals, Agrees, P!Busy
<1>6. CASE does = "unblock"
  BY <1>1, <1>6 DEF P!Outcomes, Refusals, Agrees, P!Busy
<1>7. CASE does = "activate"
  BY <1>1, <1>7 DEF P!Outcomes, Refusals, Agrees, P!Busy
<1> QED
  BY <1>2, <1>3, <1>4, <1>5, <1>6, <1>7 DEF Acted

(* The list after an action.                                               *)
LEMMA ListAfter ==
  ASSUME IsList(listed), NEW e, NEW does
  PROVE  IsList(P!After(e, does))
<1>1. PICK v : v = IF listed[e] = "incoming" THEN "friend" ELSE "outgoing"
  OBVIOUS
<1>2. IsList([listed EXCEPT ![e] = v]) /\ IsList([listed EXCEPT ![e] = "none"]) /\ IsList([listed EXCEPT ![e] = P!Gone])
  BY ListSet
<1>3. P!After(e, does) \in {[listed EXCEPT ![e] = v], [listed EXCEPT ![e] = "none"], [listed EXCEPT ![e] = P!Gone], listed}
  BY <1>1 DEF P!After
<1> QED
  BY <1>2, <1>3

(* The server answers the action: what it says of the entry is compared    *)
(* with what it has.                                                       *)
LEMMA ServeActKeeps == ASSUME PagesKept, P!ServeAct PROVE PagesKept'
<1>1. UNCHANGED <<page, asks, view, query, told, sent>> /\ act.at = "out"
  BY DEF P!ServeAct
<1>2. PICK text \in P!Outcomes(act.on, act.does) :
        /\ listed' = IF text = P!Done THEN P!After(act.on, act.does) ELSE listed
        /\ \E damage \in {P!Intact} \cup (IF P!AnswersWithList /\ text = P!Done /\ left.failures > 0 THEN P!DamagesOf(listed') ELSE {}) :
             act' = [act EXCEPT !.at = "back", !.seen = IF @ = listed[act.on] THEN @ ELSE P!Unknown, !.text = text,
                                !.items = IF P!AnswersWithList THEN listed' ELSE P!Empty, !.damage = damage]
  BY DEF P!ServeAct
<1>3. PICK s, items : /\ s = IF act.seen = listed[act.on] THEN act.seen ELSE P!Unknown
                      /\ items = IF P!AnswersWithList THEN listed' ELSE P!Empty
  OBVIOUS
<1>4. PICK damage : /\ act' = [act EXCEPT !.at = "back", !.seen = s, !.text = text, !.items = items, !.damage = damage]
                    /\ text # P!Done => damage = P!Intact
  BY <1>2, <1>3
<1>5. PICK on, does : on = act.on /\ does = act.does
  OBVIOUS
<1>6. act' = [on |-> on, does |-> does, at |-> "back", seen |-> s, text |-> text, items |-> items, damage |-> damage]
  BY <1>4, <1>5 DEF PagesKept, Lists, IsAct
<1>7. act'.at = "back" /\ act'.seen = s /\ act'.text = text /\ act'.items = items /\ act'.damage = damage
  BY <1>6
<1>8. does \in Acted /\ (act.seen # P!Unknown => Agrees(does, act.seen))
  BY <1>1, <1>5 DEF PagesKept, ActIsOffered
<1>9. (text = P!Done \/ text \in Refusals) /\ (Agrees(does, listed[on]) => text \in P!Busy \cup {P!Done})
  BY <1>2, <1>5, <1>8, OutcomesAreTexts
<1>10. s # P!Unknown => Agrees(does, listed[on])
  BY <1>3, <1>5, <1>8
<1>11. ActIsOffered'
  BY <1>4, <1>7, <1>9, <1>10 DEF ActIsOffered, P!Unknown, P!Done, P!Intact, P!Busy
<1>12. IsList(listed') /\ IsList(items)
  BY <1>2, <1>3, ListAfter, EmptyIsList DEF PagesKept, Lists
<1>13. IsAct(act')
  BY <1>6, <1>7, <1>12 DEF IsAct
<1>14. Lists'
  BY <1>1, <1>12, <1>13 DEF PagesKept, Lists, IsList, IsAct, IsAsk
<1>15. AskedForTheText'
  BY <1>1 DEF PagesKept, AskedForTheText
<1> QED
  BY <1>1, <1>11, <1>14, <1>15, DamageStays DEF PagesKept

(* The answer to the action is read, and told.                             *)
LEMMA RunKeeps == ASSUME PagesKept, P!run PROVE PagesKept'
<1>1. UNCHANGED <<page, listed, asks, query>> /\ act.at = "back"
  BY DEF P!run
<1>0. PICK text : text = act.text
  OBVIOUS
<1>2. PICK ok \in BOOLEAN, listing \in BOOLEAN :
        ok = (P!normalize(act.items, act.damage).ok = TRUE) /\ listing = (page = "blocks" \/ page = "decks")
  OBVIOUS
<1>3. P!normalize(act.items, act.damage).ok \in BOOLEAN
  BY DEF P!normalize
<1>4. text # P!Done => text \in Refusals /\ ok
  <2>1. ASSUME text # P!Done PROVE text \in Refusals /\ act.damage = P!Intact
    BY <1>0, <1>1, <1>2, <2>1 DEF PagesKept, ActIsOffered
  <2>2. IsList(act.items)
    BY DEF PagesKept, Lists, IsAct
  <2> QED
    BY <1>0, <1>2, <2>1, <2>2, OneIsHarmed
<1>5. act' = [on |-> NoEntry, does |-> "nothing", at |-> "told", seen |-> P!Unknown, text |-> text, items |-> P!Empty, damage |-> P!Intact]
  BY <1>0, <1>2 DEF P!run, P!NoAct
<1>6. act'.at = "told" /\ act'.text = text
  BY <1>5
<1>7. IsAct(act')
  BY <1>5, EmptyIsList DEF IsAct
<1>8. CASE text # P!Done
  <2>1. told' = P!interpretHttpResponse(text)
    BY <1>0, <1>2, <1>3, <1>4, <1>8 DEF P!run
  <2>2. told' = P!HTTP[text]
    BY <2>1, <1>4, <1>8, RefusalsAreRead
  <2>3. told' # P!NoCode
    BY <2>2, <1>4, <1>8 DEF Refusals, P!HTTP, P!NoCode
  <2>4. UNCHANGED <<view, sent>>
    BY <2>3 DEF P!run
  <2>5. ActIsOffered'
    BY <1>6, <2>2 DEF ActIsOffered
  <2>6. Lists'
    BY <1>1, <1>7, <2>4 DEF PagesKept, Lists, IsList, IsAct, IsAsk
  <2>7. AskedForTheText'
    BY <1>1, <2>4 DEF PagesKept, AskedForTheText
  <2> QED
    BY <2>4, <2>5, <2>6, <2>7, DamageStays DEF PagesKept
<1>9. CASE text = P!Done
  <2>1. ActIsOffered'
    BY <1>6, <1>9 DEF ActIsOffered
  <2>2. CASE listing /\ ok
    <3>1. told' = P!NoCode
      BY <1>0, <1>2, <1>3, <1>9, <2>2 DEF P!run, P!AnswersWithList
    <3>2. P!Show("ready", P!normalize(act.items, act.damage).items, query) /\ sent' = [items |-> act.items, harmed |-> act.damage.of]
      BY <1>0, <1>2, <2>2, <3>1 DEF P!run, P!AnswersWithList
    <3>3. P!DamageIsContained' /\ IsList(sent'.items)
      BY <1>0, <1>2, <2>2, <3>2, ShownIsContained DEF PagesKept, Lists, IsAct
    <3>4. view'.kind = "ready"
      BY <3>2 DEF P!Show
    <3>5. AskedForTheText'
      BY <1>0, <1>1, <1>2, <2>2, <3>4 DEF PagesKept, AskedForTheText
    <3>6. Lists'
      BY <1>1, <1>7, <3>3 DEF PagesKept, Lists, IsList, IsAct, IsAsk
    <3> QED
      BY <2>1, <3>3, <3>5, <3>6 DEF PagesKept
  <2>3. CASE ~(listing /\ ok)
    <3>1. UNCHANGED <<view, sent>>
      <4>1. CASE listing
        <5>1. told' = "invalid_response"
          BY <1>0, <1>2, <1>3, <1>9, <2>3, <4>1 DEF P!run, P!AnswersWithList
        <5> QED
          BY <5>1 DEF P!run, P!NoCode
      <4>2. CASE ~listing
        BY <1>0, <1>2, <4>2 DEF P!run, P!AnswersWithList
      <4> QED
        BY <4>1, <4>2
    <3>2. Lists'
      BY <1>1, <1>7, <3>1 DEF PagesKept, Lists, IsList, IsAct, IsAsk
    <3>3. AskedForTheText'
      BY <1>1, <3>1 DEF PagesKept, AskedForTheText
    <3> QED
      BY <2>1, <3>1, <3>2, <3>3, DamageStays DEF PagesKept
  <2> QED
    BY <2>2, <2>3
<1> QED
  BY <1>8, <1>9

(* Every step of a page keeps its invariant.                               *)
LEMMA PagesSteps == PagesKept /\ [P!Next]_(P!vars) => PagesKept'
<1>1. ASSUME PagesKept, UNCHANGED P!vars PROVE PagesKept'
  <2>1. UNCHANGED <<page, listed, asks, view, query, act, told, sent>>
    BY <1>1 DEF P!vars
  <2>2. AskedForTheText'
    BY <1>1, <2>1 DEF PagesKept, AskedForTheText
  <2>3. Lists'
    BY <1>1, <2>1, ListsStay DEF PagesKept, Lists
  <2> QED
    BY <1>1, <2>1, <2>2, <2>3, ActStays, DamageStays DEF PagesKept
<1>2. ASSUME PagesKept, P!Next PROVE PagesKept'
  BY <1>2, ServePageKeeps, ReadPageKeeps, SearchTimerKeeps, ChangeKeeps, OfferedActKeeps, TypedKeeps, RefreshPageKeeps, RetryKeeps, ServeActKeeps,
     RunKeeps, OnDoneKeeps DEF P!Next
<1> QED
  BY <1>1, <1>2

(* A page that waits for nothing shows a list or an error, all of the list *)
(* but a damaged entry is the server's, and a refusal is told for what it  *)
(* is: the invariant that the run client_parts checks of the part "pages", *)
(* for any entries, texts, requests, changes and faults (useFriends,       *)
(* useUserSearch, adapter.ts, serverTexts.ts).                             *)
THEOREM PagesHold == Spec => []PagesAreFaithful
<1> DEFINE Inv == part = "pages" => PagesKept
<1>1. Init => Inv
  <2>1. Init => (part = "pages" => P!Init)
    BY DEF Init
  <2> QED
    BY <2>1, PagesStart
<1>2. Inv /\ [Next]_vars => Inv'
  BY StepsOfPages, PagesSteps
<1>3. Inv => PagesAreFaithful
  BY PagesKeptIsSound DEF PagesAreFaithful
<1> QED
  BY <1>1, <1>2, <1>3, PTL DEF Spec
=============================================================================

------------------------------- MODULE Sessions ------------------------------
(***************************************************************************)
(* The codes and the refresh tokens of one phone number                    *)
(* (src/app/modules/auth/service.py, the force-logout of admin/users.py).  *)
(*                                                                         *)
(* A token belongs to the login it descends from by refreshes: its family, *)
(* numbered like the login's own token.  Access tokens are not kept        *)
(* anywhere and expire by themselves.  The fixed code of development, the  *)
(* password login (a login without a code) and the devices table (one row  *)
(* per device, rewritten at each login) change nothing in what follows;    *)
(* a wrong code or a wrong password neither.  Redis answers one command    *)
(* after the other, so that two requests may come between them.            *)
(***************************************************************************)
EXTENDS Requests, Sequences

CONSTANTS
  Devices,     \* clients that use the number, one request at a time each
  DailyLimit,  \* settings.sms_daily_limit
  MaxTokens    \* named bound: refresh tokens ever issued

ASSUME SessionsAssumption == "ops" \notin Devices /\ DailyLimit \in Nat

VARIABLES
  code,      \* the number of the last code sent while it lasts, or 0
  recent,    \* sms:interval:<phone> exists
  sentToday, \* sms:daily:<phone>:<date>
  sent,      \* codes ever sent (history)
  used,      \* codes that logged somebody in, in order (history)
  tokens,    \* refresh_tokens: [family, live]
  ended,     \* families that were logged out or forced out (history)
  authTx     \* the open request of each device and of an admin ("ops")

authVars == <<code, recent, sentToday, sent, used, tokens, ended, authTx>>

NoAuthTx == [op |-> "idle", n |-> 0]

SessionsInit ==
  /\ code = 0 /\ recent = FALSE /\ sentToday = 0 /\ sent = 0 /\ used = <<>>
  /\ tokens = <<>> /\ ended = {}
  /\ authTx = [d \in Devices \cup {"ops"} |-> NoAuthTx]

OpenAuth(d, op, n) ==
  /\ MayBegin(authTx, d, NoAuthTx)
  /\ authTx' = [authTx EXCEPT ![d] = [op |-> op, n |-> n]]

EndAuth(d) == authTx' = [authTx EXCEPT ![d] = NoAuthTx]

\* send_sms: not again within the interval nor past the day's limit.  Whether the
\* provider then delivers the code or fails, the code stands.
BeginSms(d) ==
  /\ ~recent /\ sentToday < DailyLimit
  /\ OpenAuth(d, "sms", 0)
  /\ UNCHANGED <<serial, blocks, code, recent, sentToday, sent, used, tokens, ended>>

CommitSms(d) ==
  /\ authTx[d].op = "sms"
  /\ sent' = sent + 1 /\ code' = sent'
  /\ recent' = TRUE /\ sentToday' = sentToday + 1
  /\ EndAuth(d)
  /\ UNCHANGED <<serial, blocks, used, tokens, ended>>

\* The keys of Redis run out: the code and the interval; the model lives within
\* one day.
CodeExpires ==
  /\ code # 0 /\ code' = 0
  /\ UNCHANGED <<serial, blocks, recent, sentToday, sent, used, tokens, ended, authTx>>

IntervalEnds ==
  /\ recent /\ recent' = FALSE
  /\ UNCHANGED <<serial, blocks, code, sentToday, sent, used, tokens, ended, authTx>>

\* login: the code is the one that was sent last.
BeginLogin(d) ==
  /\ code # 0 /\ Len(tokens) < MaxTokens
  /\ OpenAuth(d, "login", code)
  /\ UNCHANGED <<serial, blocks, code, recent, sentToday, sent, used, tokens, ended>>

\* A plausible slip: the code lasts until it expires.
CodeKept == code

\* login deletes the code of the number as soon as it was found right.
CodeAfterLogin == 0

\* _issue_tokens: a token of the given family, 0 for a new one.
Issued(toks, family) ==
  Append(toks, [family |-> IF family = 0 THEN Len(toks) + 1 ELSE family, live |-> TRUE])

CommitLogin(d) ==
  /\ authTx[d].op = "login" /\ Len(tokens) < MaxTokens
  /\ code' = CodeAfterLogin
  /\ used' = Append(used, authTx[d].n)
  /\ tokens' = Issued(tokens, 0)
  /\ EndAuth(d)
  /\ UNCHANGED <<serial, blocks, recent, sentToday, sent, ended>>

\* A banned or deleted account, or a first login that loses the race for the
\* number: the code is gone and nobody is logged in.
LoginFails(d) ==
  /\ authTx[d].op = "login"
  /\ code' = CodeAfterLogin
  /\ EndAuth(d)
  /\ UNCHANGED <<serial, blocks, recent, sentToday, sent, used, tokens, ended>>

\* refresh with any token that is not revoked; expiry is like revocation.
BeginRefresh(d, i) ==
  /\ tokens[i].live /\ Len(tokens) < MaxTokens
  /\ OpenAuth(d, "refresh", i)
  /\ UNCHANGED <<serial, blocks, code, recent, sentToday, sent, used, tokens, ended>>

\* A plausible slip: the token that was used stays good.
NotRevoked(toks, i) == toks

Revoked(toks, i) == [toks EXCEPT ![i].live = FALSE]

CommitRefresh(d) ==
  LET i == authTx[d].n IN
  /\ authTx[d].op = "refresh" /\ Len(tokens) < MaxTokens
  /\ tokens' = Issued(Revoked(tokens, i), tokens[i].family)
  /\ EndAuth(d)
  /\ UNCHANGED <<serial, blocks, code, recent, sentToday, sent, used, ended>>

\* logout with any token the device has, also one it has used up already, which
\* logs nobody out.
Logout(d, i) ==
  /\ MayBegin(authTx, d, NoAuthTx)
  /\ tokens' = Revoked(tokens, i)
  /\ ended' = IF tokens[i].live THEN ended \cup {tokens[i].family} ELSE ended
  /\ UNCHANGED <<serial, blocks, code, recent, sentToday, sent, used, authTx>>

\* admin_force_logout: one UPDATE of what is committed.
ForceLogout ==
  /\ MayBegin(authTx, "ops", NoAuthTx)
  /\ tokens' = [i \in DOMAIN tokens |-> [tokens[i] EXCEPT !.live = FALSE]]
  /\ ended' = ended \cup {tokens[i].family : i \in DOMAIN tokens}
  /\ UNCHANGED <<serial, blocks, code, recent, sentToday, sent, used, authTx>>

SessionsNext ==
  \/ \E d \in Devices :
       \/ BeginSms(d) \/ CommitSms(d) \/ BeginLogin(d) \/ CommitLogin(d) \/ LoginFails(d)
       \/ CommitRefresh(d)
       \/ \E i \in DOMAIN tokens : BeginRefresh(d, i) \/ Logout(d, i)
  \/ CodeExpires \/ IntervalEnds \/ ForceLogout

SessionsSpec == RequestsInit /\ SessionsInit /\ [][SessionsNext]_<<serial, blocks, authVars>>
-----------------------------------------------------------------------------
SessionsTypeOK ==
  /\ code \in 0..sent /\ recent \in BOOLEAN /\ sentToday = sent
  /\ \A i \in DOMAIN used : used[i] \in 1..sent
  /\ \A i \in DOMAIN tokens : tokens[i].family \in 1..i /\ tokens[i].live \in BOOLEAN
  /\ ended \subseteq DOMAIN tokens

LiveOf(family) == {i \in DOMAIN tokens : tokens[i].family = family /\ tokens[i].live}

\* README "Rotate refresh token", and login deleting its code, where requests do
\* not overlap: a login has at most one good refresh token whatever the order of
\* refreshes, none once it was logged out or forced out, and no code logs in
\* twice; nor is a number sent more codes than the day's limit.
OneTokenPerLogin ==
  serial =>
    /\ \A f \in {tokens[i].family : i \in DOMAIN tokens} :
         Cardinality(LiveOf(f)) <= IF f \in ended THEN 0 ELSE 1
    /\ \A i, j \in DOMAIN used : used[i] = used[j] => i = j
    /\ sentToday <= DailyLimit
=============================================================================

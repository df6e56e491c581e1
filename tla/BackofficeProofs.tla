--------------------------- MODULE BackofficeProofs ---------------------------
(***************************************************************************)
(* The back office: the accounts of the admins, companions, the trust      *)
(* score, the tokens, the status of a user's account, analytics, sums of   *)
(* counts, campaigns, memberships and the scripts, each with its inductive *)
(* invariant, and what follows for the composition of all.  What Rankings  *)
(* computes has a module of its own.                                       *)
(***************************************************************************)
EXTENDS Backoffice, RankingsProofs
-----------------------------------------------------------------------------
(***************************************************************************)
(* One good refresh token per login and one login per code, for any number *)
(* of devices, codes a day and tokens.  Where requests do not overlap, the *)
(* one open request still finds what it found before it began (Rests): its *)
(* token is good, its code has not logged anybody in, the day's limit has  *)
(* room.  A code that is out is always unused, because a login takes it    *)
(* away, and a new one has a number that nobody has used.                  *)
(***************************************************************************)
USE SessionsAssumption

Clients == Devices \cup {"ops"}
AuthRequest == [op : {"idle", "sms", "login", "refresh"}, n : Nat]
Token == [family : Nat, live : BOOLEAN]

AuthTyped ==
  /\ sent \in Nat /\ sentToday \in Nat /\ code \in 0..sent
  /\ used \in Seq(Nat) /\ \A i \in DOMAIN used : used[i] \in 1..sent
  /\ tokens \in Seq(Token) /\ \A i \in DOMAIN tokens : tokens[i].family \in DOMAIN tokens
  /\ ended \subseteq DOMAIN tokens
  /\ authTx \in [Clients -> AuthRequest]
  /\ \A d \in Clients :
       /\ authTx[d].op = "refresh" => authTx[d].n \in DOMAIN tokens
       /\ authTx[d].op = "login" => authTx[d].n \in 1..sent

\* Nobody has logged in with this code.
Unused(n) == \A i \in DOMAIN used : used[i] # n

\* A code logs in once, and the one that is out has not done so.
CodesOnce ==
  /\ \A i, j \in DOMAIN used : used[i] = used[j] => i = j
  /\ code # 0 => Unused(code)

\* One good token of a login, none of a login that is over.
TokensOnce ==
  /\ \A i, j \in DOMAIN tokens :
       tokens[i].live /\ tokens[j].live /\ tokens[i].family = tokens[j].family => i = j
  /\ \A i \in DOMAIN tokens : tokens[i].live => tokens[i].family \notin ended

\* What an open request that nothing has overtaken rests on.
Rests(d) ==
  /\ \A e \in Clients \ {d} : authTx[e] = NoAuthTx
  /\ authTx[d].op = "sms" => sentToday < DailyLimit
  /\ authTx[d].op = "login" => Unused(authTx[d].n)
  /\ authTx[d].op = "refresh" => tokens[authTx[d].n].live

SerialInv ==
  /\ \A d \in Clients : authTx[d] # NoAuthTx => Rests(d)
  /\ CodesOnce /\ TokensOnce /\ sentToday <= DailyLimit

\* The inductive invariant.
AuthInv == AuthTyped /\ (serial => SerialInv)

LEMMA NoneIsTyped == NoAuthTx \in AuthRequest /\ NoAuthTx.op = "idle"
BY DEF NoAuthTx, AuthRequest

\* A request that begins with what it has found.
LEMMA OpenKeeps ==
  ASSUME AuthInv, NEW d \in Clients, NEW op \in {"sms", "login", "refresh"}, NEW n \in Nat,
         OpenAuth(d, op, n),
         UNCHANGED <<serial, blocks, code, recent, sentToday, sent, used, tokens, ended>>,
         op = "sms" => sentToday < DailyLimit,
         op = "login" => n = code /\ code # 0,
         op = "refresh" => n \in DOMAIN tokens /\ tokens[n].live
  PROVE  AuthInv'
<1> DEFINE t == [op |-> op, n |-> n]
<1>1. /\ authTx' = [authTx EXCEPT ![d] = t] /\ DOMAIN authTx = Clients
      /\ serial => \A e \in Clients : authTx[e] = NoAuthTx
  BY DEF OpenAuth, MayBegin, AuthInv, AuthTyped
<1>2. \A e \in Clients : authTx'[e] = IF e = d THEN t ELSE authTx[e]
  BY <1>1 DEF AuthInv, AuthTyped
<1>3. t \in AuthRequest BY DEF AuthRequest
<1>4. AuthTyped'
  <2>1. authTx' \in [Clients -> AuthRequest] BY <1>1, <1>3 DEF AuthInv, AuthTyped
  <2>2. op = "login" => n \in 1..sent BY DEF AuthInv, AuthTyped
  <2> QED BY <1>2, <2>1, <2>2 DEF AuthInv, AuthTyped
<1>5. ASSUME serial' PROVE SerialInv'
  <2>1. serial /\ SerialInv BY <1>5 DEF AuthInv
  <2>2. \A e \in Clients : e # d => authTx'[e] = NoAuthTx BY <1>1, <1>2, <2>1
  <2>3. op = "login" => Unused(n) BY <2>1 DEF SerialInv, CodesOnce
  <2>4. Rests(d)' BY <1>2, <2>2, <2>3 DEF Rests, Unused
  <2> QED BY <2>1, <2>2, <2>4 DEF SerialInv, CodesOnce, TokensOnce, Unused
<1> QED BY <1>4, <1>5 DEF AuthInv

\* A request that ends: where requests do not overlap none is open any more.
LEMMA EndIs ==
  ASSUME AuthInv, NEW d \in Clients, EndAuth(d), authTx[d] # NoAuthTx
  PROVE  /\ authTx' \in [Clients -> AuthRequest]
         /\ \A e \in Clients : authTx'[e] = IF e = d THEN NoAuthTx ELSE authTx[e]
         /\ serial => Rests(d) /\ \A e \in Clients : authTx'[e] = NoAuthTx
<1>1. \A e \in Clients : authTx'[e] = IF e = d THEN NoAuthTx ELSE authTx[e]
  BY DEF EndAuth, AuthInv, AuthTyped
<1>2. authTx' \in [Clients -> AuthRequest]
  BY NoneIsTyped DEF EndAuth, AuthInv, AuthTyped
<1>3. serial => Rests(d) BY DEF AuthInv, SerialInv
<1> QED BY <1>1, <1>2, <1>3 DEF Rests

\* send_sms: the new code has a number of its own.
LEMMA SmsKeeps ==
  ASSUME AuthInv, NEW d \in Clients, CommitSms(d)
  PROVE  AuthInv'
<1>1. /\ authTx[d].op = "sms" /\ EndAuth(d) /\ sent' = sent + 1 /\ code' = sent + 1
      /\ sentToday' = sentToday + 1 /\ UNCHANGED <<serial, used, tokens, ended>>
  BY DEF CommitSms
<1>2. authTx[d] # NoAuthTx BY <1>1, NoneIsTyped
<1>3. AuthTyped'
  <2>1. \A e \in Clients : authTx'[e].op \in {"refresh", "login"} => authTx'[e] = authTx[e]
    BY <1>1, <1>2, EndIs, NoneIsTyped
  <2>2. authTx' \in [Clients -> AuthRequest] BY <1>1, <1>2, EndIs
  <2> QED BY <1>1, <2>1, <2>2 DEF AuthInv, AuthTyped
<1>4. ASSUME serial' PROVE SerialInv'
  <2>1. serial /\ SerialInv /\ AuthTyped BY <1>1, <1>4 DEF AuthInv
  <2>2. Rests(d) /\ \A e \in Clients : authTx'[e] = NoAuthTx BY <1>1, <1>2, <2>1, EndIs
  <2>3. sentToday < DailyLimit BY <1>1, <2>2 DEF Rests
  <2>4. CodesOnce' BY <1>1, <2>1 DEF SerialInv, CodesOnce, Unused, AuthTyped
  <2>5. TokensOnce' BY <1>1, <2>1 DEF SerialInv, TokensOnce
  <2>6. sentToday' <= DailyLimit BY <1>1, <2>1, <2>3 DEF AuthTyped
  <2> QED BY <2>2, <2>4, <2>5, <2>6 DEF SerialInv
<1> QED BY <1>3, <1>4 DEF AuthInv

\* _issue_tokens
LEMMA IssuedIs ==
  ASSUME NEW toks \in Seq(Token), NEW family \in Nat
  PROVE  /\ Issued(toks, family) \in Seq(Token)
         /\ DOMAIN Issued(toks, family) = DOMAIN toks \cup {Len(toks) + 1}
         /\ \A i \in DOMAIN toks : Issued(toks, family)[i] = toks[i]
         /\ Issued(toks, family)[Len(toks) + 1].live
         /\ Issued(toks, family)[Len(toks) + 1].family =
              IF family = 0 THEN Len(toks) + 1 ELSE family
         /\ Len(toks) + 1 \notin DOMAIN toks
<1> DEFINE f == IF family = 0 THEN Len(toks) + 1 ELSE family
           t == [family |-> f, live |-> TRUE]
<1>1. Len(toks) \in Nat OBVIOUS
<1>2. f \in Nat BY <1>1
<1>3. t \in Token BY <1>2 DEF Token
<1>4. Issued(toks, family) = Append(toks, t) BY DEF Issued
<1>5. t.live /\ t.family = f OBVIOUS
<1> HIDE DEF t
<1>6. /\ Append(toks, t) \in Seq(Token)
      /\ DOMAIN Append(toks, t) = DOMAIN toks \cup {Len(toks) + 1}
      /\ \A i \in DOMAIN toks : Append(toks, t)[i] = toks[i]
      /\ Append(toks, t)[Len(toks) + 1] = t
      /\ Len(toks) + 1 \notin DOMAIN toks
  BY <1>1, <1>3
<1> QED BY <1>4, <1>5, <1>6

\* The UPDATE of revoked_at.
LEMMA RevokedIs ==
  ASSUME NEW toks \in Seq(Token), NEW n \in DOMAIN toks
  PROVE  /\ Revoked(toks, n) \in Seq(Token) /\ DOMAIN Revoked(toks, n) = DOMAIN toks
         /\ \A i \in DOMAIN toks :
              /\ Revoked(toks, n)[i].family = toks[i].family
              /\ Revoked(toks, n)[i].live <=> (toks[i].live /\ i # n)
<1> DEFINE t == [toks[n] EXCEPT !.live = FALSE]
<1>1. toks[n] \in Token OBVIOUS
<1>2. t \in Token /\ t.family = toks[n].family /\ ~t.live BY <1>1 DEF Token
<1>3. Revoked(toks, n) = [toks EXCEPT ![n] = t] BY DEF Revoked
<1> HIDE DEF t
<1>4. /\ [toks EXCEPT ![n] = t] \in Seq(Token)
      /\ Len([toks EXCEPT ![n] = t]) = Len(toks)
      /\ \A i \in 1..Len(toks) : [toks EXCEPT ![n] = t][i] = IF i = n THEN t ELSE toks[i]
  BY <1>2, ExceptSeq
<1>5. DOMAIN toks = 1..Len(toks) OBVIOUS
<1> QED BY <1>2, <1>3, <1>4, <1>5

\* A login deletes its code, which is of no use from then on.
LEMMA LoginKeeps ==
  ASSUME AuthInv, NEW d \in Clients, CommitLogin(d)
  PROVE  AuthInv'
<1> DEFINE n == authTx[d].n
           new == Issued(tokens, 0)
           k == Len(tokens) + 1
<1>1. /\ authTx[d].op = "login" /\ EndAuth(d) /\ code' = 0 /\ used' = Append(used, n)
      /\ tokens' = new /\ UNCHANGED <<serial, sentToday, sent, ended>>
  BY DEF CommitLogin, CodeAfterLogin
<1>2. authTx[d] # NoAuthTx /\ AuthTyped BY <1>1, NoneIsTyped DEF AuthInv
<1>3. tokens \in Seq(Token) /\ used \in Seq(Nat) /\ n \in 1..sent /\ sent \in Nat
  BY <1>1, <1>2 DEF AuthTyped
<1>4. /\ new \in Seq(Token) /\ DOMAIN new = DOMAIN tokens \cup {k}
      /\ \A i \in DOMAIN tokens : new[i] = tokens[i]
      /\ new[k].family = k /\ new[k].live /\ k \notin DOMAIN tokens
  BY <1>3, IssuedIs
<1>5. /\ used' \in Seq(Nat) /\ DOMAIN used' = DOMAIN used \cup {Len(used) + 1}
      /\ \A i \in DOMAIN used : used'[i] = used[i]
      /\ used'[Len(used) + 1] = n
  BY <1>1, <1>3
<1> HIDE DEF new, k, n
<1>6. AuthTyped'
  <2>1. \A e \in Clients : authTx'[e].op \in {"refresh", "login"} => authTx'[e] = authTx[e]
    BY <1>1, <1>2, EndIs, NoneIsTyped
  <2>2. authTx' \in [Clients -> AuthRequest] BY <1>1, <1>2, EndIs
  <2>3. \A i \in DOMAIN used' : used'[i] \in 1..sent BY <1>2, <1>3, <1>5 DEF AuthTyped
  <2>4. \A i \in DOMAIN tokens' : tokens'[i].family \in DOMAIN tokens'
    BY <1>1, <1>2, <1>4 DEF AuthTyped
  <2>5. ended' \subseteq DOMAIN tokens' BY <1>1, <1>2, <1>4 DEF AuthTyped
  <2>6. \A e \in Clients : /\ authTx'[e].op = "refresh" => authTx'[e].n \in DOMAIN tokens'
                           /\ authTx'[e].op = "login" => authTx'[e].n \in 1..sent'
    BY <1>1, <1>2, <1>4, <2>1 DEF AuthTyped
  <2> QED BY <1>1, <1>2, <1>4, <1>5, <2>2, <2>3, <2>4, <2>5, <2>6 DEF AuthTyped
<1>7. ASSUME serial' PROVE SerialInv'
  <2>1. serial /\ SerialInv BY <1>1, <1>7 DEF AuthInv
  <2>2. Rests(d) /\ \A e \in Clients : authTx'[e] = NoAuthTx BY <1>1, <1>2, <2>1, EndIs
  <2>3. Unused(n) BY <1>1, <2>2 DEF Rests, n
  <2>4. CodesOnce' BY <1>1, <1>5, <2>1, <2>3 DEF SerialInv, CodesOnce, Unused
  <2>5. \A i \in DOMAIN tokens : tokens[i].family # k /\ k \notin ended
    BY <1>2, <1>4 DEF AuthTyped
  <2>6. \A i \in DOMAIN tokens' : i # k => i \in DOMAIN tokens /\ tokens'[i] = tokens[i]
    BY <1>1, <1>4
  <2>7. TokensOnce
    BY <2>1 DEF SerialInv
  <2>8. \A i \in DOMAIN tokens' : i # k => tokens'[i].family # k BY <2>5, <2>6
  <2>9. tokens'[k].family = k /\ k \notin ended' /\ ended' = ended BY <1>1, <1>2, <1>4 DEF AuthTyped
  <2>10. ASSUME NEW i \in DOMAIN tokens', NEW j \in DOMAIN tokens',
                tokens'[i].live, tokens'[j].live, tokens'[i].family = tokens'[j].family
         PROVE  i = j
    <3>1. CASE i = k \/ j = k BY <2>8, <2>9, <2>10, <3>1
    <3>2. CASE i # k /\ j # k BY <2>6, <2>7, <2>10, <3>2 DEF TokensOnce
    <3> QED BY <3>1, <3>2
  <2>11. ASSUME NEW i \in DOMAIN tokens', tokens'[i].live
         PROVE  tokens'[i].family \notin ended'
    <3>1. CASE i = k BY <2>9, <3>1
    <3>2. CASE i # k BY <2>6, <2>7, <2>9, <2>11, <3>2 DEF TokensOnce
    <3> QED BY <3>1, <3>2
  <2>12. TokensOnce' BY <2>10, <2>11 DEF TokensOnce
  <2> QED BY <1>1, <2>1, <2>2, <2>4, <2>12 DEF SerialInv
<1> QED BY <1>6, <1>7 DEF AuthInv

\* A refresh hands the login on from the token it used up.
LEMMA RefreshKeeps ==
  ASSUME AuthInv, NEW d \in Clients, CommitRefresh(d)
  PROVE  AuthInv'
<1> DEFINE n == authTx[d].n
           rest == Revoked(tokens, n)
           f == tokens[n].family
           new == Issued(rest, f)
           k == Len(rest) + 1
<1>1. /\ authTx[d].op = "refresh" /\ EndAuth(d) /\ tokens' = new
      /\ UNCHANGED <<serial, code, sentToday, sent, used, ended>>
  BY DEF CommitRefresh
<1>2. authTx[d] # NoAuthTx /\ AuthTyped BY <1>1, NoneIsTyped DEF AuthInv
<1>3. tokens \in Seq(Token) /\ n \in DOMAIN tokens /\ f \in DOMAIN tokens
  BY <1>1, <1>2 DEF AuthTyped
<1>4. f \in Nat /\ f # 0 BY <1>3
<1> HIDE DEF n, f
<1>5. /\ rest \in Seq(Token) /\ DOMAIN rest = DOMAIN tokens
      /\ \A i \in DOMAIN tokens : rest[i].family = tokens[i].family
      /\ \A i \in DOMAIN tokens : rest[i].live <=> (tokens[i].live /\ i # n)
  BY <1>3, RevokedIs
<1> HIDE DEF rest
<1>6. /\ new \in Seq(Token) /\ DOMAIN new = DOMAIN tokens \cup {k}
      /\ \A i \in DOMAIN tokens : new[i] = rest[i]
      /\ new[k].family = f /\ new[k].live /\ k \notin DOMAIN tokens
  <2>1. /\ new \in Seq(Token) /\ DOMAIN new = DOMAIN rest \cup {k}
        /\ \A i \in DOMAIN rest : new[i] = rest[i]
        /\ k \notin DOMAIN rest
    BY <1>4, <1>5, IssuedIs
  <2>2. new[k].live BY <1>4, <1>5, IssuedIs
  <2>3. new[k].family = IF f = 0 THEN k ELSE f BY <1>4, <1>5, IssuedIs
  <2> QED BY <1>4, <1>5, <2>1, <2>2, <2>3
<1> HIDE DEF new, k
<1>7. AuthTyped'
  <2>1. \A e \in Clients : authTx'[e].op \in {"refresh", "login"} => authTx'[e] = authTx[e]
    BY <1>1, <1>2, EndIs, NoneIsTyped
  <2>2. authTx' \in [Clients -> AuthRequest] BY <1>1, <1>2, EndIs
  <2>3. \A i \in DOMAIN tokens' : tokens'[i].family \in DOMAIN tokens'
    BY <1>1, <1>2, <1>3, <1>5, <1>6 DEF AuthTyped
  <2>4. ended' \subseteq DOMAIN tokens' BY <1>1, <1>2, <1>6 DEF AuthTyped
  <2>5. \A e \in Clients : /\ authTx'[e].op = "refresh" => authTx'[e].n \in DOMAIN tokens'
                           /\ authTx'[e].op = "login" => authTx'[e].n \in 1..sent'
    BY <1>1, <1>2, <1>6, <2>1 DEF AuthTyped
  <2> QED BY <1>1, <1>2, <1>6, <2>2, <2>3, <2>4, <2>5 DEF AuthTyped
<1>8. ASSUME serial' PROVE SerialInv'
  <2>1. serial /\ SerialInv BY <1>1, <1>8 DEF AuthInv
  <2>2. Rests(d) /\ \A e \in Clients : authTx'[e] = NoAuthTx BY <1>1, <1>2, <2>1, EndIs
  <2>3. tokens[n].live BY <1>1, <2>2 DEF Rests, n
  <2>4. f \notin ended BY <1>3, <2>1, <2>3 DEF SerialInv, TokensOnce, f
  <2>5. \A i \in DOMAIN tokens : rest[i].live => tokens[i].live /\ rest[i].family # f
    BY <1>3, <1>5, <2>1, <2>3 DEF SerialInv, TokensOnce, f
  <2>6. TokensOnce' BY <1>1, <1>5, <1>6, <2>1, <2>4, <2>5 DEF SerialInv, TokensOnce
  <2>7. CodesOnce' BY <1>1, <2>1 DEF SerialInv, CodesOnce, Unused
  <2> QED BY <1>1, <2>1, <2>2, <2>6, <2>7 DEF SerialInv
<1> QED BY <1>7, <1>8 DEF AuthInv

\* A login that fails costs its code.
LEMMA FailKeeps ==
  ASSUME AuthInv, NEW d \in Clients, LoginFails(d)
  PROVE  AuthInv'
<1>1. /\ authTx[d].op = "login" /\ EndAuth(d) /\ code' = 0
      /\ UNCHANGED <<serial, sentToday, sent, used, tokens, ended>>
  BY DEF LoginFails, CodeAfterLogin
<1>2. authTx[d] # NoAuthTx BY <1>1, NoneIsTyped
<1>3. AuthTyped'
  <2>1. \A e \in Clients : authTx'[e].op \in {"refresh", "login"} => authTx'[e] = authTx[e]
    BY <1>1, <1>2, EndIs, NoneIsTyped
  <2>2. authTx' \in [Clients -> AuthRequest] BY <1>1, <1>2, EndIs
  <2> QED BY <1>1, <2>1, <2>2 DEF AuthInv, AuthTyped
<1>4. ASSUME serial' PROVE SerialInv'
  <2>1. serial /\ SerialInv BY <1>1, <1>4 DEF AuthInv
  <2>2. \A e \in Clients : authTx'[e] = NoAuthTx BY <1>1, <1>2, <2>1, EndIs
  <2> QED BY <1>1, <2>1, <2>2 DEF SerialInv, CodesOnce, TokensOnce, Unused
<1> QED BY <1>3, <1>4 DEF AuthInv

\* Tokens that are revoked: no other one becomes good.
LEMMA RevokeKeeps ==
  ASSUME AuthInv, UNCHANGED <<serial, code, sentToday, sent, used, authTx>>,
         serial => \A d \in Clients : authTx[d] = NoAuthTx,
         tokens' \in Seq(Token), DOMAIN tokens' = DOMAIN tokens,
         \A i \in DOMAIN tokens : tokens'[i].family = tokens[i].family,
         \A i \in DOMAIN tokens : tokens'[i].live => tokens[i].live,
         ended' \subseteq DOMAIN tokens,
         serial => \A i \in DOMAIN tokens :
                     tokens'[i].live => tokens[i].family \notin ended'
  PROVE  AuthInv'
<1>1. AuthTyped' BY DEF AuthInv, AuthTyped
<1>2. ASSUME serial' PROVE SerialInv'
  <2>1. serial /\ SerialInv BY <1>2 DEF AuthInv
  <2>2. \A d \in Clients : authTx'[d] = NoAuthTx BY <2>1
  <2>3. CodesOnce' BY <2>1 DEF SerialInv, CodesOnce, Unused
  <2>4. TokensOnce' BY <2>1 DEF SerialInv, TokensOnce
  <2>5. sentToday' <= DailyLimit BY <2>1 DEF SerialInv
  <2> QED BY <2>2, <2>3, <2>4, <2>5 DEF SerialInv
<1> QED BY <1>1, <1>2 DEF AuthInv

\* logout: of the one good token of its login, or of none.
LEMMA LogoutKeeps ==
  ASSUME AuthInv, NEW d \in Devices, NEW i \in DOMAIN tokens, Logout(d, i)
  PROVE  AuthInv'
<1> DEFINE new == Revoked(tokens, i)
<1>1. /\ UNCHANGED <<serial, code, sentToday, sent, used, authTx>> /\ tokens' = new
      /\ ended' = IF tokens[i].live THEN ended \cup {tokens[i].family} ELSE ended
  BY DEF Logout
<1>2. serial => \A e \in Clients : authTx[e] = NoAuthTx
  BY DEF Logout, MayBegin, AuthInv, AuthTyped
<1>3. AuthTyped /\ tokens \in Seq(Token) BY DEF AuthInv, AuthTyped
<1>4. /\ new \in Seq(Token) /\ DOMAIN new = DOMAIN tokens
      /\ \A j \in DOMAIN tokens : new[j].family = tokens[j].family
      /\ \A j \in DOMAIN tokens : new[j].live <=> (tokens[j].live /\ j # i)
  BY <1>3, RevokedIs
<1> HIDE DEF new
<1>5. ended' \subseteq DOMAIN tokens BY <1>1, <1>3 DEF AuthTyped
<1>6. ASSUME serial, NEW j \in DOMAIN tokens, new[j].live
      PROVE  tokens[j].family \notin ended'
  <2>1. tokens[j].live /\ j # i BY <1>4, <1>6
  <2>2. TokensOnce BY <1>6 DEF AuthInv, SerialInv
  <2>3. tokens[j].family \notin ended BY <2>1, <2>2 DEF TokensOnce
  <2>4. tokens[i].live => tokens[j].family # tokens[i].family
    BY <2>1, <2>2 DEF TokensOnce
  <2> QED BY <1>1, <2>3, <2>4
<1> QED BY <1>1, <1>2, <1>4, <1>5, <1>6, RevokeKeeps

\* admin_force_logout: every login is over.
LEMMA ForceKeeps ==
  ASSUME AuthInv, ForceLogout
  PROVE  AuthInv'
<1>1. /\ UNCHANGED <<serial, code, sentToday, sent, used, authTx>>
      /\ tokens' = [i \in DOMAIN tokens |-> [tokens[i] EXCEPT !.live = FALSE]]
      /\ ended' = ended \cup {tokens[i].family : i \in DOMAIN tokens}
  BY DEF ForceLogout
<1>2. serial => \A e \in Clients : authTx[e] = NoAuthTx
  BY DEF ForceLogout, MayBegin, AuthInv, AuthTyped
<1>3. AuthTyped /\ tokens \in Seq(Token) BY DEF AuthInv, AuthTyped
<1>4. \A i \in DOMAIN tokens : /\ tokens[i] \in Token
                               /\ [tokens[i] EXCEPT !.live = FALSE] \in Token
  <2>1. \A i \in DOMAIN tokens : tokens[i] \in Token BY <1>3
  <2> QED BY <2>1 DEF Token
<1>5. DOMAIN tokens = 1..Len(tokens) /\ Len(tokens) \in Nat BY <1>3
<1>6. \A i \in DOMAIN tokens : tokens'[i].family = tokens[i].family /\ ~tokens'[i].live
  BY <1>1, <1>4 DEF Token
<1>7. tokens' \in Seq(Token) /\ DOMAIN tokens' = DOMAIN tokens BY <1>1, <1>4, <1>5
<1>8. ended' \subseteq DOMAIN tokens BY <1>1, <1>3 DEF AuthTyped
<1> QED BY <1>1, <1>2, <1>6, <1>7, <1>8, RevokeKeeps

LEMMA AuthInitially ==
  ASSUME RequestsInit, SessionsInit
  PROVE  AuthInv
<1>1. /\ code = 0 /\ sentToday = 0 /\ sent = 0 /\ used = <<>> /\ tokens = <<>> /\ ended = {}
      /\ authTx = [d \in Clients |-> NoAuthTx]
  BY DEF SessionsInit, Clients
<1>2. AuthTyped BY <1>1, NoneIsTyped DEF AuthTyped
<1>3. \A d \in Clients : authTx[d] = NoAuthTx BY <1>1
<1>4. CodesOnce /\ TokensOnce BY <1>1 DEF CodesOnce, TokensOnce
<1> QED BY <1>1, <1>2, <1>3, <1>4 DEF AuthInv, SerialInv

LEMMA AuthInductive ==
  ASSUME AuthInv, [SessionsNext]_<<serial, blocks, authVars>>
  PROVE  AuthInv'
<1>1. ASSUME UNCHANGED <<serial, sentToday, sent, used, tokens, ended, authTx>>,
             code' \in {code, 0}
      PROVE  AuthInv'
  <2>1. AuthTyped' BY <1>1 DEF AuthInv, AuthTyped
  <2>2. ASSUME serial' PROVE SerialInv'
    BY <1>1, <2>2 DEF AuthInv, SerialInv, CodesOnce, TokensOnce, Unused, Rests
  <2> QED BY <2>1, <2>2 DEF AuthInv
<1>2. CASE UNCHANGED <<serial, blocks, authVars>> BY <1>1, <1>2 DEF authVars
<1>3. CASE CodeExpires BY <1>1, <1>3 DEF CodeExpires
<1>4. CASE IntervalEnds BY <1>1, <1>4 DEF IntervalEnds
<1>5. CASE ForceLogout BY <1>5, ForceKeeps
<1>6. ASSUME NEW d \in Devices, BeginSms(d) PROVE AuthInv'
  BY <1>6, OpenKeeps DEF BeginSms, Clients
<1>7. ASSUME NEW d \in Devices, BeginLogin(d) PROVE AuthInv'
  <2>1. code \in Nat BY DEF AuthInv, AuthTyped
  <2> QED BY <1>7, <2>1, OpenKeeps DEF BeginLogin, Clients
<1>8. ASSUME NEW d \in Devices, NEW i \in DOMAIN tokens, BeginRefresh(d, i) PROVE AuthInv'
  <2>1. i \in Nat BY DEF AuthInv, AuthTyped
  <2> QED BY <1>8, <2>1, OpenKeeps DEF BeginRefresh, Clients
<1>9. ASSUME NEW d \in Devices,
             CommitSms(d) \/ CommitLogin(d) \/ LoginFails(d) \/ CommitRefresh(d)
      PROVE  AuthInv'
  BY <1>9, SmsKeeps, LoginKeeps, FailKeeps, RefreshKeeps DEF Clients
<1>10. ASSUME NEW d \in Devices, NEW i \in DOMAIN tokens, Logout(d, i) PROVE AuthInv'
  BY <1>10, LogoutKeeps
<1> QED BY <1>2, <1>3, <1>4, <1>5, <1>6, <1>7, <1>8, <1>9, <1>10 DEF SessionsNext

LEMMA OnceIsOne == AuthInv => OneTokenPerLogin
<1> SUFFICES ASSUME AuthInv, serial PROVE OneTokenPerLogin BY DEF OneTokenPerLogin
<1>1. CodesOnce /\ TokensOnce /\ sentToday <= DailyLimit BY DEF AuthInv, SerialInv
<1>2. ASSUME NEW f \in {tokens[i].family : i \in DOMAIN tokens}
      PROVE  Cardinality(LiveOf(f)) <= IF f \in ended THEN 0 ELSE 1
  <2>1. CASE LiveOf(f) = {} BY <2>1, FS_EmptySet
  <2>2. CASE LiveOf(f) # {}
    <3>1. PICK i \in LiveOf(f) : TRUE BY <2>2
    <3>2. LiveOf(f) = {i} /\ f \notin ended BY <1>1, <3>1 DEF LiveOf, TokensOnce
    <3>3. Cardinality({i}) = 1 BY FS_Singleton
    <3>4. (IF f \in ended THEN 0 ELSE 1) = 1 BY <3>2
    <3> QED BY <3>2, <3>3, <3>4
  <2> QED BY <2>1, <2>2
<1> QED BY <1>1, <1>2 DEF OneTokenPerLogin, CodesOnce

\* Where requests do not overlap, a login has one good refresh token at most and
\* none once it is over, a code logs in once, and the day's limit holds (login,
\* refresh, logout, admin_force_logout).
THEOREM TokensRotate == SessionsSpec => []OneTokenPerLogin
BY AuthInitially, AuthInductive, OnceIsOne, PTL DEF SessionsSpec

HIDE SessionsAssumption
-----------------------------------------------------------------------------
(***************************************************************************)
(* Somebody can always manage the admin accounts, for any set of accounts. *)
(* The promise is not inductive: it also takes that, where requests do not *)
(* overlap, the one open request belongs to a superadmin, still sees the   *)
(* row it read, and was allowed to do what it will do; and that an update  *)
(* is always of a row that exists.                                         *)
(***************************************************************************)

\* What an open request rests on.
StaffGrounded(a) ==
  LET t == staffTx[a] IN
  /\ Manages(a) /\ staff[t.on] = t.read
  /\ t.op = "update" => (t.on = a => ~Demotes(t.to))

\* An update has a row to change and a row to make of it.
HasStaffRow(a) == staffTx[a].op = "update" =>
               staff[staffTx[a].on] \in StaffRow /\ staffTx[a].to \in StaffRow

StaffInv ==
  /\ StaffTypeOK
  /\ \A a \in Staff : HasStaffRow(a)
  /\ serial =>
       /\ \A a, b \in Staff : staffTx[a] # NoStaffTx /\ staffTx[b] # NoStaffTx => a = b
       /\ \A a \in Staff : staffTx[a] # NoStaffTx => StaffGrounded(a)
       /\ \E a \in Staff : Manages(a)

\* A begun request: nobody else has one open, and it is grounded.
LEMMA StaffBegins ==
  ASSUME StaffInv, NEW a \in Staff, NEW n \in Staff, NEW op \in {"create", "update"},
         NEW to \in StaffRow, BeginStaff(a, op, n, to),
         op = "update" => MayUpdate(a, n, to) /\ staff[n] # NoStaff
  PROVE  StaffInv'
<1> DEFINE t == [op |-> op, on |-> n, read |-> staff[n], to |-> to]
<1>1. /\ Manages(a) /\ staff' = staff /\ serial' = serial
      /\ staffTx' = [staffTx EXCEPT ![a] = t]
      /\ serial => \A b \in Staff : staffTx[b] = NoStaffTx
  <2>1. DOMAIN staffTx = Staff BY DEF StaffInv, StaffTypeOK
  <2> QED BY <2>1 DEF BeginStaff, MayBegin
<1>2. StaffTypeOK' BY <1>1 DEF StaffInv, StaffTypeOK
<1>3. \A b \in Staff : staffTx'[b] = IF b = a THEN t ELSE staffTx[b]
  BY <1>1 DEF StaffInv, StaffTypeOK
<1>4. ASSUME serial'
      PROVE  /\ \A b, c \in Staff : staffTx'[b] # NoStaffTx /\ staffTx'[c] # NoStaffTx => b = c
             /\ \A b \in Staff : staffTx'[b] # NoStaffTx => StaffGrounded(b)'
             /\ \E b \in Staff : Manages(b)'
  <2>1. \A b \in Staff : staffTx'[b] # NoStaffTx => b = a BY <1>1, <1>3, <1>4
  <2>2. Manages(a)' BY <1>1 DEF Manages
  <2>3. StaffGrounded(a)'
    <3>1. staffTx'[a] = t BY <1>3
    <3>2. staff'[n] = staff[n] BY <1>1
    <3>3. t.op = "update" => (t.on = a => ~Demotes(t.to)) BY DEF MayUpdate
    <3> QED BY <2>2, <3>1, <3>2, <3>3 DEF StaffGrounded
  <2> QED BY <2>1, <2>2, <2>3
<1>5. \A b \in Staff : HasStaffRow(b)' BY <1>1, <1>3 DEF StaffInv, StaffTypeOK, HasStaffRow
<1> QED BY <1>2, <1>4, <1>5 DEF StaffInv

\* The end of a request: none is open any more where they do not overlap.
LEMMA StaffEnds ==
  ASSUME StaffInv, NEW a \in Staff, staffTx[a] # NoStaffTx, EndStaff(a), serial' = serial,
         staff' \in [Staff -> StaffRow \cup {NoStaff}],
         \A n \in Staff : staff[n] \in StaffRow => staff'[n] \in StaffRow,
         serial => \E b \in Staff : Manages(b)'
  PROVE  StaffInv'
<1>1. staffTx' = [staffTx EXCEPT ![a] = NoStaffTx] BY DEF EndStaff
<1>2. StaffTypeOK'
  <2>1. NoStaffTx \in [op : {"idle", "create", "update"}, on : Staff,
                       read : StaffRow \cup {NoStaff}, to : StaffRow \cup {NoStaff}]
    BY StaffAssumption DEF NoStaffTx
  <2> QED BY <1>1, <2>1 DEF StaffInv, StaffTypeOK
<1>3. ASSUME serial' PROVE \A b \in Staff : staffTx'[b] = NoStaffTx
  BY <1>1, <1>3 DEF StaffInv, StaffTypeOK
<1>4. \A b \in Staff : HasStaffRow(b)'
  <2>1. \A b \in Staff : staffTx'[b] = IF b = a THEN NoStaffTx ELSE staffTx[b]
    BY <1>1 DEF StaffInv, StaffTypeOK
  <2>2. NoStaffTx.op # "update" BY DEF NoStaffTx
  <2> QED BY <2>1, <2>2 DEF StaffInv, StaffTypeOK, HasStaffRow
<1> QED BY <1>2, <1>3, <1>4 DEF StaffInv

\* A creation writes a row that was not there, hence not its author's.
LEMMA AdminCreated ==
  ASSUME StaffInv, NEW a \in Staff, CommitCreateAdmin(a)
  PROVE  StaffInv'
<1> DEFINE t == staffTx[a]
<1>1. /\ t.op = "create" /\ staff[t.on] = NoStaff /\ t.on \in Staff /\ EndStaff(a)
      /\ staff' = [staff EXCEPT ![t.on] = t.to] /\ serial' = serial
      /\ t.to \in StaffRow \cup {NoStaff}
  BY DEF CommitCreateAdmin, StaffInv, StaffTypeOK
<1>2. t # NoStaffTx BY <1>1 DEF NoStaffTx
<1>3. /\ staff' \in [Staff -> StaffRow \cup {NoStaff}]
      /\ \A n \in Staff : staff[n] \in StaffRow => staff'[n] \in StaffRow
  BY <1>1 DEF StaffInv, StaffTypeOK, StaffRow, NoStaff
<1>4. ASSUME serial PROVE Manages(a)'
  <2>1. Manages(a) BY <1>2, <1>4 DEF StaffInv, StaffGrounded
  <2>2. t.on # a BY <1>1, <2>1 DEF Manages, NoStaff
  <2>3. staff'[a] = staff[a] BY <1>1, <2>2 DEF StaffInv, StaffTypeOK
  <2> QED BY <2>1, <2>3 DEF Manages
<1> QED BY <1>1, <1>2, <1>3, <1>4, StaffEnds

\* An update that nothing overtook writes what it was allowed to write.
LEMMA AdminUpdated ==
  ASSUME StaffInv, NEW a \in Staff, CommitUpdateAdmin(a)
  PROVE  StaffInv'
<1> DEFINE t == staffTx[a]
           new == [role |-> WrittenBack(staff[t.on].role, t.read.role, t.to.role),
                   active |-> WrittenBack(staff[t.on].active, t.read.active, t.to.active)]
<1>1. /\ t.op = "update" /\ t.on \in Staff /\ EndStaff(a) /\ serial' = serial
      /\ staff' = [staff EXCEPT ![t.on] = new]
  BY DEF CommitUpdateAdmin, StaffInv, StaffTypeOK
<1>2. t # NoStaffTx BY <1>1 DEF NoStaffTx
<1>3. /\ staff' \in [Staff -> StaffRow \cup {NoStaff}]
      /\ \A n \in Staff : staff[n] \in StaffRow => staff'[n] \in StaffRow
  <2>1. staff[t.on] \in StaffRow /\ t.to \in StaffRow BY <1>1 DEF StaffInv, HasStaffRow
  <2>2. new \in StaffRow BY <2>1 DEF StaffRow, WrittenBack
  <2> QED BY <1>1, <2>2 DEF StaffInv, StaffTypeOK
<1>4. ASSUME serial PROVE Manages(a)'
  <2>1. StaffGrounded(a) BY <1>2, <1>4 DEF StaffInv
  <2>2. CASE t.on # a
    <3>1. staff'[a] = staff[a] BY <1>1, <2>2 DEF StaffInv, StaffTypeOK
    <3> QED BY <2>1, <3>1 DEF StaffGrounded, Manages
  <2>3. CASE t.on = a
    <3>1. t.to = [role |-> "superadmin", active |-> TRUE]
      BY <1>1, <2>1, <2>3 DEF StaffGrounded, Demotes, StaffRow, StaffInv, HasStaffRow
    <3>2. staff[a] = [role |-> "superadmin", active |-> TRUE] /\ t.read = staff[a]
      BY <2>1, <2>3 DEF StaffGrounded, Manages
    <3>3. new = [role |-> "superadmin", active |-> TRUE]
      BY <2>3, <3>1, <3>2 DEF WrittenBack
    <3>4. staff'[a] = new BY <1>1, <2>3 DEF StaffInv, StaffTypeOK
    <3> QED BY <3>3, <3>4 DEF Manages
  <2> QED BY <2>2, <2>3
<1> QED BY <1>1, <1>2, <1>3, <1>4, StaffEnds

LEMMA StaffInductive ==
  ASSUME StaffInv, [StaffNext]_<<serial, blocks, staffVars>>
  PROVE  StaffInv'
<1>1. CASE UNCHANGED <<serial, blocks, staffVars>>
  BY <1>1 DEF staffVars, StaffInv, StaffTypeOK, StaffGrounded, HasStaffRow, Manages
<1>2. ASSUME NEW a \in Staff, NEW n \in Staff, BeginCreateAdmin(a, n) PROVE StaffInv'
  BY <1>2, StaffBegins DEF BeginCreateAdmin, StaffRow
<1>3. ASSUME NEW a \in Staff, NEW n \in Staff, BeginUpdateAdmin(a, n) PROVE StaffInv'
  BY <1>3, StaffBegins DEF BeginUpdateAdmin
<1>4. ASSUME NEW a \in Staff, AbortStaff(a) PROVE StaffInv'
  <2>1. staffTx[a] # NoStaffTx /\ EndStaff(a) /\ serial' = serial /\ staff' = staff
    BY <1>4 DEF AbortStaff
  <2>2. staff' \in [Staff -> StaffRow \cup {NoStaff}] BY <2>1 DEF StaffInv, StaffTypeOK
  <2>3. serial => \E b \in Staff : Manages(b)' BY <2>1 DEF StaffInv, Manages
  <2>4. \A n \in Staff : staff[n] \in StaffRow => staff'[n] \in StaffRow BY <2>1
  <2> QED BY <2>1, <2>2, <2>3, <2>4, StaffEnds
<1> QED BY <1>1, <1>2, <1>3, <1>4, AdminCreated, AdminUpdated DEF StaffNext

LEMMA StaffInitially ==
  ASSUME RequestsInit, StaffInit
  PROVE  StaffInv
<1>1. StaffTypeOK
  BY StaffAssumption DEF StaffInit, StaffTypeOK, NoStaffTx, StaffRow
<1>2. Manages(FirstAdmin) BY StaffAssumption DEF StaffInit, Manages
<1>3. \A a \in Staff : HasStaffRow(a) BY DEF StaffInit, HasStaffRow, NoStaffTx
<1> QED BY <1>1, <1>2, <1>3, StaffAssumption DEF StaffInit, StaffInv

\* The rows and the requests of the back office have their types.
THEOREM StaffTypes == StaffSpec => []StaffTypeOK
<1>1. StaffInv => StaffTypeOK BY DEF StaffInv
<1> QED BY <1>1, StaffInitially, StaffInductive, PTL DEF StaffSpec

\* update_admin leaves somebody who manages the accounts, whatever the accounts
\* are, as long as requests do not overlap.
THEOREM StaffManaged == StaffSpec => []SomebodyManages
<1>1. StaffInv => SomebodyManages BY DEF StaffInv, SomebodyManages
<1> QED BY <1>1, StaffInitially, StaffInductive, PTL DEF StaffSpec

-----------------------------------------------------------------------------
(***************************************************************************)
(* Companions.  Whoever resumes work read a profile that was approved when *)
(* it was read, and approval is for good; where requests do not overlap,   *)
(* the one open request still sees the profile it read.                    *)
(***************************************************************************)
USE CompanionsAssumption

ProRow == [status : {"absent", "pending", "active", "paused", "rejected"},
           refused : BOOLEAN, guild : GuildIds \cup {"none"}]
Reviewing == Reviewers \cup {"self"}
HelperRequest ==
  [op : {"idle", "apply", "pause", "review", "assign", "unassign"},
   to : {"none", "pending", "active", "paused", "rejected"} \cup GuildIds, row : ProRow]

\* What a request may decide.
HelperDue(t) ==
  /\ t.op = "apply" => t.to = "pending"
  /\ t.op = "pause" => t.to \in {"active", "paused"}
  /\ t.op = "review" => t.to \in {"active", "rejected"}
  /\ t.op \in {"assign", "unassign"} => t.to \in GuildIds
  /\ Choosable(t.row.status) => approved

CompanionInv ==
  /\ pro \in ProRow
  /\ ruling \in {"none", "applied", "approved", "rejected"} /\ approved \in BOOLEAN
  /\ helperTx \in [Reviewing -> HelperRequest]
  /\ \A a \in Reviewing : HelperDue(helperTx[a])
  /\ CompanionIsApproved
  /\ serial => \A a \in Reviewing : helperTx[a] # NoHelperTx =>
                 /\ helperTx[a].row = pro
                 /\ \A b \in Reviewing \ {a} : helperTx[b] = NoHelperTx

LEMMA NoHelperRequest == NoHelperTx \in HelperRequest /\ HelperDue(NoHelperTx) /\ NoProfile \in ProRow
BY DEF NoHelperTx, NoProfile, HelperRequest, ProRow, HelperDue, Choosable

LEMMA HelperBegins ==
  ASSUME CompanionInv, NEW a \in Reviewing,
         NEW op \in {"apply", "pause", "review", "assign", "unassign"},
         NEW to \in {"pending", "active", "paused", "rejected"} \cup GuildIds,
         BeginHelper(a, op, to),
         op = "apply" => to = "pending",
         op = "pause" => to \in {"active", "paused"},
         op = "review" => to \in {"active", "rejected"},
         op \in {"assign", "unassign"} => to \in GuildIds
  PROVE  CompanionInv'
<1> DEFINE t == [op |-> op, to |-> to, row |-> pro]
<1>1. /\ helperTx' = [helperTx EXCEPT ![a] = t]
      /\ UNCHANGED <<serial, blocks, pro, ruling, approved>>
      /\ serial => \A b \in Reviewing : helperTx[b] = NoHelperTx
  <2>1. DOMAIN helperTx = Reviewing BY DEF CompanionInv
  <2> QED BY <2>1 DEF BeginHelper, MayBegin
<1>2. t \in HelperRequest /\ t.row = pro BY DEF CompanionInv, HelperRequest
<1>3. HelperDue(t) BY DEF CompanionInv, HelperDue, CompanionIsApproved
<1> HIDE DEF t
<1>4. /\ helperTx' \in [Reviewing -> HelperRequest]
      /\ \A b \in Reviewing : helperTx'[b] = IF b = a THEN t ELSE helperTx[b]
  BY <1>1, <1>2 DEF CompanionInv
<1>5. \A b \in Reviewing : HelperDue(helperTx[b])' BY <1>1, <1>3, <1>4 DEF CompanionInv, HelperDue
<1>6. CompanionIsApproved' BY <1>1 DEF CompanionInv, CompanionIsApproved
<1> QED BY <1>1, <1>2, <1>4, <1>5, <1>6 DEF CompanionInv

LEMMA HelperEnds ==
  ASSUME CompanionInv, NEW a \in Reviewing, helperTx[a] # NoHelperTx, EndHelper(a),
         serial' = serial, pro' \in ProRow,
         ruling' \in {"none", "applied", "approved", "rejected"},
         approved' \in BOOLEAN, approved => approved', CompanionIsApproved'
  PROVE  CompanionInv'
<1>1. /\ helperTx' \in [Reviewing -> HelperRequest]
      /\ \A b \in Reviewing : helperTx'[b] = IF b = a THEN NoHelperTx ELSE helperTx[b]
  BY NoHelperRequest DEF EndHelper, CompanionInv
<1>2. \A b \in Reviewing : HelperDue(helperTx[b])'
  <2>1. ~Choosable(NoHelperTx.row.status) /\ NoHelperTx.op = "idle"
    BY DEF NoHelperTx, NoProfile, Choosable
  <2> QED BY <1>1, <2>1 DEF CompanionInv, HelperDue
<1>3. serial => \A b \in Reviewing : helperTx'[b] = NoHelperTx BY <1>1 DEF CompanionInv
<1> QED BY <1>1, <1>2, <1>3 DEF CompanionInv

LEMMA StatusOfKeeps ==
  ASSUME CompanionInv, NEW a \in Reviewing, CommitStatusOf(a)
  PROVE  CompanionInv'
<1> DEFINE t == helperTx[a]
           refused == IF t.op = "pause" THEN t.row.refused ELSE t.to = "rejected"
           row == [t.row EXCEPT !.status = t.to, !.refused = refused]
<1>1. /\ t.op \in {"apply", "pause", "review"}
      /\ t.op = "pause" => Choosable(t.row.status)
      /\ t \in HelperRequest /\ HelperDue(t)
  BY DEF CommitStatusOf, CompanionInv
<1>2. /\ WriteHelper(a, row) /\ EndHelper(a) /\ UNCHANGED <<serial, blocks>>
      /\ ruling' = CASE t.op = "apply" -> "applied" [] t.op = "pause" -> ruling
                      [] t.to = "active" -> "approved" [] OTHER -> "rejected"
      /\ approved' = (approved \/ (t.op = "review" /\ t.to = "active"))
  BY DEF CommitStatusOf
<1> HIDE DEF t
<1>3. t # NoHelperTx BY <1>1 DEF NoHelperTx
<1>4. /\ t.row \in ProRow /\ row \in ProRow /\ row.status = t.to
      /\ t.op = "pause" => row.refused = t.row.refused
      /\ t.op # "pause" => (row.refused <=> t.to = "rejected")
  <2>1. refused \in BOOLEAN BY <1>1 DEF HelperRequest, ProRow
  <2>2. /\ t.op = "pause" => refused = t.row.refused
        /\ t.op # "pause" => (refused <=> t.to = "rejected")
    OBVIOUS
  <2>3. t.row \in ProRow BY <1>1 DEF HelperRequest
  <2>4. t.to \in {"pending", "active", "paused", "rejected"} BY <1>1 DEF HelperDue
  <2> HIDE DEF refused
  <2>5. row \in ProRow /\ row.status = t.to /\ row.refused = refused BY <2>1, <2>3, <2>4 DEF ProRow
  <2> QED BY <2>2, <2>3, <2>5, Zenon
<1>5. approved' \in BOOLEAN /\ (approved' <=> approved \/ (t.op = "review" /\ t.to = "active"))
  BY <1>2, Zenon DEF CompanionInv
<1>6. ruling' \in {"none", "applied", "approved", "rejected"} BY <1>1, <1>2 DEF CompanionInv
<1> HIDE DEF row, refused
<1>7. /\ pro' \in ProRow
      /\ pro'.status = WrittenBack(pro.status, t.row.status, row.status)
      /\ pro'.refused = WrittenBack(pro.refused, t.row.refused, row.refused)
  BY <1>2, <1>4 DEF WriteHelper, WrittenBack, ProRow, CompanionInv, t
<1>8. CompanionIsApproved'
  <2>1. Choosable(pro'.status) => approved'
    BY <1>1, <1>4, <1>5, <1>7 DEF CompanionInv, CompanionIsApproved, HelperDue, WrittenBack, Choosable
  <2>2. ASSUME serial
        PROVE  /\ Choosable(pro'.status) => ruling' = "approved"
               /\ (pro'.status = "rejected") <=> (ruling' = "rejected")
               /\ pro'.refused <=> (pro'.status = "rejected")
    <3>1. t.row = pro BY <1>3, <2>2 DEF CompanionInv, t
    <3>2. pro'.status = t.to /\ pro'.refused = row.refused
      BY <1>4, <1>7, <3>1 DEF WrittenBack
    <3>3. CASE t.op = "pause"
      <4>1. ruling = "approved" /\ ~pro.refused
        BY <1>1, <2>2, <3>1, <3>3 DEF CompanionInv, CompanionIsApproved, Choosable
      <4>2. ruling' = "approved" /\ ~pro'.refused /\ t.to \in {"active", "paused"}
        BY <1>1, <1>2, <1>4, <3>1, <3>2, <3>3, <4>1 DEF HelperDue
      <4> QED BY <3>2, <4>2
    <3>4. CASE t.op = "apply" BY <1>1, <1>2, <1>4, <3>2, <3>4 DEF HelperDue, Choosable
    <3>5. CASE t.op = "review" BY <1>1, <1>2, <1>4, <3>2, <3>5 DEF HelperDue, Choosable
    <3> QED BY <1>1, <3>3, <3>4, <3>5
  <2> QED BY <1>2, <2>1, <2>2 DEF CompanionIsApproved
<1> QED BY <1>2, <1>3, <1>5, <1>6, <1>7, <1>8, HelperEnds DEF t

LEMMA AssignKeeps ==
  ASSUME CompanionInv, NEW a \in Reviewing, CommitAssign(a)
  PROVE  CompanionInv'
<1> DEFINE t == helperTx[a]
           g == CASE t.op = "assign" -> t.to [] t.row.guild = t.to -> "none" [] OTHER -> t.row.guild
           row == [t.row EXCEPT !.guild = g]
<1>1. /\ t.op \in {"assign", "unassign"} /\ t \in HelperRequest /\ HelperDue(t)
      /\ EndHelper(a) /\ UNCHANGED <<serial, blocks, ruling, approved>> /\ WriteHelper(a, row)
  BY DEF CommitAssign, CompanionInv
<1>2. t.row \in ProRow /\ t.to \in GuildIds BY <1>1 DEF HelperRequest, HelperDue
<1>3. t # NoHelperTx BY <1>1 DEF NoHelperTx
<1>4. g \in GuildIds \cup {"none"} BY <1>2 DEF ProRow
<1> HIDE DEF g
<1>5. row \in ProRow /\ row.status = t.row.status /\ row.refused = t.row.refused
  BY <1>2, <1>4 DEF ProRow
<1> HIDE DEF row
<1>6. /\ pro' \in ProRow /\ pro'.status = pro.status /\ pro'.refused = pro.refused
  BY <1>1, <1>5 DEF WriteHelper, WrittenBack, ProRow, CompanionInv
<1>7. CompanionIsApproved' BY <1>1, <1>6 DEF CompanionInv, CompanionIsApproved, Choosable
<1> QED BY <1>1, <1>3, <1>6, <1>7, HelperEnds DEF CompanionInv

LEMMA CompanionInductive ==
  ASSUME CompanionInv, [CompanionsNext]_<<serial, blocks, companionVars>>
  PROVE  CompanionInv'
<1>0. "self" \in Reviewing /\ Reviewers \subseteq Reviewing BY DEF Reviewing
<1>1. CASE BeginApply BY <1>0, <1>1, HelperBegins DEF BeginApply
<1>2. CASE BeginPause
  <2>1. PICK to \in {"active", "paused"} : BeginHelper("self", "pause", to)
    BY <1>2 DEF BeginPause
  <2> QED BY <1>0, <2>1, HelperBegins
<1>3. ASSUME NEW a \in Reviewers, BeginReviewOf(a) PROVE CompanionInv'
  <2>1. PICK to \in {"active", "rejected"} : BeginHelper(a, "review", to)
    BY <1>3 DEF BeginReviewOf
  <2> QED BY <1>0, <2>1, HelperBegins
<1>4. ASSUME NEW a \in Reviewers, NEW g \in GuildIds, BeginAssign(a, g) PROVE CompanionInv'
  <2>1. PICK op \in {"assign", "unassign"} : BeginHelper(a, op, g)
    BY <1>4 DEF BeginAssign
  <2> QED BY <1>0, <2>1, HelperBegins
<1>5. ASSUME NEW a \in Reviewing, AbortHelper(a) PROVE CompanionInv'
  <2>1. /\ helperTx[a] # NoHelperTx /\ EndHelper(a)
        /\ UNCHANGED <<serial, blocks, pro, ruling, approved>>
    BY <1>5 DEF AbortHelper
  <2>2. CompanionIsApproved' BY <2>1 DEF CompanionInv, CompanionIsApproved
  <2> QED BY <2>1, <2>2, HelperEnds DEF CompanionInv
<1>6. CASE UNCHANGED <<serial, blocks, companionVars>>
  BY <1>6 DEF companionVars, CompanionInv, HelperDue, CompanionIsApproved
<1> QED
  BY <1>0, <1>1, <1>2, <1>3, <1>4, <1>5, <1>6, StatusOfKeeps, AssignKeeps
     DEF CompanionsNext, Reviewing

LEMMA CompanionInitially ==
  ASSUME CompanionsInit
  PROVE  CompanionInv
<1>1. CompanionIsApproved
  BY DEF CompanionsInit, CompanionIsApproved, NoProfile, Choosable
<1> QED BY <1>1, NoHelperRequest DEF CompanionsInit, CompanionInv, Reviewing

LEMMA CompanionTypes == ASSUME CompanionInv PROVE CompanionsTypeOK /\ CompanionIsApproved
BY DEF CompanionInv, CompanionsTypeOK, ProRow

-----------------------------------------------------------------------------
(***************************************************************************)
(* The trust score.  What an event does to the score is bounded by what it *)
(* is worth, for every score; events are as many as the samples where      *)
(* requests do not overlap, since the one open request read the score that *)
(* is there.                                                               *)
(***************************************************************************)
LEMMA PointsAre == ASSUME NEW v PROVE v \in Points <=> v \in Int /\ v >= 0 /\ v <= 10000
<1> DEFINE Upto(x) == 0..x
<1>1. PICK h \in Nat : h = 10000 OBVIOUS
<1>2. Points = 0..h
  <2>1. Points = Upto(10000) BY DEF Points
  <2>2. Upto(h) = 0..h OBVIOUS
  <2> HIDE DEF Upto
  <2>3. Upto(10000) = Upto(h) BY <1>1
  <2> QED BY <2>1, <2>2, <2>3
<1>3. v \in 0..h <=> v \in Int /\ v >= 0 /\ v <= h OBVIOUS
<1> QED BY <1>1, <1>2, <1>3

LEMMA Clamped ==
  ASSUME NEW v \in Int
  PROVE  /\ Clamp(v) \in Int
         /\ v < 0 => Clamp(v) = 0
         /\ v > 10000 => Clamp(v) = 10000
         /\ v >= 0 /\ v <= 10000 => Clamp(v) = v
BY DEF Clamp

\* _apply_ema: the score stays in its range, and 15% of an event's worth, to the
\* nearest hundredth, is all that it moves the score by.
LEMMA EmaMoves ==
  ASSUME NEW p \in Points, NEW w \in Int
  PROVE  /\ Ema(p, w) \in Int /\ Stored(Ema(p, w)) \in Points
         /\ w >= 0 => Stored(Ema(p, w)) - p \in 0..Stored(15 * w)
         /\ w < 0 => Stored(Ema(p, w)) - p \in Stored(15 * w)..0
<1>0. p \in Int /\ p >= 0 /\ p <= 10000 BY PointsAre
<1>1. PICK v \in Int : v = p + w BY <1>0
<1>2. PICK o \in Int : o = Clamp(v) BY Clamped
<1>3. /\ v < 0 => o = 0
      /\ v > 10000 => o = 10000
      /\ v >= 0 /\ v <= 10000 => o = v
  BY <1>2, Clamped
<1>4. /\ o >= 0 /\ o <= 10000
      /\ w >= 0 => o >= p /\ o <= p + w
      /\ w < 0 => o <= p /\ o >= p + w
  BY <1>0, <1>1, <1>3
<1>5. PICK e \in Int : e = 85 * p + 15 * o BY <1>0
<1>6. Ema(p, w) = e BY <1>1, <1>2, <1>5 DEF Ema
<1>7. PICK q \in Int : q = (e + 50) \div 100 BY <1>5
<1>8. PICK m \in Int : m = 15 * w OBVIOUS
<1>9. PICK r \in Int : r = (m + 50) \div 100 BY <1>8
<1>10. 100 * q <= e + 50 /\ e + 50 < 100 * q + 100 BY <1>5, <1>7
<1>11. 100 * r <= m + 50 /\ m + 50 < 100 * r + 100 BY <1>8, <1>9
<1>12. Stored(Ema(p, w)) = q /\ Stored(15 * w) = r BY <1>6, <1>7, <1>8, <1>9 DEF Stored
<1>13. q >= 0 /\ q <= 10000 BY <1>0, <1>4, <1>5, <1>10
<1>14. w >= 0 => q - p \in 0..r BY <1>0, <1>4, <1>5, <1>8, <1>10, <1>11
<1>15. w < 0 => q - p \in r..0 BY <1>0, <1>4, <1>5, <1>8, <1>10, <1>11
<1>16. q \in Points BY <1>13, PointsAre
<1> QED BY <1>6, <1>12, <1>14, <1>15, <1>16

\* The level of a score not yet rounded is that of the stored score, or of one half a
\* hundredth below it.
LEMMA LevelOfStored ==
  ASSUME NEW e \in Int, NEW n \in Nat
  PROVE  \E lost \in {0, 50} : LevelFor(e, n) = LevelFor(100 * Stored(e) - lost, n)
<1>1. PICK q \in Int : q = (e + 50) \div 100 OBVIOUS
<1>2. 100 * q <= e + 50 /\ e + 50 < 100 * q + 100 BY <1>1
<1>3. PICK lost \in {0, 50} : lost = IF e >= 100 * q THEN 0 ELSE 50 OBVIOUS
<1>4. PICK x \in Int : x = 100 * q - lost BY <1>3
<1>5. /\ e < 300000 <=> x < 300000
      /\ e < 500000 <=> x < 500000
      /\ e < 700000 <=> x < 700000
  BY <1>2, <1>3, <1>4
<1>6. LevelFor(e, n) = LevelFor(x, n) BY <1>5 DEF LevelFor
<1>7. x = 100 * Stored(e) - lost BY <1>1, <1>4 DEF Stored
<1> QED BY <1>3, <1>6, <1>7

ScoreRow == [points : Points, level : Levels, samples : Nat, unsure : BOOLEAN]
TrustRequest == [op : {"idle", "event", "verify"}, key : Keys \cup {"none"}, worth : Int,
                 row : ScoreRow \cup {<<>>}]

\* The row of the score says what its points and its samples are worth.
Levelled(row) == \E lost \in {0, 50} : row.level = LevelFor(100 * row.points - lost, row.samples)
Coherent(row) == Levelled(row) /\ row.unsure = (row.samples < 5)

EventsNumbered ==
  /\ IsFiniteSet(recorded)
  /\ Cardinality(recorded) <= MaxSamples
  /\ \A e \in recorded : e.n \in 1..Cardinality(recorded)

TrustInv ==
  /\ score \in ScoreRow
  /\ verified \in {"none", "pending", "approved", "rejected"}
  /\ badge \in BOOLEAN /\ passed \in BOOLEAN /\ (badge <=> passed)
  /\ EventsNumbered
  /\ \A e, f \in recorded : e.key = f.key /\ e.key # "none" => e = f
  /\ score.samples <= Cardinality(recorded)
  /\ serial => score.samples = Cardinality(recorded) /\ Coherent(score)
  /\ trustTx \in [Sources -> TrustRequest]
  /\ \A s \in Sources : trustTx[s] # NoTrustTx =>
       /\ trustTx[s].row \in ScoreRow /\ trustTx[s].row.samples <= Cardinality(recorded)
       /\ serial => /\ trustTx[s].row = score
                    /\ \A r \in Sources \ {s} : trustTx[r] = NoTrustTx

LEMMA NoTrustRequest == NoTrustTx \in TrustRequest
BY DEF NoTrustTx, TrustRequest

LEMMA LevelTyped == ASSUME NEW p, NEW n PROVE LevelFor(p, n) \in Levels
BY DEF LevelFor, Levels

LEMMA AppliedIs ==
  ASSUME NEW row \in ScoreRow, NEW w \in Int
  PROVE  /\ Applied(row, w) \in ScoreRow
         /\ Applied(row, w).points = Stored(Ema(row.points, w))
         /\ Applied(row, w).samples = row.samples + 1
         /\ Coherent(Applied(row, w))
<1> DEFINE e == Ema(row.points, w)
           p == Stored(e)
           n == row.samples + 1
           l == LevelFor(e, n)
           u == n < 5
<1>1. p \in Points /\ n \in Nat /\ l \in Levels /\ u \in BOOLEAN /\ e \in Int
  <2>1. row.points \in Points /\ row.samples \in Nat BY DEF ScoreRow
  <2>2. p \in Points /\ e \in Int BY <2>1, EmaMoves
  <2>3. l \in Levels BY LevelTyped
  <2>4. n \in Nat BY <2>1
  <2> QED BY <2>2, <2>3, <2>4
<1>2. Applied(row, w) = [points |-> p, level |-> l, samples |-> n, unsure |-> u] BY DEF Applied
<1>3. u = (n < 5) OBVIOUS
<1>4. \E lost \in {0, 50} : l = LevelFor(100 * p - lost, n)
  <2> HIDE DEF e
  <2> QED BY <1>1, LevelOfStored
<1> HIDE DEF p, n, l, u
<1>5. /\ Applied(row, w) \in ScoreRow /\ Applied(row, w).points = p
      /\ Applied(row, w).samples = n /\ Applied(row, w).level = l /\ Applied(row, w).unsure = u
  BY <1>1, <1>2 DEF ScoreRow
<1>6. Levelled(Applied(row, w)) BY <1>4, <1>5 DEF Levelled
<1>7. Coherent(Applied(row, w)) BY <1>3, <1>5, <1>6, Zenon DEF Coherent
<1> QED BY <1>5, <1>7 DEF p, n

LEMMA ScoreWritten ==
  ASSUME score \in ScoreRow, NEW row \in ScoreRow, NEW w \in Int, WriteScore(row, w)
  PROVE  LET new == Applied(row, w) IN
         /\ score' \in ScoreRow
         /\ score'.samples = WrittenBack(score.samples, row.samples, new.samples)
         /\ row = score => score' = new
<1> DEFINE far == Ema(row.points, w) # 100 * row.points
<1>0. PICK new \in ScoreRow : new = Applied(row, w) BY AppliedIs
<1>1. DOMAIN score = {"points", "level", "samples", "unsure"} BY DEF ScoreRow
<1>2. score' = [c \in {"points", "level", "samples", "unsure"} |->
                  IF c = "points" /\ far THEN new.points ELSE WrittenBack(score[c], row[c], new[c])]
  BY <1>0, <1>1 DEF WriteScore
<1> HIDE DEF far
<1> DEFINE points == IF far THEN new.points ELSE WrittenBack(score.points, row.points, new.points)
<1>3. score' = [points |-> points,
                level |-> WrittenBack(score.level, row.level, new.level),
                samples |-> WrittenBack(score.samples, row.samples, new.samples),
                unsure |-> WrittenBack(score.unsure, row.unsure, new.unsure)]
  BY <1>2
<1>4. points \in Points BY DEF ScoreRow, WrittenBack
<1>5. row = score => points = new.points BY DEF WrittenBack
<1> HIDE DEF points
<1>6. score' \in ScoreRow BY <1>3, <1>4 DEF ScoreRow, WrittenBack
<1>7. ASSUME row = score PROVE score' = new
  <2>1. /\ WrittenBack(score.level, row.level, new.level) = new.level
        /\ WrittenBack(score.samples, row.samples, new.samples) = new.samples
        /\ WrittenBack(score.unsure, row.unsure, new.unsure) = new.unsure
    BY <1>7 DEF WrittenBack
  <2> QED BY <1>3, <1>5, <1>7, <2>1 DEF ScoreRow
<1>8. score'.samples = WrittenBack(score.samples, row.samples, new.samples) BY <1>3
<1> QED BY <1>0, <1>6, <1>7, <1>8

\* One event more.
LEMMA OneEventMore ==
  ASSUME EventsNumbered, NEW key, NEW worth, Append1(key, worth),
         Cardinality(recorded) < MaxSamples
  PROVE  /\ EventsNumbered'
         /\ Cardinality(recorded') = Cardinality(recorded) + 1
         /\ Cardinality(recorded) \in Nat
<1> DEFINE n == Cardinality(recorded)
           e == [n |-> n + 1, key |-> key, worth |-> worth]
<1>1. n \in Nat BY FS_CardinalityType DEF EventsNumbered
<1>2. e \notin recorded
  <2>1. e.n = n + 1 OBVIOUS
  <2> QED BY <1>1, <2>1 DEF EventsNumbered
<1>3. recorded' = recorded \cup {e} BY DEF Append1
<1>4. IsFiniteSet(recorded') /\ Cardinality(recorded') = n + 1
  BY <1>2, <1>3, FS_AddElement DEF EventsNumbered
<1>5. \A f \in recorded' : f.n \in 1..Cardinality(recorded')
  <2>1. e.n = n + 1 OBVIOUS
  <2> HIDE DEF e
  <2> QED BY <1>1, <1>3, <1>4, <2>1 DEF EventsNumbered
<1>6. Cardinality(recorded') <= MaxSamples BY <1>1, <1>4, TrustAssumption
<1> QED BY <1>1, <1>4, <1>5, <1>6 DEF EventsNumbered

LEMMA TrustBegins ==
  ASSUME TrustInv, NEW s \in Sources, NEW op \in {"event", "verify"},
         NEW key \in Keys \cup {"none"}, NEW worth \in Int,
         MayBegin(trustTx, s, NoTrustTx),
         trustTx' = [trustTx EXCEPT ![s] =
                       [op |-> op, key |-> key, worth |-> worth, row |-> score]],
         UNCHANGED <<serial, blocks, score, recorded, verified, badge, passed>>
  PROVE  TrustInv'
<1> DEFINE t == [op |-> op, key |-> key, worth |-> worth, row |-> score]
<1>1. t \in TrustRequest /\ t.row = score BY DEF TrustInv, TrustRequest
<1>2. serial => \A r \in Sources : trustTx[r] = NoTrustTx
  <2>1. DOMAIN trustTx = Sources BY DEF TrustInv
  <2> QED BY <2>1 DEF MayBegin
<1> HIDE DEF t
<1>3. /\ trustTx' \in [Sources -> TrustRequest]
      /\ \A r \in Sources : trustTx'[r] = IF r = s THEN t ELSE trustTx[r]
  BY <1>1 DEF TrustInv, t
<1>4. EventsNumbered' BY DEF TrustInv, EventsNumbered
<1> QED BY <1>1, <1>2, <1>3, <1>4 DEF TrustInv, Coherent, Levelled

\* The end of a request, with one event more or none.
LEMMA TrustEnds ==
  ASSUME TrustInv, NEW s \in Sources, trustTx[s] # NoTrustTx,
         trustTx' = [trustTx EXCEPT ![s] = NoTrustTx], serial' = serial,
         score' \in ScoreRow,
         verified' \in {"none", "pending", "approved", "rejected"},
         badge' \in BOOLEAN, passed' \in BOOLEAN, badge' <=> passed',
         EventsNumbered',
         \A e, f \in recorded' : e.key = f.key /\ e.key # "none" => e = f,
         Cardinality(recorded) <= Cardinality(recorded'),
         score'.samples <= Cardinality(recorded'),
         serial => score'.samples = Cardinality(recorded') /\ Coherent(score')
  PROVE  TrustInv'
<1>1. /\ trustTx' \in [Sources -> TrustRequest]
      /\ \A r \in Sources : trustTx'[r] = IF r = s THEN NoTrustTx ELSE trustTx[r]
  BY NoTrustRequest DEF TrustInv
<1>2. serial => \A r \in Sources : trustTx'[r] = NoTrustTx BY <1>1 DEF TrustInv
<1>3. Cardinality(recorded) \in Nat /\ Cardinality(recorded') \in Nat
  BY FS_CardinalityType DEF TrustInv, EventsNumbered
<1>4. ASSUME NEW r \in Sources, trustTx'[r] # NoTrustTx
      PROVE  trustTx'[r].row \in ScoreRow /\ trustTx'[r].row.samples <= Cardinality(recorded')
  <2>1. trustTx'[r].row \in ScoreRow /\ trustTx'[r].row.samples <= Cardinality(recorded)
    BY <1>1, <1>4 DEF TrustInv
  <2>2. trustTx'[r].row.samples \in Nat BY <2>1 DEF ScoreRow
  <2> QED BY <1>3, <2>1, <2>2
<1> QED BY <1>1, <1>2, <1>4 DEF TrustInv, Coherent, Levelled

\* A request that recorded an event and wrote the score.
LEMMA EventRecorded ==
  ASSUME TrustInv, NEW s \in Sources, trustTx[s] # NoTrustTx,
         WriteScore(trustTx[s].row, trustTx[s].worth),
         NEW key, NEW worth, Append1(key, worth), Cardinality(recorded) < MaxSamples,
         key = "none" \/ \A e \in recorded : e.key # key, serial' = serial
  PROVE  /\ score' \in ScoreRow
         /\ EventsNumbered'
         /\ \A e, f \in recorded' : e.key = f.key /\ e.key # "none" => e = f
         /\ Cardinality(recorded) <= Cardinality(recorded')
         /\ score'.samples <= Cardinality(recorded')
         /\ serial => score'.samples = Cardinality(recorded') /\ Coherent(score')
<1>1. PICK row \in ScoreRow : row = trustTx[s].row BY DEF TrustInv
<1>2. PICK w \in Int : w = trustTx[s].worth BY DEF TrustInv, TrustRequest
<1>3. PICK new \in ScoreRow : /\ new = Applied(row, w) /\ new.samples = row.samples + 1
                              /\ Coherent(new)
  BY AppliedIs
<1>4. WriteScore(row, w) BY <1>1, <1>2
<1>5. /\ score' \in ScoreRow
      /\ score'.samples = WrittenBack(score.samples, row.samples, new.samples)
      /\ row = score => score' = new
  BY <1>3, <1>4, ScoreWritten DEF TrustInv
<1>6. /\ EventsNumbered' /\ Cardinality(recorded') = Cardinality(recorded) + 1
      /\ Cardinality(recorded) \in Nat
  BY OneEventMore DEF TrustInv
<1>7. \A e, f \in recorded' : e.key = f.key /\ e.key # "none" => e = f
  <2> DEFINE e == [n |-> Cardinality(recorded) + 1, key |-> key, worth |-> worth]
  <2>1. recorded' = recorded \cup {e} /\ e.key = key BY DEF Append1
  <2> HIDE DEF e
  <2> QED BY <2>1 DEF TrustInv
<1>8. score.samples \in Nat /\ row.samples \in Nat BY DEF TrustInv, ScoreRow
<1>9. row.samples <= Cardinality(recorded) /\ score.samples <= Cardinality(recorded)
  BY <1>1 DEF TrustInv
<1>10. score'.samples <= Cardinality(recorded')
  BY <1>3, <1>5, <1>6, <1>8, <1>9 DEF WrittenBack
<1>11. ASSUME serial PROVE score'.samples = Cardinality(recorded') /\ Coherent(score')
  <2>1. row = score /\ score.samples = Cardinality(recorded) BY <1>1, <1>11 DEF TrustInv
  <2>2. score' = new BY <1>5, <2>1
  <2> QED BY <1>3, <1>6, <2>1, <2>2 DEF Coherent
<1> QED BY <1>5, <1>6, <1>7, <1>10, <1>11

LEMMA TrustInductive ==
  ASSUME TrustInv, [TrustNext]_<<serial, blocks, trustVars>>
  PROVE  TrustInv'
<1>1. ASSUME NEW s \in Sources, NEW key \in Keys \cup {"none"}, NEW worth \in Worths,
             BeginEvent(s, key, worth)
      PROVE  TrustInv'
  <2>1. worth \in Int BY TrustAssumption
  <2> QED BY <1>1, <2>1, TrustBegins DEF BeginEvent
<1>2. ASSUME NEW s \in Sources, BeginVerification(s) PROVE TrustInv'
  <2>1. PICK worth \in Int : worth = 800 OBVIOUS
  <2>2. /\ MayBegin(trustTx, s, NoTrustTx)
        /\ trustTx' = [trustTx EXCEPT ![s] =
                         [op |-> "verify", key |-> "none", worth |-> worth, row |-> score]]
        /\ UNCHANGED <<serial, blocks, score, recorded, verified, badge, passed>>
    BY <1>2, <2>1 DEF BeginVerification
  <2>3. "none" \in Keys \cup {"none"} OBVIOUS
  <2> QED BY <2>2, <2>3, TrustBegins
<1>3. ASSUME NEW s \in Sources, CommitEvent(s) PROVE TrustInv'
  <2>1. trustTx[s] # NoTrustTx BY <1>3 DEF CommitEvent, NoTrustTx
  <2>2. PICK key, worth : key = trustTx[s].key /\ worth = trustTx[s].worth OBVIOUS
  <2>3. /\ WriteScore(trustTx[s].row, trustTx[s].worth)
        /\ Append1(key, worth) /\ Cardinality(recorded) < MaxSamples
        /\ key = "none" \/ \A e \in recorded : e.key # key
        /\ trustTx' = [trustTx EXCEPT ![s] = NoTrustTx]
        /\ UNCHANGED <<serial, blocks, verified, badge, passed>>
    BY <1>3, <2>2 DEF CommitEvent
  <2>4. /\ score' \in ScoreRow /\ EventsNumbered'
        /\ \A e, f \in recorded' : e.key = f.key /\ e.key # "none" => e = f
        /\ Cardinality(recorded) <= Cardinality(recorded')
        /\ score'.samples <= Cardinality(recorded')
        /\ serial => score'.samples = Cardinality(recorded') /\ Coherent(score')
    BY <2>1, <2>3, EventRecorded
  <2> QED BY <2>1, <2>3, <2>4, TrustEnds DEF TrustInv
<1>4. ASSUME NEW s \in Sources, NEW approve \in BOOLEAN, CommitVerification(s, approve)
      PROVE  TrustInv'
  <2>1. trustTx[s] # NoTrustTx BY <1>4 DEF CommitVerification, NoTrustTx
  <2>2. CASE approve
    <3>1. PICK worth : worth = trustTx[s].worth OBVIOUS
    <3>2. /\ WriteScore(trustTx[s].row, trustTx[s].worth)
          /\ Append1("none", worth) /\ Cardinality(recorded) < MaxSamples
          /\ trustTx' = [trustTx EXCEPT ![s] = NoTrustTx]
          /\ badge' = TRUE /\ passed' = TRUE /\ verified' = "approved"
          /\ UNCHANGED <<serial, blocks>>
      BY <1>4, <2>2, <3>1 DEF CommitVerification
    <3>3. /\ score' \in ScoreRow /\ EventsNumbered'
          /\ \A e, f \in recorded' : e.key = f.key /\ e.key # "none" => e = f
          /\ Cardinality(recorded) <= Cardinality(recorded')
          /\ score'.samples <= Cardinality(recorded')
          /\ serial => score'.samples = Cardinality(recorded') /\ Coherent(score')
      BY <2>1, <3>2, EventRecorded
    <3> QED BY <2>1, <3>2, <3>3, TrustEnds
  <2>3. CASE ~approve
    <3>1. /\ UNCHANGED <<score, recorded, badge, passed>> /\ verified' = "rejected"
          /\ trustTx' = [trustTx EXCEPT ![s] = NoTrustTx] /\ serial' = serial
      BY <1>4, <2>3 DEF CommitVerification
    <3>2. EventsNumbered' /\ Cardinality(recorded) \in Nat
      BY <3>1, FS_CardinalityType DEF TrustInv, EventsNumbered
    <3>3. Cardinality(recorded) <= Cardinality(recorded') BY <3>1, <3>2
    <3> QED BY <2>1, <3>1, <3>2, <3>3, TrustEnds DEF TrustInv
  <2> QED BY <2>2, <2>3
<1>5. ASSUME NEW s \in Sources, AbortTrust(s) PROVE TrustInv'
  <2>1. /\ trustTx[s] # NoTrustTx /\ trustTx' = [trustTx EXCEPT ![s] = NoTrustTx]
        /\ UNCHANGED <<serial, blocks, score, recorded, verified, badge, passed>>
    BY <1>5 DEF AbortTrust
  <2>2. EventsNumbered' /\ Cardinality(recorded) \in Nat
    BY <2>1, FS_CardinalityType DEF TrustInv, EventsNumbered
  <2>3. Cardinality(recorded) <= Cardinality(recorded') BY <2>1, <2>2
  <2> QED BY <2>1, <2>2, <2>3, TrustEnds DEF TrustInv
<1>6. CASE Submit
  BY <1>6 DEF Submit, TrustInv, EventsNumbered, Coherent, Levelled
<1>7. CASE UNCHANGED <<serial, blocks, trustVars>>
  BY <1>7 DEF trustVars, TrustInv, EventsNumbered, Coherent, Levelled
<1> QED BY <1>1, <1>2, <1>3, <1>4, <1>5, <1>6, <1>7 DEF TrustNext

LEMMA TrustInitially ==
  ASSUME TrustInit
  PROVE  TrustInv
<1>1. score = Ensured /\ recorded = {} /\ Cardinality({}) = 0 /\ IsFiniteSet({})
  BY FS_EmptySet DEF TrustInit
<1>2. EventsNumbered BY <1>1, TrustAssumption DEF EventsNumbered
<1>3. Ensured \in ScoreRow /\ Ensured.samples = 0
  <2>1. 5000 \in Points BY PointsAre
  <2> QED BY <2>1 DEF Ensured, ScoreRow, Levels
<1>4. Coherent(Ensured)
  <2>1. Levelled(Ensured)
    <3>1. /\ Ensured.level = "guest" /\ Ensured.samples = 0
          /\ 100 * Ensured.points - 0 = 500000
      BY DEF Ensured
    <3>2. LevelFor(500000, 0) = "guest" BY DEF LevelFor
    <3> QED BY <3>1, <3>2 DEF Levelled
  <2>2. Ensured.unsure = TRUE /\ (Ensured.samples < 5) = TRUE
    <3>1. Ensured.unsure = TRUE /\ Ensured.samples = 0 BY DEF Ensured
    <3> QED BY <3>1
  <2> QED BY <2>1, <2>2, Zenon DEF Coherent
<1>5. /\ verified = "none" /\ badge = FALSE /\ passed = FALSE
      /\ trustTx = [s \in Sources |-> NoTrustTx]
  BY DEF TrustInit
<1>6. trustTx \in [Sources -> TrustRequest] BY <1>5, NoTrustRequest
<1>7. score.samples = Cardinality(recorded) BY <1>1, <1>3
<1>8. \A e, f \in recorded : e.key = f.key /\ e.key # "none" => e = f BY <1>1
<1>9. \A s \in Sources : trustTx[s] = NoTrustTx BY <1>5
<1>11. score \in ScoreRow /\ Coherent(score) BY <1>1, <1>3, <1>4
<1>12. badge \in BOOLEAN /\ passed \in BOOLEAN /\ (badge <=> passed) BY <1>5
<1>13. score.samples <= Cardinality(recorded) BY <1>1, <1>3
<1> QED BY <1>2, <1>5, <1>6, <1>7, <1>8, <1>9, <1>11, <1>12, <1>13 DEF TrustInv

LEMMA TrustTypes ==
  ASSUME TrustInv
  PROVE  TrustTypeOK /\ ScoreIsEarned
<1>1. score \in ScoreRow /\ Cardinality(recorded) \in Nat
      /\ score.samples <= Cardinality(recorded) /\ Cardinality(recorded) <= MaxSamples
  BY FS_CardinalityType DEF TrustInv, EventsNumbered
<1>2. score.points \in Points /\ score.samples \in 0..MaxSamples /\ score.level \in Levels
  BY <1>1, TrustAssumption DEF ScoreRow
<1>3. TrustTypeOK
  <2>1. /\ verified \in {"none", "pending", "approved", "rejected"}
        /\ badge \in BOOLEAN /\ passed \in BOOLEAN
    BY DEF TrustInv
  <2> QED BY <1>2, <2>1 DEF TrustTypeOK
<1>4. ASSUME NEW s \in Sources, trustTx[s] # NoTrustTx
      PROVE  LET t == trustTx[s]  d == Applied(t.row, t.worth).points - t.row.points IN
             /\ t.worth >= 0 => d \in 0..Stored(15 * t.worth)
             /\ t.worth < 0 => d \in Stored(15 * t.worth)..0
  <2>1. PICK row \in ScoreRow : row = trustTx[s].row BY <1>4 DEF TrustInv
  <2>2. PICK w \in Int : w = trustTx[s].worth BY DEF TrustInv, TrustRequest
  <2>3. PICK p \in Points : p = row.points BY DEF ScoreRow
  <2>4. Applied(row, w).points = Stored(Ema(p, w)) BY <2>3, AppliedIs
  <2> QED BY <2>1, <2>2, <2>3, <2>4, EmaMoves
<1>5. ScoreIsEarned BY <1>4 DEF ScoreIsEarned, TrustInv, Coherent, Levelled
<1> QED BY <1>3, <1>5

-----------------------------------------------------------------------------
(***************************************************************************)
(* The types of Sessions: what AuthInv keeps, and that a token's           *)
(* family is that of an older token or its own number.                     *)
(***************************************************************************)

FamiliesOld ==
  /\ sentToday = sent /\ recent \in BOOLEAN
  /\ \A i \in DOMAIN tokens : tokens[i].family \in 1..i

\* The new token is the youngest; its family is older or its own.
LEMMA IssuedIsOld ==
  ASSUME NEW toks \in Seq(Token), NEW family \in Nat,
         \A i \in DOMAIN toks : toks[i].family \in 1..i,
         family # 0 => \E i \in DOMAIN toks : family \in 1..i
  PROVE  \A i \in DOMAIN Issued(toks, family) : Issued(toks, family)[i].family \in 1..i
<1> DEFINE n == Len(toks)
           new == Issued(toks, family)
<1>1. n \in Nat /\ DOMAIN toks = 1..n OBVIOUS
<1>2. /\ DOMAIN new = DOMAIN toks \cup {n + 1}
      /\ \A i \in DOMAIN toks : new[i] = toks[i]
      /\ new[n + 1].family = IF family = 0 THEN n + 1 ELSE family
  BY IssuedIs
<1> HIDE DEF n, new
<1>3. new[n + 1].family \in 1..(n + 1)
  <2>1. CASE family = 0 BY <1>1, <1>2, <2>1
  <2>2. CASE family # 0
    <3>1. PICK i \in DOMAIN toks : family \in 1..i BY <2>2
    <3> QED BY <1>1, <1>2, <2>2, <3>1
  <2> QED BY <2>1, <2>2
<1>4. \A i \in DOMAIN new : new[i].family \in 1..i BY <1>2, <1>3
<1> QED BY <1>4 DEF new

LEMMA FamiliesInductive == AuthInv /\ FamiliesOld /\ SessionsNext => FamiliesOld'
<1> SUFFICES ASSUME AuthInv, FamiliesOld, SessionsNext PROVE FamiliesOld' OBVIOUS
<1>1. AuthTyped /\ tokens \in Seq(Token) BY DEF AuthInv, AuthTyped
<1>2. Clients = Devices \cup {"ops"} BY DEF Clients
<1>3. ASSUME NEW d \in Devices, BeginSms(d) \/ CommitSms(d) \/ BeginLogin(d) \/ LoginFails(d)
      PROVE  FamiliesOld'
  <2>1. tokens' = tokens BY <1>3 DEF BeginSms, CommitSms, BeginLogin, LoginFails
  <2>2. sentToday' = sent' /\ recent' \in BOOLEAN
    BY <1>3 DEF BeginSms, CommitSms, BeginLogin, LoginFails, FamiliesOld
  <2> QED BY <2>1, <2>2 DEF FamiliesOld
<1>4. ASSUME NEW d \in Devices, CommitLogin(d) PROVE FamiliesOld'
  <2>1. tokens' = Issued(tokens, 0) /\ UNCHANGED <<sentToday, sent, recent>>
    BY <1>4 DEF CommitLogin
  <2>2. \A i \in DOMAIN tokens' : tokens'[i].family \in 1..i
    BY <1>1, <2>1, IssuedIsOld DEF FamiliesOld
  <2> QED BY <2>1, <2>2 DEF FamiliesOld
<1>5. ASSUME NEW d \in Devices, CommitRefresh(d) PROVE FamiliesOld'
  <2> DEFINE i == authTx[d].n
             rest == Revoked(tokens, i)
  <2>1. /\ authTx[d].op = "refresh" /\ tokens' = Issued(rest, tokens[i].family)
        /\ UNCHANGED <<sentToday, sent, recent>>
    BY <1>5 DEF CommitRefresh
  <2>2. i \in DOMAIN tokens BY <1>1, <1>2, <2>1 DEF AuthTyped
  <2>3. /\ rest \in Seq(Token) /\ DOMAIN rest = DOMAIN tokens
        /\ \A j \in DOMAIN tokens : rest[j].family = tokens[j].family
    BY <1>1, <2>2, RevokedIs
  <2>4. tokens[i].family \in 1..i /\ tokens[i].family \in Nat
    BY <1>1, <2>2 DEF FamiliesOld, Token
  <2>5. \A j \in DOMAIN rest : rest[j].family \in 1..j BY <2>3 DEF FamiliesOld
  <2> HIDE DEF rest, i
  <2>6. \A j \in DOMAIN tokens' : tokens'[j].family \in 1..j
    BY <2>1, <2>2, <2>3, <2>4, <2>5, IssuedIsOld
  <2> QED BY <2>1, <2>6 DEF FamiliesOld
<1>6. ASSUME NEW d \in Devices, NEW i \in DOMAIN tokens, BeginRefresh(d, i) \/ Logout(d, i)
      PROVE  FamiliesOld'
  <2>1. UNCHANGED <<sentToday, sent, recent>> BY <1>6 DEF BeginRefresh, Logout
  <2>2. tokens' = tokens \/ tokens' = Revoked(tokens, i) BY <1>6 DEF BeginRefresh, Logout
  <2>3. /\ DOMAIN Revoked(tokens, i) = DOMAIN tokens
        /\ \A j \in DOMAIN tokens : Revoked(tokens, i)[j].family = tokens[j].family
    BY <1>1, RevokedIs
  <2>4. DOMAIN tokens' = DOMAIN tokens /\ \A j \in DOMAIN tokens : tokens'[j].family = tokens[j].family
    BY <2>2, <2>3
  <2> QED BY <2>1, <2>4 DEF FamiliesOld
<1>7. CASE CodeExpires \/ IntervalEnds BY <1>7 DEF CodeExpires, IntervalEnds, FamiliesOld
<1>8. CASE ForceLogout
  <2>1. /\ tokens' = [i \in DOMAIN tokens |-> [tokens[i] EXCEPT !.live = FALSE]]
        /\ UNCHANGED <<sentToday, sent, recent>>
    BY <1>8 DEF ForceLogout
  <2>2. \A i \in DOMAIN tokens : tokens[i] \in Token BY <1>1
  <2>3. DOMAIN tokens' = DOMAIN tokens /\ \A j \in DOMAIN tokens : tokens'[j].family = tokens[j].family
    BY <2>1, <2>2 DEF Token
  <2> QED BY <2>1, <2>3 DEF FamiliesOld
<1> QED BY <1>3, <1>4, <1>5, <1>6, <1>7, <1>8 DEF SessionsNext

LEMMA SessionTypes == ASSUME AuthInv, FamiliesOld PROVE SessionsTypeOK
<1>1. \A i \in DOMAIN tokens : tokens[i].live \in BOOLEAN
  <2>1. \A i \in DOMAIN tokens : tokens[i] \in Token BY DEF AuthInv, AuthTyped
  <2> QED BY <2>1 DEF Token
<1> QED BY <1>1 DEF AuthInv, AuthTyped, FamiliesOld, SessionsTypeOK

-----------------------------------------------------------------------------
(***************************************************************************)
(* The status of an account has its reason, for any admins, sanctions and  *)
(* reporters.  Where requests do not overlap, the open one still sees the  *)
(* row it read.  What a revocation saw of the other sanctions may have run *)
(* out since, for time passes while a request is open: it saw every one    *)
(* that still stands, and none that is revoked.                            *)
(***************************************************************************)

Statuses == {"active", "limited", "banned", "deleted"}
AcctRow == [status : Statuses, discoverable : BOOLEAN, completed : BOOLEAN]
SanctionRow == [kind : Kinds, state : {"absent", "standing", "lapsed", "revoked"}]
AcctRequest ==
  [op : {"idle", "profile", "delete", "resolve", "sanction", "revoke"},
   on : Sanctions \cup Reports \cup {"none"}, to : {"none"} \cup Resolutions \cup Kinds,
   status : Statuses \cup {"none"}, others : SUBSET Kinds,
   seen : SUBSET {"discoverable", "completed"}]
Actors == Admins \cup {"user"}

\* The kinds of the other sanctions that are not revoked, lapsed or not.
OthersLeft(s) ==
  {sanctions[o].kind : o \in {o \in Sanctions \ {s} :
                                sanctions[o].state \in {"standing", "lapsed"}}}

\* What a request of each kind is about.
AcctDue(t) ==
  /\ t.op # "idle" => t.status \in Statuses
  /\ t.op = "resolve" => t.on \in Reports /\ t.to \in Resolutions
  /\ t.op = "sanction" => t.on \in Sanctions /\ t.to \in Kinds
  /\ t.op = "revoke" => t.on \in Sanctions

\* What an open request that nothing has overtaken still sees.
AcctFresh(a) ==
  LET t == acctTx[a] IN
  /\ t.status = acct.status
  /\ acct.discoverable <=> "discoverable" \in t.seen
  /\ acct.completed <=> "completed" \in t.seen
  /\ t.op \in {"profile", "delete"} => Admitted
  /\ t.op = "sanction" => sanctions[t.on].state = "absent"
  /\ t.op = "revoke" => /\ sanctions[t.on].state \in {"standing", "lapsed"}
                        /\ Others(t.on) \subseteq t.others
                        /\ t.others \subseteq OthersLeft(t.on)

AcctTyped ==
  /\ acct \in AcctRow
  /\ sanctions \in [Sanctions -> SanctionRow]
  /\ reports \in [Reports -> {"none", "pending", "resolved", "dismissed"}]
  /\ charge \in {"none", "limit", "ban"} /\ gone \in BOOLEAN
  /\ acctTx \in [Actors -> AcctRequest]
  /\ \A a \in Actors : AcctDue(acctTx[a])

AccountInv ==
  /\ AcctTyped
  /\ AccountHasItsReason
  /\ serial => \A a \in Actors : acctTx[a] # NoAcctTx =>
                 /\ AcctFresh(a)
                 /\ \A b \in Actors : acctTx[b] # NoAcctTx => b = a

LEMMA NoAcctRequest == NoAcctTx \in AcctRequest /\ AcctDue(NoAcctTx) /\ NoAcctTx.op = "idle"
BY DEF NoAcctTx, AcctRequest, AcctDue

\* A begun request sees the rows as they are.
LEMMA AcctBegins ==
  ASSUME AccountInv, NEW a \in Actors,
         NEW op \in {"profile", "delete", "resolve", "sanction", "revoke"},
         NEW on \in Sanctions \cup Reports \cup {"none"},
         NEW to \in {"none"} \cup Resolutions \cup Kinds, NEW others \in SUBSET Kinds,
         BeginAcct(a, op, on, to, others),
         op \in {"profile", "delete"} => Admitted,
         op = "resolve" => on \in Reports /\ to \in Resolutions,
         op = "sanction" => on \in Sanctions /\ to \in Kinds /\ sanctions[on].state = "absent",
         op = "revoke" => /\ on \in Sanctions /\ sanctions[on].state \in {"standing", "lapsed"}
                          /\ others = Others(on)
  PROVE  AccountInv'
<1> DEFINE flags == {f \in {"discoverable", "completed"} : acct[f]}
           t == [op |-> op, on |-> on, to |-> to, status |-> acct.status, others |-> others,
                 seen |-> flags]
<1>1. /\ acctTx' = [acctTx EXCEPT ![a] = t]
      /\ UNCHANGED <<serial, blocks, acct, sanctions, reports, charge, gone>>
      /\ serial => \A b \in DOMAIN acctTx : acctTx[b] = NoAcctTx
  BY DEF BeginAcct, MayBegin
<1>2. acctTx \in [Actors -> AcctRequest] /\ acct \in AcctRow BY DEF AccountInv, AcctTyped
<1>3. acct.status \in Statuses BY <1>2 DEF AcctRow
<1>4. flags \in SUBSET {"discoverable", "completed"} OBVIOUS
<1>5. /\ acct.discoverable <=> "discoverable" \in flags
      /\ acct.completed <=> "completed" \in flags
  OBVIOUS
<1> HIDE DEF flags
<1>6. t \in AcctRequest BY <1>3, <1>4 DEF AcctRequest
<1>7. /\ t.op = op /\ t.on = on /\ t.to = to /\ t.status = acct.status /\ t.others = others
      /\ t.seen = flags
  OBVIOUS
<1> HIDE DEF t
<1>8. AcctDue(t) BY <1>3, <1>7 DEF AcctDue
<1>9. \A b \in Actors : acctTx'[b] = IF b = a THEN t ELSE acctTx[b] BY <1>1, <1>2
<1>10. acctTx' \in [Actors -> AcctRequest] BY <1>1, <1>2, <1>6
<1>11. AcctTyped' BY <1>1, <1>8, <1>9, <1>10 DEF AccountInv, AcctTyped, AcctDue
<1>12. AccountHasItsReason'
  BY <1>1 DEF AccountInv, AccountHasItsReason, Unrevoked, Standing
<1>13. ASSUME serial'
       PROVE  \A b \in Actors : acctTx'[b] # NoAcctTx =>
                AcctFresh(b)' /\ \A c \in Actors : acctTx'[c] # NoAcctTx => c = b
  <2>1. \A b \in Actors : acctTx'[b] # NoAcctTx => b = a BY <1>1, <1>2, <1>9, <1>13
  <2>2. \A s \in Sanctions : Others(s) \subseteq OthersLeft(s)
    BY DEF Others, OthersLeft, Standing
  <2>3. /\ acctTx'[a] = t
        /\ \A s \in Sanctions : Others(s)' = Others(s) /\ OthersLeft(s)' = OthersLeft(s)
    BY <1>1, <1>9 DEF Others, OthersLeft, Standing
  <2>4. AcctFresh(a)' BY <1>1, <1>5, <1>7, <2>2, <2>3 DEF AcctFresh, Admitted
  <2> QED BY <2>1, <2>4
<1> QED BY <1>11, <1>12, <1>13 DEF AccountInv

\* A request that ends: where requests do not overlap none is open any more.
LEMMA AcctEnds ==
  ASSUME AcctTyped, NEW a \in Actors, EndAcct(a),
         serial => \A b \in Actors : acctTx[b] # NoAcctTx => b = a
  PROVE  /\ acctTx' \in [Actors -> AcctRequest]
         /\ \A b \in Actors : AcctDue(acctTx'[b])
         /\ serial => \A b \in Actors : acctTx'[b] = NoAcctTx
<1>1. acctTx' = [acctTx EXCEPT ![a] = NoAcctTx] /\ acctTx \in [Actors -> AcctRequest]
  BY DEF EndAcct, AcctTyped
<1>2. \A b \in Actors : acctTx'[b] = IF b = a THEN NoAcctTx ELSE acctTx[b] BY <1>1
<1>3. acctTx' \in [Actors -> AcctRequest] BY <1>1, NoAcctRequest
<1>4. \A b \in Actors : AcctDue(acctTx'[b]) BY <1>2, NoAcctRequest DEF AcctTyped
<1>5. serial => \A b \in Actors : acctTx'[b] = NoAcctTx BY <1>2
<1> QED BY <1>3, <1>4, <1>5

\* SQLAlchemy's write of one column.
LEMMA WrittenIs ==
  ASSUME NEW S, NEW cur \in S, NEW read, NEW new \in S
  PROVE  WrittenBack(cur, read, new) \in S /\ (read = cur => WrittenBack(cur, read, new) = new)
BY DEF WrittenBack

LEMMA FlagIs ==
  ASSUME NEW cur \in BOOLEAN, NEW read \in BOOLEAN, NEW new \in BOOLEAN
  PROVE  /\ WrittenBack(cur, read, new) \in BOOLEAN
         /\ (read <=> cur) => (WrittenBack(cur, read, new) <=> new)
<1>1. CASE read = new BY <1>1 DEF WrittenBack
<1>2. CASE read # new BY <1>2 DEF WrittenBack
<1> QED BY <1>1, <1>2

\* What a request makes of the row: what it computed, when nothing has
\* overtaken it.
LEMMA AcctWritten ==
  ASSUME AcctTyped, NEW a \in Actors, NEW status \in Statuses, NEW d \in BOOLEAN,
         NEW c \in BOOLEAN, WriteAcct(a, status, d, c)
  PROVE  /\ acct' \in AcctRow
         /\ AcctFresh(a) => /\ acct'.status = status
                            /\ acct'.discoverable <=> d
                            /\ acct'.completed <=> c
<1> DEFINE t == acctTx[a]
           rd == "discoverable" \in t.seen
           rc == "completed" \in t.seen
           ws == WrittenBack(acct.status, t.status, status)
           wd == WrittenBack(acct.discoverable, rd, d)
           wc == WrittenBack(acct.completed, rc, c)
<1>1. acct' = [status |-> ws, discoverable |-> wd, completed |-> wc] BY DEF WriteAcct
<1>2. acct.status \in Statuses /\ acct.discoverable \in BOOLEAN /\ acct.completed \in BOOLEAN
  BY DEF AcctTyped, AcctRow
<1>3. rd \in BOOLEAN /\ rc \in BOOLEAN OBVIOUS
<1>4. ws \in Statuses /\ (t.status = acct.status => ws = status) BY <1>2, WrittenIs
<1> HIDE DEF rd, rc, ws
<1>5. wd \in BOOLEAN /\ ((rd <=> acct.discoverable) => (wd <=> d)) BY <1>2, <1>3, FlagIs
<1>6. wc \in BOOLEAN /\ ((rc <=> acct.completed) => (wc <=> c)) BY <1>2, <1>3, FlagIs
<1> HIDE DEF wd, wc
<1>7. acct' \in AcctRow BY <1>1, <1>4, <1>5, <1>6 DEF AcctRow
<1>8. acct'.status = ws /\ acct'.discoverable = wd /\ acct'.completed = wc BY <1>1
<1>9. AcctFresh(a) => /\ t.status = acct.status
                      /\ rd <=> acct.discoverable
                      /\ rc <=> acct.completed
  BY DEF AcctFresh, rd, rc
<1> QED BY <1>4, <1>5, <1>6, <1>7, <1>8, <1>9

\* What the open request of a commit rests on.
LEMMA AcctOpen ==
  ASSUME AccountInv, NEW a \in Actors, acctTx[a].op # "idle"
  PROVE  /\ AcctTyped /\ acctTx[a] \in AcctRequest /\ AcctDue(acctTx[a])
         /\ serial => AcctFresh(a) /\ AccountHasItsReason
                      /\ \A b \in Actors : acctTx[b] # NoAcctTx => b = a
<1>1. acctTx[a] # NoAcctTx BY NoAcctRequest
<1> QED BY <1>1 DEF AccountInv, AcctTyped

\* What a commit has to show.
LEMMA AcctCommits ==
  ASSUME AccountInv, NEW a \in Actors, acctTx[a].op # "idle", EndAcct(a), serial' = serial,
         acct' \in AcctRow, sanctions' \in [Sanctions -> SanctionRow],
         reports' \in [Reports -> {"none", "pending", "resolved", "dismissed"}],
         charge' \in {"none", "limit", "ban"}, gone' \in BOOLEAN,
         serial => AccountHasItsReason'
  PROVE  AccountInv'
<1>1. /\ acctTx' \in [Actors -> AcctRequest]
      /\ \A b \in Actors : AcctDue(acctTx'[b])
      /\ serial => \A b \in Actors : acctTx'[b] = NoAcctTx
  BY AcctOpen, AcctEnds
<1>2. AcctTyped' BY <1>1 DEF AcctTyped
<1>3. AccountHasItsReason' BY DEF AccountHasItsReason
<1> QED BY <1>1, <1>2, <1>3 DEF AccountInv

LEMMA ProfileKeeps == ASSUME AccountInv, CommitProfile PROVE AccountInv'
<1> DEFINE t == acctTx["user"]
<1>1. PICK ok \in BOOLEAN : WriteAcct("user", t.status, ok, ok) BY DEF CommitProfile
<1>2. /\ t.op = "profile" /\ EndAcct("user")
      /\ UNCHANGED <<serial, sanctions, reports, charge, gone>>
  BY DEF CommitProfile
<1>3. "user" \in Actors BY DEF Actors
<1>4. /\ AcctTyped /\ t.status \in Statuses
      /\ serial => AcctFresh("user") /\ AccountHasItsReason
  BY <1>2, <1>3, AcctOpen DEF AcctDue
<1>5. /\ acct' \in AcctRow
      /\ AcctFresh("user") => acct'.status = t.status
  BY <1>1, <1>3, <1>4, AcctWritten
<1>6. ASSUME serial PROVE AccountHasItsReason'
  <2>1. acct'.status = acct.status /\ acct.status # "deleted"
    BY <1>2, <1>4, <1>5, <1>6 DEF AcctFresh, Admitted
  <2>2. Unrevoked' = Unrevoked /\ \A s \in Sanctions : Standing(s)' = Standing(s)
    BY <1>2 DEF Unrevoked, Standing
  <2> QED BY <1>2, <1>4, <1>6, <2>1, <2>2 DEF AccountHasItsReason
<1>7. t.op # "idle" BY <1>2
<1> QED BY <1>2, <1>3, <1>4, <1>5, <1>6, <1>7, AcctCommits DEF AcctTyped

LEMMA DeleteAccountKeeps == ASSUME AccountInv, CommitDeleteAccount PROVE AccountInv'
<1> DEFINE t == acctTx["user"]
<1>1. /\ t.op = "delete" /\ EndAcct("user") /\ gone' = TRUE
      /\ WriteAcct("user", "deleted", FALSE, FALSE)
      /\ UNCHANGED <<serial, sanctions, reports, charge>>
  BY DEF CommitDeleteAccount
<1>2. "user" \in Actors /\ "deleted" \in Statuses BY DEF Actors, Statuses
<1>3. /\ AcctTyped
      /\ serial => AcctFresh("user") /\ AccountHasItsReason
  BY <1>1, <1>2, AcctOpen
<1>4. /\ acct' \in AcctRow
      /\ AcctFresh("user") =>
           acct'.status = "deleted" /\ ~acct'.discoverable /\ ~acct'.completed
  BY <1>1, <1>2, <1>3, AcctWritten
<1>5. ASSUME serial PROVE AccountHasItsReason'
  <2>1. acct.status # "banned" BY <1>1, <1>3, <1>5 DEF AcctFresh, Admitted
  <2>2. Unrevoked' = Unrevoked /\ \A s \in Sanctions : Standing(s)' = Standing(s)
    BY <1>1 DEF Unrevoked, Standing
  <2> QED BY <1>1, <1>3, <1>4, <1>5, <2>1, <2>2 DEF AccountHasItsReason
<1>6. t.op # "idle" /\ gone' \in BOOLEAN BY <1>1
<1> QED BY <1>1, <1>2, <1>3, <1>4, <1>5, <1>6, AcctCommits DEF AcctTyped

LEMMA PunishedIs ==
  ASSUME NEW to, NEW read \in Statuses
  PROVE  /\ Punished(to, read) \in Statuses
         /\ to = "ban" => Punished(to, read) = "banned"
         /\ to = "limit" => Punished(to, read) = "limited"
         /\ to \notin {"ban", "limit"} => Punished(to, read) = read
BY DEF Punished, Statuses

\* A penalty is its own reason, and takes its user back.
LEMMA ResolveKeeps == ASSUME AccountInv, NEW a \in Admins, CommitResolve(a) PROVE AccountInv'
<1> DEFINE t == acctTx[a]
           penal == t.to \in {"limit", "ban"}
           d == "discoverable" \in t.seen /\ ~penal
           c == "completed" \in t.seen
<1>1. /\ t.op = "resolve" /\ EndAcct(a)
      /\ reports' = [reports EXCEPT ![t.on] = IF t.to = "dismiss" THEN "dismissed" ELSE "resolved"]
      /\ WriteAcct(a, Punished(t.to, t.status), d, c)
      /\ charge' = IF penal THEN t.to ELSE charge
      /\ UNCHANGED <<serial, blocks, sanctions>>
  BY DEF CommitResolve
<1>2. gone' \in BOOLEAN /\ (gone' <=> (gone /\ ~penal)) BY Zenon DEF CommitResolve
<1>3. a \in Actors /\ t.op # "idle" BY <1>1 DEF Actors
<1>4. /\ AcctTyped /\ t.status \in Statuses /\ t.on \in Reports /\ t.to \in Resolutions
      /\ serial => AcctFresh(a) /\ AccountHasItsReason
  BY <1>1, <1>3, AcctOpen DEF AcctDue
<1>5. d \in BOOLEAN /\ c \in BOOLEAN OBVIOUS
<1>6. ~penal => /\ d <=> "discoverable" \in t.seen
                /\ c <=> "completed" \in t.seen
  OBVIOUS
<1> HIDE DEF d, c
<1>7. /\ acct' \in AcctRow
      /\ AcctFresh(a) => /\ acct'.status = Punished(t.to, t.status)
                         /\ acct'.discoverable <=> d
                         /\ acct'.completed <=> c
  BY <1>1, <1>3, <1>4, <1>5, PunishedIs, AcctWritten
<1>8. reports' \in [Reports -> {"none", "pending", "resolved", "dismissed"}]
  BY <1>1, <1>4 DEF AcctTyped
<1>9. charge' \in {"none", "limit", "ban"} BY <1>1, <1>4 DEF AcctTyped
<1>10. ASSUME serial PROVE AccountHasItsReason'
  <2>1. Unrevoked' = Unrevoked /\ \A s \in Sanctions : Standing(s)' = Standing(s)
    BY <1>1 DEF Unrevoked, Standing
  <2>2. CASE ~penal
    <3>1. charge' = charge /\ (gone' <=> gone) BY <1>1, <1>2, <2>2
    <3>2. /\ acct'.status = acct.status
          /\ acct'.discoverable <=> acct.discoverable
          /\ acct'.completed <=> acct.completed
      BY <1>4, <1>6, <1>7, <1>10, <2>2, PunishedIs DEF AcctFresh
    <3> QED BY <1>1, <1>4, <1>10, <2>1, <3>1, <3>2 DEF AccountHasItsReason
  <2>3. CASE penal
    <3>1. charge' = t.to /\ ~gone' BY <1>1, <1>2, <2>3
    <3>2. \/ t.to = "ban" /\ acct'.status = "banned"
          \/ t.to = "limit" /\ acct'.status = "limited"
      BY <1>4, <1>7, <1>10, <2>3, PunishedIs
    <3> QED BY <1>1, <1>10, <2>1, <3>1, <3>2 DEF AccountHasItsReason
  <2> QED BY <2>2, <2>3
<1> QED BY <1>1, <1>2, <1>3, <1>4, <1>7, <1>8, <1>9, <1>10, AcctCommits DEF AcctTyped

\* A sanction imposed stands; a ban of it is the reason from now on, a limit of
\* an account that is not active is only on record.
LEMMA SanctionKeeps == ASSUME AccountInv, NEW a \in Admins, CommitSanction(a) PROVE AccountInv'
<1> DEFINE t == acctTx[a]
           to == IF t.to = "limit" /\ t.status # "active" THEN "warn" ELSE t.to
           row == [kind |-> t.to, state |-> "standing"]
           new == Punished(to, t.status)
           status == WrittenBack(acct.status, t.status, new)
<1>1. /\ t.op = "sanction" /\ EndAcct(a)
      /\ sanctions' = [sanctions EXCEPT ![t.on] = row]
      /\ acct' = [acct EXCEPT !.status = status]
      /\ charge' = IF to = "ban" THEN "none" ELSE charge
      /\ UNCHANGED <<serial, blocks, reports>>
  BY DEF CommitSanction
<1>2. gone' \in BOOLEAN /\ (gone' <=> (gone /\ to # "ban")) BY Zenon DEF CommitSanction
<1>3. a \in Actors /\ t.op # "idle" BY <1>1 DEF Actors
<1>4. /\ AcctTyped /\ t.status \in Statuses /\ t.on \in Sanctions /\ t.to \in Kinds
      /\ serial => AcctFresh(a) /\ AccountHasItsReason
  BY <1>1, <1>3, AcctOpen DEF AcctDue
<1>5. /\ new \in Statuses
      /\ to = "ban" => new = "banned"
      /\ to = "limit" => new = "limited"
      /\ to \notin {"ban", "limit"} => new = t.status
  BY <1>4, PunishedIs
<1>6. acct \in AcctRow /\ acct.status \in Statuses BY <1>4 DEF AcctTyped, AcctRow
<1>7. /\ to \in Kinds
      /\ to = "ban" <=> t.to = "ban"
      /\ to = "limit" => t.status = "active" /\ t.to = "limit"
      /\ to = "warn" => t.to = "warn" \/ (t.to = "limit" /\ t.status # "active")
  BY <1>4 DEF Kinds
<1>8. row \in SanctionRow /\ row.kind = t.to /\ row.state = "standing" BY <1>4 DEF SanctionRow
<1> HIDE DEF new, to, row
<1>9. status \in Statuses /\ (t.status = acct.status => status = new)
  BY <1>5, <1>6, WrittenIs
<1> HIDE DEF status
<1>10. /\ acct' \in AcctRow /\ acct'.status = status
       /\ acct'.discoverable = acct.discoverable /\ acct'.completed = acct.completed
  BY <1>1, <1>6, <1>9 DEF AcctRow
<1>11. /\ sanctions' \in [Sanctions -> SanctionRow]
       /\ \A s \in Sanctions : sanctions'[s] = IF s = t.on THEN row ELSE sanctions[s]
  BY <1>1, <1>4, <1>8 DEF AcctTyped
<1>12. charge' \in {"none", "limit", "ban"} BY <1>1, <1>4 DEF AcctTyped
<1>13. ASSUME serial PROVE AccountHasItsReason'
  <2>1. /\ AcctFresh(a) /\ AccountHasItsReason /\ acct.status = t.status
        /\ sanctions[t.on].state = "absent" /\ status = new
    BY <1>1, <1>4, <1>9, <1>13 DEF AcctFresh
  <2>2. /\ Unrevoked \subseteq Unrevoked'
        /\ t.to \in Unrevoked'
    BY <1>4, <1>8, <1>11, <2>1 DEF Unrevoked
  <2>3. \A s \in Sanctions : Standing(s)' =>
           (s = t.on /\ sanctions'[s].kind = t.to)
           \/ (Standing(s) /\ sanctions'[s].kind = sanctions[s].kind)
    BY <1>8, <1>11 DEF Standing
  <2>4. CASE to = "ban"
    <3>1. charge' = "none" /\ ~gone' /\ acct'.status = "banned" /\ "ban" \in Unrevoked'
      BY <1>1, <1>2, <1>5, <1>7, <1>10, <2>1, <2>2, <2>4
    <3> QED BY <3>1 DEF AccountHasItsReason
  <2>5. CASE to = "limit"
    <3>1. charge' = charge /\ acct'.status = "limited" /\ (gone' <=> gone) /\ Unrevoked' # {}
      BY <1>1, <1>2, <1>5, <1>10, <2>1, <2>2, <2>5
    <3>2. acct.status = "active" /\ ~gone /\ charge = "none"
          /\ \A s \in Sanctions : Standing(s) => sanctions[s].kind = "warn"
      BY <1>7, <1>13, <2>1, <2>5 DEF AccountHasItsReason
    <3>3. \A s \in Sanctions : Standing(s)' => sanctions'[s].kind # "ban"
      BY <1>7, <2>3, <2>5, <3>2
    <3> QED BY <3>1, <3>2, <3>3 DEF AccountHasItsReason
  <2>6. CASE to = "warn"
    <3>1. charge' = charge /\ acct'.status = acct.status /\ (gone' <=> gone)
      BY <1>1, <1>2, <1>5, <1>10, <2>1, <2>6
    <3>2. t.to # "ban" /\ (acct.status = "active" => t.to = "warn") BY <1>7, <2>1, <2>6
    <3> QED BY <1>1, <1>10, <1>13, <2>1, <2>2, <2>3, <3>1, <3>2 DEF AccountHasItsReason
  <2> QED BY <1>7, <2>4, <2>5, <2>6 DEF Kinds
<1> QED BY <1>1, <1>2, <1>3, <1>4, <1>10, <1>11, <1>12, <1>13, AcctCommits DEF AcctTyped

\* A revocation leaves the reason there is left among the other sanctions.
LEMMA RevocationKeeps == ASSUME AccountInv, NEW a \in Admins, CommitRevoke(a) PROVE AccountInv'
<1> DEFINE t == acctTx[a]
           recomputed == t.status \in {"banned", "limited"}
           to == CASE ~recomputed -> t.status
                   [] recomputed /\ t.others = {} -> "active"
                   [] recomputed /\ "ban" \in t.others -> "banned"
                   [] OTHER -> "limited"
           row == [sanctions[t.on] EXCEPT !.state = "revoked"]
           status == WrittenBack(acct.status, t.status, to)
<1>1. /\ t.op = "revoke" /\ EndAcct(a)
      /\ sanctions' = [sanctions EXCEPT ![t.on] = row]
      /\ acct' = [acct EXCEPT !.status = status]
      /\ charge' = IF recomputed THEN "none" ELSE charge
      /\ UNCHANGED <<serial, blocks, reports, gone>>
  BY DEF CommitRevoke
<1>2. a \in Actors /\ t.op # "idle" BY <1>1 DEF Actors
<1>3. /\ AcctTyped /\ t.status \in Statuses /\ t.on \in Sanctions
      /\ serial => AcctFresh(a) /\ AccountHasItsReason
  BY <1>1, <1>2, AcctOpen DEF AcctDue
<1>4. /\ to \in Statuses
      /\ ~recomputed => to = t.status
      /\ recomputed /\ t.others = {} => to = "active"
      /\ recomputed /\ "ban" \in t.others => to = "banned"
      /\ recomputed /\ t.others # {} /\ "ban" \notin t.others => to = "limited"
  BY <1>3 DEF Statuses
<1>5. acct \in AcctRow /\ acct.status \in Statuses BY <1>3 DEF AcctTyped, AcctRow
<1>6. row \in SanctionRow /\ row.state = "revoked"
  BY <1>3 DEF AcctTyped, SanctionRow
<1> HIDE DEF to, row
<1>7. status \in Statuses /\ (t.status = acct.status => status = to)
  BY <1>4, <1>5, WrittenIs
<1> HIDE DEF status
<1>8. /\ acct' \in AcctRow /\ acct'.status = status
      /\ acct'.discoverable = acct.discoverable /\ acct'.completed = acct.completed
  BY <1>1, <1>5, <1>7 DEF AcctRow
<1>9. /\ sanctions' \in [Sanctions -> SanctionRow]
      /\ \A s \in Sanctions : sanctions'[s] = IF s = t.on THEN row ELSE sanctions[s]
  BY <1>1, <1>3, <1>6 DEF AcctTyped
<1>10. charge' \in {"none", "limit", "ban"} BY <1>1, <1>3 DEF AcctTyped
<1>11. ASSUME serial PROVE AccountHasItsReason'
  <2>1. /\ AcctFresh(a) /\ AccountHasItsReason /\ acct.status = t.status /\ status = to
        /\ Others(t.on) \subseteq t.others /\ t.others \subseteq OthersLeft(t.on)
    BY <1>1, <1>3, <1>7, <1>11 DEF AcctFresh
  <2>2. OthersLeft(t.on) \subseteq Unrevoked' BY <1>9 DEF OthersLeft, Unrevoked
  <2>3. \A s \in Sanctions : Standing(s)' =>
           Standing(s) /\ sanctions'[s].kind = sanctions[s].kind
           /\ sanctions'[s].kind \in Others(t.on)
    BY <1>6, <1>9 DEF Standing, Others
  <2>4. CASE ~recomputed
    <3>1. charge' = charge /\ gone' = gone /\ acct'.status = acct.status
          /\ acct.status \notin {"banned", "limited"}
      BY <1>1, <1>4, <1>8, <2>1, <2>4
    <3> QED BY <1>1, <1>8, <1>11, <2>1, <2>3, <3>1 DEF AccountHasItsReason
  <2>5. CASE recomputed
    <3>1. charge' = "none" /\ gone' = gone /\ ~gone BY <1>1, <1>11, <2>1, <2>5 DEF AccountHasItsReason
    <3>2. CASE t.others = {}
      BY <1>4, <1>8, <2>1, <2>3, <2>5, <3>1, <3>2 DEF AccountHasItsReason
    <3>3. CASE "ban" \in t.others
      BY <1>4, <1>8, <2>1, <2>2, <2>5, <3>1, <3>3 DEF AccountHasItsReason
    <3>4. CASE t.others # {} /\ "ban" \notin t.others
      BY <1>4, <1>8, <2>1, <2>2, <2>3, <2>5, <3>1, <3>4 DEF AccountHasItsReason
    <3> QED BY <3>2, <3>3, <3>4
  <2> QED BY <2>4, <2>5
<1> QED BY <1>1, <1>2, <1>3, <1>8, <1>9, <1>10, <1>11, AcctCommits DEF AcctTyped

\* Time takes a sanction's effect away, not the sanction; an open request keeps
\* what it saw of it.
LEMMA LapseKeeps == ASSUME AccountInv, NEW s \in Sanctions, Lapse(s) PROVE AccountInv'
<1> DEFINE row == [sanctions[s] EXCEPT !.state = "lapsed"]
<1>1. /\ sanctions[s].state = "standing" /\ sanctions' = [sanctions EXCEPT ![s] = row]
      /\ UNCHANGED <<serial, blocks, acct, reports, charge, gone, acctTx>>
  BY DEF Lapse, Standing
<1>2. AcctTyped BY DEF AccountInv
<1>3. row \in SanctionRow /\ row.kind = sanctions[s].kind /\ row.state = "lapsed"
  BY <1>2 DEF AcctTyped, SanctionRow
<1> HIDE DEF row
<1>4. /\ sanctions' \in [Sanctions -> SanctionRow]
      /\ \A o \in Sanctions : sanctions'[o] = IF o = s THEN row ELSE sanctions[o]
  BY <1>1, <1>2, <1>3 DEF AcctTyped
<1>5. AcctTyped' BY <1>1, <1>2, <1>4 DEF AcctTyped, AcctDue
<1>6. /\ \A o \in Sanctions : sanctions'[o].kind = sanctions[o].kind
      /\ \A o \in Sanctions : sanctions'[o].state \in {"standing", "lapsed"}
                                <=> sanctions[o].state \in {"standing", "lapsed"}
      /\ \A o \in Sanctions : sanctions'[o].state = "standing" => sanctions[o].state = "standing"
      /\ \A o \in Sanctions : sanctions[o].state = "absent" => sanctions'[o].state = "absent"
  BY <1>1, <1>3, <1>4
<1>7. Unrevoked' = Unrevoked BY <1>6 DEF Unrevoked
<1>8. AccountHasItsReason' BY <1>1, <1>6, <1>7 DEF AccountInv, AccountHasItsReason, Standing
<1>9. \A o \in Sanctions : OthersLeft(o)' = OthersLeft(o) /\ Others(o)' \subseteq Others(o)
  BY <1>6 DEF OthersLeft, Others, Standing
<1>10. ASSUME serial', NEW a \in Actors, acctTx'[a] # NoAcctTx PROVE AcctFresh(a)'
  <2>1. AcctFresh(a) /\ AcctDue(acctTx[a]) BY <1>1, <1>10 DEF AccountInv, AcctTyped
  <2>2. acctTx[a].op = "sanction" => sanctions'[acctTx[a].on].state = "absent"
    BY <1>6, <2>1 DEF AcctFresh, AcctDue
  <2>3. acctTx[a].op = "revoke" =>
           /\ sanctions'[acctTx[a].on].state \in {"standing", "lapsed"}
           /\ Others(acctTx[a].on)' \subseteq acctTx[a].others
           /\ acctTx[a].others \subseteq OthersLeft(acctTx[a].on)'
    <3>1. SUFFICES ASSUME acctTx[a].op = "revoke"
                   PROVE  /\ sanctions'[acctTx[a].on].state \in {"standing", "lapsed"}
                          /\ Others(acctTx[a].on)' \subseteq acctTx[a].others
                          /\ acctTx[a].others \subseteq OthersLeft(acctTx[a].on)'
      OBVIOUS
    <3>2. PICK o \in Sanctions : o = acctTx[a].on BY <2>1, <3>1 DEF AcctDue
    <3>3. Others(acctTx[a].on)' = Others(o)' /\ OthersLeft(acctTx[a].on)' = OthersLeft(o)'
      BY <1>1, <3>2 DEF Others, OthersLeft
    <3> QED BY <1>6, <1>9, <2>1, <3>1, <3>2, <3>3 DEF AcctFresh
  <2> QED BY <1>1, <2>1, <2>2, <2>3 DEF AcctFresh, Admitted
<1> QED BY <1>1, <1>5, <1>8, <1>10 DEF AccountInv

LEMMA ReportKeeps == ASSUME AccountInv, NEW r \in Reports, FileReport(r) PROVE AccountInv'
<1>1. /\ reports' = [reports EXCEPT ![r] = "pending"]
      /\ UNCHANGED <<serial, blocks, acct, sanctions, charge, gone, acctTx>>
  BY DEF FileReport
<1>2. AcctTyped' BY <1>1 DEF AccountInv, AcctTyped, AcctDue
<1>3. AccountHasItsReason' BY <1>1 DEF AccountInv, AccountHasItsReason, Unrevoked, Standing
<1>4. ASSUME serial', NEW a \in Actors, acctTx'[a] # NoAcctTx PROVE AcctFresh(a)'
  BY <1>1, <1>4 DEF AccountInv, AcctFresh, Admitted, Others, OthersLeft, Standing
<1> QED BY <1>1, <1>2, <1>3, <1>4 DEF AccountInv

LEMMA AccountInductive == AccountInv /\ AccountsNext => AccountInv'
<1> SUFFICES ASSUME AccountInv, AccountsNext PROVE AccountInv' OBVIOUS
<1>1. "user" \in Actors /\ \A a \in Admins : a \in Actors BY DEF Actors
<1>2. \A s \in Sanctions : Others(s) \in SUBSET Kinds
  BY DEF AccountInv, AcctTyped, SanctionRow, Others
<1>3. CASE BeginProfile \/ BeginDeleteAccount
  <2>1. Admitted /\ \E op \in {"profile", "delete"} : BeginAcct("user", op, "none", "none", {})
    BY <1>3 DEF BeginProfile, BeginDeleteAccount
  <2> QED BY <1>1, <2>1, AcctBegins
<1>4. ASSUME NEW r \in Reports, NEW a \in Admins, BeginResolve(a, r) PROVE AccountInv'
  <2>1. PICK to \in Resolutions : BeginAcct(a, "resolve", r, to, {}) BY <1>4 DEF BeginResolve
  <2>2. r \in Sanctions \cup Reports \cup {"none"} /\ to \in {"none"} \cup Resolutions \cup Kinds
    OBVIOUS
  <2>3. a \in Actors /\ {} \in SUBSET Kinds /\ "resolve" \in {"profile", "delete", "resolve", "sanction", "revoke"}
    BY <1>1
  <2> QED BY <2>1, <2>2, <2>3, AcctBegins
<1>5. ASSUME NEW s \in Sanctions, NEW a \in Admins, BeginSanction(a, s) PROVE AccountInv'
  <2>1. PICK kind \in Kinds : BeginAcct(a, "sanction", s, kind, {}) BY <1>5 DEF BeginSanction
  <2>2. sanctions[s].state = "absent" BY <1>5 DEF BeginSanction, NoSanction
  <2>3. s \in Sanctions \cup Reports \cup {"none"} /\ kind \in {"none"} \cup Resolutions \cup Kinds
    OBVIOUS
  <2>4. a \in Actors /\ {} \in SUBSET Kinds /\ "sanction" \in {"profile", "delete", "resolve", "sanction", "revoke"}
    BY <1>1
  <2> QED BY <2>1, <2>2, <2>3, <2>4, AcctBegins
<1>6. ASSUME NEW s \in Sanctions, NEW a \in Admins, BeginRevoke(a, s) PROVE AccountInv'
  <2>1. /\ sanctions[s].state \in {"standing", "lapsed"}
        /\ BeginAcct(a, "revoke", s, "none", Others(s))
    BY <1>6 DEF BeginRevoke
  <2>2. PICK others \in SUBSET Kinds : others = Others(s) BY <1>2
  <2> QED BY <1>1, <2>1, <2>2, AcctBegins
<1> QED BY <1>3, <1>4, <1>5, <1>6, ProfileKeeps, DeleteAccountKeeps, ResolveKeeps, SanctionKeeps,
           RevocationKeeps, LapseKeeps, ReportKeeps DEF AccountsNext

LEMMA AccountInitially == ASSUME AccountsInit PROVE AccountInv
<1>1. AcctTyped
  <2>1. acct \in AcctRow BY DEF AccountsInit, AcctRow, Statuses
  <2>2. sanctions \in [Sanctions -> SanctionRow] BY DEF AccountsInit, NoSanction, SanctionRow, Kinds
  <2>3. acctTx \in [Actors -> AcctRequest] /\ \A a \in Actors : acctTx[a] = NoAcctTx
    BY NoAcctRequest DEF AccountsInit, Actors
  <2> QED BY <2>1, <2>2, <2>3, NoAcctRequest DEF AccountsInit, AcctTyped
<1>2. \A a \in Actors : acctTx[a] = NoAcctTx BY DEF AccountsInit, Actors
<1>3. AccountHasItsReason
  <2>1. /\ acct.status = "active" /\ charge = "none" /\ gone = FALSE
        /\ \A s \in Sanctions : sanctions[s].state = "absent"
    BY DEF AccountsInit, NoSanction
  <2> QED BY <2>1 DEF AccountHasItsReason, Standing
<1> QED BY <1>1, <1>2, <1>3 DEF AccountInv

LEMMA AccountTypes == ASSUME AccountInv PROVE AccountsTypeOK /\ AccountHasItsReason
<1>1. \A s \in Sanctions : sanctions[s] \in SanctionRow BY DEF AccountInv, AcctTyped
<1> QED BY <1>1 DEF AccountInv, AcctTyped, AcctRow, SanctionRow, Statuses, AccountsTypeOK

-----------------------------------------------------------------------------
(***************************************************************************)
(* An event counts once, for any events, retention and days.  An event     *)
(* that was accepted is in the ledger until its day expires, and when the  *)
(* ledger has forgotten it, it is too old to be taken again: it happened   *)
(* before it was accepted, and MaxAge is less than Retention.  A day that  *)
(* is over and not expired keeps all it received, but for what was erased, *)
(* and a rebuild reaches no day that is expired.                           *)
(***************************************************************************)

UsageRow == [id : Events, day : Nat]
LedgerRow(e, d) == [id |-> e, day |-> d]
Expired(d) == d < today - Retention

\* Events accepted on a day.
ReceivedOn(d) == {e \in Events : \E i \in DOMAIN got[e] : got[e][i] = d}

AnalyticsTyped ==
  /\ today \in 0..LastDay
  /\ born \in [Events -> -1..LastDay] /\ \A e \in Events : born[e] <= today
  /\ raw \in SUBSET UsageRow /\ seen \in SUBSET UsageRow
  /\ \A s \in seen : s.day <= today
  /\ daily \in [0..LastDay -> -1..Cardinality(Events)]
  /\ got \in [Events -> Seq(0..LastDay)]
  /\ closed \subseteq 0..LastDay /\ \A d \in closed : d < today
  /\ \A e \in erased : e \in Events /\ got[e] # <<>>

\* What was accepted, and where it is.
Accepted ==
  \A e \in Events :
    \/ got[e] = <<>>
    \/ \E d \in 0..today :
         /\ got[e] = <<d>> /\ born[e] \in 0..d
         /\ LedgerRow(e, d) \in seen \/ Expired(d)
         /\ LedgerRow(e, d) \in raw \/ Expired(d) \/ e \in erased

\* What is stored was accepted.
RawWasAccepted == \A r \in raw : got[r.id] = <<r.day>> /\ r.id \notin erased

\* What a day that was rebuilt when it was over counts.
ClosedCount ==
  \A d \in closed :
    daily[d] \in Cardinality(ReceivedOn(d) \ erased)..Cardinality(ReceivedOn(d))

AnalyticsInv == AnalyticsTyped /\ Accepted /\ RawWasAccepted /\ ClosedCount

LEMMA ReceivedIs ==
  ASSUME AnalyticsTyped, Accepted, NEW e \in Events, NEW d
  PROVE  e \in ReceivedOn(d) <=> got[e] = <<d>>
<1>1. CASE got[e] = <<>> BY <1>1 DEF ReceivedOn
<1>2. ASSUME NEW c, got[e] = <<c>> PROVE e \in ReceivedOn(d) <=> got[e] = <<d>>
  BY <1>2 DEF ReceivedOn
<1> QED BY <1>1, <1>2 DEF Accepted

LEMMA ReceivedFinite ==
  ASSUME NEW d
  PROVE  /\ IsFiniteSet(ReceivedOn(d)) /\ IsFiniteSet(ReceivedOn(d) \ erased)
         /\ Cardinality(ReceivedOn(d)) \in Nat /\ Cardinality(ReceivedOn(d) \ erased) \in Nat
         /\ Cardinality(ReceivedOn(d) \ erased) <= Cardinality(ReceivedOn(d))
         /\ Cardinality(ReceivedOn(d)) <= Cardinality(Events)
<1>1. ReceivedOn(d) \in SUBSET Events /\ IsFiniteSet(Events)
  BY AnalyticsAssumption DEF ReceivedOn
<1>2. IsFiniteSet(ReceivedOn(d)) /\ Cardinality(ReceivedOn(d)) <= Cardinality(Events)
  BY <1>1, FS_Subset
<1>3. ReceivedOn(d) \ erased \in SUBSET ReceivedOn(d) OBVIOUS
<1>4. /\ IsFiniteSet(ReceivedOn(d) \ erased)
      /\ Cardinality(ReceivedOn(d) \ erased) <= Cardinality(ReceivedOn(d))
  BY <1>2, <1>3, FS_Subset
<1> QED BY <1>2, <1>4, FS_CardinalityType

\* The rows of a day that has not expired are its events that were not erased.
LEMMA CountedIs ==
  ASSUME AnalyticsInv, NEW d \in 0..LastDay, ~Expired(d)
  PROVE  Counted(d) = Cardinality(ReceivedOn(d) \ erased)
<1> DEFINE T == ReceivedOn(d) \ erased
           R == {r \in raw : r.day = d}
           f == [e \in T |-> LedgerRow(e, d)]
<1>1. \A e \in T : LedgerRow(e, d) \in R
  <2>1. SUFFICES ASSUME NEW e \in T PROVE LedgerRow(e, d) \in R OBVIOUS
  <2>2. e \in Events /\ got[e] = <<d>> BY ReceivedIs DEF AnalyticsInv, ReceivedOn
  <2>3. \/ got[e] = <<>>
        \/ \E c \in 0..today :
             /\ got[e] = <<c>> /\ born[e] \in 0..c
             /\ LedgerRow(e, c) \in seen \/ Expired(c)
             /\ LedgerRow(e, c) \in raw \/ Expired(c) \/ e \in erased
    BY <2>2, Zenon DEF AnalyticsInv, Accepted
  <2>4. <<d>> # <<>> OBVIOUS
  <2>5. PICK c \in 0..today :
          got[e] = <<c>> /\ (LedgerRow(e, c) \in raw \/ Expired(c) \/ e \in erased)
    BY <2>2, <2>3, <2>4, Zenon
  <2>6. c = d
    <3>1. <<c>> = <<d>> BY <2>2, <2>5
    <3> QED BY <3>1
  <2>7. LedgerRow(e, d) \in raw BY <2>5, <2>6
  <2> QED BY <2>7 DEF LedgerRow
<1>2. \A r \in R : r.id \in T /\ r = LedgerRow(r.id, d)
  <2>1. SUFFICES ASSUME NEW r \in R PROVE r.id \in T /\ r = LedgerRow(r.id, d) OBVIOUS
  <2>2. r \in UsageRow /\ r.day = d BY DEF AnalyticsInv, AnalyticsTyped
  <2>3. r.id \in Events /\ r = LedgerRow(r.id, d) BY <2>2 DEF UsageRow, LedgerRow
  <2>4. got[r.id] = <<d>> /\ r.id \notin erased BY <2>2 DEF AnalyticsInv, RawWasAccepted
  <2> QED BY <2>3, <2>4, ReceivedIs DEF AnalyticsInv
<1>3. \A e, c \in T : LedgerRow(e, d) = LedgerRow(c, d) => e = c BY DEF LedgerRow
<1> HIDE DEF T, R
<1>4. f \in Bijection(T, R)
  <2>1. f \in [T -> R] /\ \A e \in T : f[e] = LedgerRow(e, d) BY <1>1
  <2>2. f \in Injection(T, R) BY <1>3, <2>1 DEF Injection, IsInjective
  <2>3. f \in Surjection(T, R) BY <1>2, <2>1 DEF Surjection
  <2> QED BY <2>2, <2>3 DEF Bijection
<1>5. ExistsBijection(T, R) BY <1>4 DEF ExistsBijection
<1>6. IsFiniteSet(T) BY ReceivedFinite DEF T
<1>7. Cardinality(R) = Cardinality(T) BY <1>5, <1>6, FS_Bijection
<1> QED BY <1>7 DEF Counted, R, T

\* A step that rebuilds nothing and accepts nothing for a day that was rebuilt.
LEMMA ClosedKeep ==
  ASSUME AnalyticsInv, UNCHANGED <<daily, closed>>, AnalyticsTyped',
         \A d \in closed : ReceivedOn(d)' = ReceivedOn(d), erased \subseteq erased'
  PROVE  ClosedCount'
<1>1. SUFFICES ASSUME NEW d \in closed
               PROVE  daily[d] \in Cardinality((ReceivedOn(d) \ erased)')..Cardinality(ReceivedOn(d)')
  BY DEF ClosedCount
<1>2. ReceivedOn(d)' = ReceivedOn(d) OBVIOUS
<1>3. (ReceivedOn(d) \ erased)' \in SUBSET (ReceivedOn(d) \ erased) BY <1>2
<1>4. /\ IsFiniteSet(ReceivedOn(d) \ erased)
      /\ Cardinality(ReceivedOn(d) \ erased) \in Nat /\ Cardinality(ReceivedOn(d)) \in Nat
  BY ReceivedFinite
<1>5. /\ Cardinality((ReceivedOn(d) \ erased)') <= Cardinality(ReceivedOn(d) \ erased)
      /\ IsFiniteSet((ReceivedOn(d) \ erased)')
  BY <1>3, <1>4, FS_Subset
<1>6. Cardinality((ReceivedOn(d) \ erased)') \in Nat BY <1>5, FS_CardinalityType
<1>7. daily[d] \in Cardinality(ReceivedOn(d) \ erased)..Cardinality(ReceivedOn(d))
  BY DEF AnalyticsInv, ClosedCount
<1> QED BY <1>2, <1>4, <1>5, <1>6, <1>7

LEMMA HappensKeeps == ASSUME AnalyticsInv, NEW e \in Events, Happens(e) PROVE AnalyticsInv'
<1>1. /\ born[e] = -1 /\ born' = [born EXCEPT ![e] = today]
      /\ UNCHANGED <<today, raw, seen, daily, got, closed, erased>>
  BY DEF Happens
<1>2. AnalyticsTyped /\ Accepted /\ RawWasAccepted BY DEF AnalyticsInv
<1>3. AnalyticsTyped' BY <1>1, <1>2, AnalyticsAssumption DEF AnalyticsTyped
<1>4. got[e] = <<>> BY <1>1, <1>2 DEF Accepted
<1>5. Accepted'
  <2>1. \A c \in Events : c # e => born'[c] = born[c] BY <1>1, <1>2 DEF AnalyticsTyped
  <2> QED BY <1>1, <1>2, <1>4, <2>1 DEF Accepted, Expired
<1>6. RawWasAccepted' BY <1>1, <1>2 DEF RawWasAccepted
<1>7. ClosedCount' BY <1>1, <1>3, ClosedKeep DEF ReceivedOn
<1> QED BY <1>3, <1>5, <1>6, <1>7 DEF AnalyticsInv

\* An event that is taken has not been taken before.
LEMMA FirstTime ==
  ASSUME AnalyticsInv, NEW e \in Events, Ingest(e)
  PROVE  got[e] = <<>>
<1>1. SUFFICES ASSUME got[e] # <<>> PROVE FALSE OBVIOUS
<1>2. PICK d \in 0..today : got[e] = <<d>> /\ born[e] \in 0..d
                            /\ (LedgerRow(e, d) \in seen \/ Expired(d))
  BY <1>1 DEF AnalyticsInv, Accepted
<1>3. today - born[e] <= MaxAge /\ ~ \E s \in seen : s.id = e BY DEF Ingest, Fresh
<1>4. Expired(d)
  <2>1. LedgerRow(e, d).id = e BY DEF LedgerRow
  <2> QED BY <1>2, <1>3, <2>1
<1> QED BY <1>2, <1>3, <1>4, AnalyticsAssumption DEF Expired, AnalyticsInv, AnalyticsTyped

LEMMA IngestKeeps == ASSUME AnalyticsInv, NEW e \in Events, Ingest(e) PROVE AnalyticsInv'
<1> DEFINE row == LedgerRow(e, today)
<1>1. /\ born[e] >= 0 /\ got[e] = <<>>
      /\ seen' = seen \cup {row} /\ raw' = raw \cup {row}
      /\ got' = [got EXCEPT ![e] = Append(got[e], today)]
      /\ UNCHANGED <<today, born, daily, closed, erased>>
  BY FirstTime DEF Ingest, LedgerRow
<1>2. AnalyticsTyped /\ Accepted /\ RawWasAccepted /\ today \in Nat
  BY AnalyticsAssumption DEF AnalyticsInv, AnalyticsTyped
<1>3. row \in UsageRow /\ row.id = e /\ row.day = today BY <1>2 DEF LedgerRow, UsageRow
<1>4. /\ got' \in [Events -> Seq(0..LastDay)] /\ got'[e] = <<today>>
      /\ \A c \in Events : c # e => got'[c] = got[c]
  <2>1. Append(got[e], today) = <<today>> BY <1>1
  <2>2. <<today>> \in Seq(0..LastDay) BY <1>2 DEF AnalyticsTyped
  <2> HIDE DEF row
  <2> QED BY <1>1, <1>2, <2>1, <2>2 DEF AnalyticsTyped
<1>5. e \notin erased BY <1>1, <1>2 DEF AnalyticsTyped
<1>6. AnalyticsTyped'
  <2>1. raw' \in SUBSET UsageRow /\ seen' \in SUBSET UsageRow BY <1>1, <1>2, <1>3 DEF AnalyticsTyped
  <2>2. \A s \in seen' : s.day <= today' BY <1>1, <1>2, <1>3 DEF AnalyticsTyped
  <2>3. \A c \in erased' : c \in Events /\ got'[c] # <<>> BY <1>1, <1>2, <1>4, <1>5 DEF AnalyticsTyped
  <2> QED BY <1>1, <1>2, <1>4, <2>1, <2>2, <2>3 DEF AnalyticsTyped
<1>7. Accepted'
  <2>1. SUFFICES ASSUME NEW c \in Events
                 PROVE  \/ got'[c] = <<>>
                        \/ \E d \in 0..today :
                             /\ got'[c] = <<d>> /\ born[c] \in 0..d
                             /\ LedgerRow(c, d) \in seen' \/ Expired(d)
                             /\ LedgerRow(c, d) \in raw' \/ Expired(d) \/ c \in erased
    BY <1>1 DEF Accepted, Expired
  <2>2. CASE c = e
    <3>1. born[e] \in 0..today BY <1>1, <1>2 DEF AnalyticsTyped
    <3> QED BY <1>1, <1>2, <1>4, <2>2, <3>1
  <2>3. CASE c # e BY <1>1, <1>2, <1>4, <2>3 DEF Accepted
  <2> QED BY <2>2, <2>3
<1>8. RawWasAccepted'
  <2>1. \A r \in raw : r.id # e BY <1>1, <1>2 DEF RawWasAccepted
  <2>2. \A r \in raw : r.id \in Events BY <1>2 DEF AnalyticsTyped, UsageRow
  <2> QED BY <1>1, <1>2, <1>3, <1>4, <1>5, <2>1, <2>2 DEF RawWasAccepted
<1>9. ClosedCount'
  <2>1. \A d \in closed : ReceivedOn(d)' = ReceivedOn(d)
    <3>1. SUFFICES ASSUME NEW d \in closed, NEW c \in Events
                   PROVE  (\E i \in DOMAIN got'[c] : got'[c][i] = d)
                            <=> (\E i \in DOMAIN got[c] : got[c][i] = d)
      BY DEF ReceivedOn
    <3>2. d # today BY <1>2 DEF AnalyticsTyped
    <3>3. CASE c = e BY <1>1, <1>4, <3>2, <3>3
    <3>4. CASE c # e BY <1>4, <3>4
    <3> QED BY <3>3, <3>4
  <2> QED BY <1>1, <1>6, <2>1, ClosedKeep
<1> QED BY <1>6, <1>7, <1>8, <1>9 DEF AnalyticsInv

LEMMA EraseKeeps ==
  ASSUME AnalyticsInv, NEW mine \in SUBSET {r.id : r \in raw}, EraseMyData(mine)
  PROVE  AnalyticsInv'
<1>1. /\ raw' = {r \in raw : r.id \notin mine} /\ seen' = seen /\ erased' = erased \cup mine
      /\ UNCHANGED <<today, born, daily, got, closed>>
  BY DEF EraseMyData, SeenAfterErasure
<1>2. AnalyticsTyped /\ Accepted /\ RawWasAccepted BY DEF AnalyticsInv
<1>3. \A e \in mine : e \in Events /\ got[e] # <<>>
  <2>1. SUFFICES ASSUME NEW r \in raw PROVE r.id \in Events /\ got[r.id] # <<>> OBVIOUS
  <2>2. r.id \in Events BY <1>2 DEF AnalyticsTyped, UsageRow
  <2>3. got[r.id] = <<r.day>> BY <1>2 DEF RawWasAccepted
  <2>4. <<r.day>> # <<>> OBVIOUS
  <2> QED BY <2>2, <2>3, <2>4
<1>4. AnalyticsTyped' BY <1>1, <1>2, <1>3 DEF AnalyticsTyped
<1>5. Accepted'
  <2>1. \A e, d : LedgerRow(e, d).id = e BY DEF LedgerRow
  <2> QED BY <1>1, <1>2, <2>1 DEF Accepted, Expired
<1>6. RawWasAccepted' BY <1>1, <1>2 DEF RawWasAccepted
<1>7. ClosedCount' BY <1>1, <1>4, ClosedKeep DEF ReceivedOn
<1> QED BY <1>4, <1>5, <1>6, <1>7 DEF AnalyticsInv

LEMMA MaintainKeeps == ASSUME AnalyticsInv, Maintain PROVE AnalyticsInv'
<1>1. /\ raw' = {r \in raw : ~(r.day < today - Retention)}
      /\ seen' = {s \in seen : ~(s.day < today - Retention)}
      /\ UNCHANGED <<today, born, daily, got, closed, erased>>
  BY DEF Maintain
<1>2. AnalyticsTyped /\ Accepted /\ RawWasAccepted BY DEF AnalyticsInv
<1>3. AnalyticsTyped' BY <1>1, <1>2 DEF AnalyticsTyped
<1>4. Accepted'
  <2>1. \A e, d : LedgerRow(e, d).day = d BY DEF LedgerRow
  <2> QED BY <1>1, <1>2, <2>1 DEF Accepted, Expired
<1>5. RawWasAccepted' BY <1>1, <1>2 DEF RawWasAccepted
<1>6. ClosedCount' BY <1>1, <1>3, ClosedKeep DEF ReceivedOn
<1> QED BY <1>3, <1>4, <1>5, <1>6 DEF AnalyticsInv

\* Only days that have not expired are rebuilt.
LEMMA RebuildKeeps ==
  ASSUME AnalyticsInv, NEW D \in SUBSET (0..LastDay), \A d \in D : ~Expired(d) /\ d <= today,
         RebuildDays(D)
  PROVE  AnalyticsInv'
<1>1. /\ daily' = [d \in DOMAIN daily |-> IF d \in D THEN Counted(d) ELSE daily[d]]
      /\ closed' = closed \cup {d \in D : d < today}
      /\ UNCHANGED <<today, born, raw, seen, got, erased>>
  BY DEF RebuildDays
<1>2. AnalyticsTyped /\ Accepted /\ RawWasAccepted /\ ClosedCount BY DEF AnalyticsInv
<1>3. \A d \in D : /\ Counted(d) = Cardinality(ReceivedOn(d) \ erased)
                   /\ Counted(d) \in 0..Cardinality(Events)
                   /\ Counted(d) \in Cardinality(ReceivedOn(d) \ erased)..Cardinality(ReceivedOn(d))
  <2>1. SUFFICES ASSUME NEW d \in D
                 PROVE  /\ Counted(d) = Cardinality(ReceivedOn(d) \ erased)
                        /\ Counted(d) \in 0..Cardinality(Events)
                        /\ Counted(d) \in Cardinality(ReceivedOn(d) \ erased)..Cardinality(ReceivedOn(d))
    OBVIOUS
  <2>2. Counted(d) = Cardinality(ReceivedOn(d) \ erased) BY CountedIs
  <2>3. Cardinality(Events) \in Nat BY AnalyticsAssumption, FS_CardinalityType
  <2> QED BY <2>2, <2>3, ReceivedFinite
<1>4. /\ daily' \in [0..LastDay -> -1..Cardinality(Events)]
      /\ \A d \in 0..LastDay : daily'[d] = IF d \in D THEN Counted(d) ELSE daily[d]
  <2>1. DOMAIN daily = 0..LastDay /\ \A d \in 0..LastDay : daily[d] \in -1..Cardinality(Events)
    BY <1>2 DEF AnalyticsTyped
  <2>2. \A d \in D : Counted(d) \in -1..Cardinality(Events)
    <3>1. 0..Cardinality(Events) \subseteq -1..Cardinality(Events)
      BY AnalyticsAssumption, FS_CardinalityType
    <3> QED BY <1>3, <3>1
  <2> QED BY <1>1, <2>1, <2>2
<1>5. AnalyticsTyped' BY <1>1, <1>2, <1>4 DEF AnalyticsTyped
<1>6. Accepted' /\ RawWasAccepted' BY <1>1, <1>2 DEF Accepted, RawWasAccepted, Expired
<1>7. ClosedCount'
  <2>1. \A d \in 0..LastDay : ReceivedOn(d)' = ReceivedOn(d) BY <1>1 DEF ReceivedOn
  <2>2. SUFFICES ASSUME NEW d \in closed'
                 PROVE  daily'[d] \in Cardinality(ReceivedOn(d) \ erased)..Cardinality(ReceivedOn(d))
    BY <1>1, <1>5, <2>1 DEF ClosedCount, AnalyticsTyped
  <2>3. d \in 0..LastDay BY <1>5 DEF AnalyticsTyped
  <2>4. CASE d \in D BY <1>3, <1>4, <2>3, <2>4
  <2>5. CASE d \notin D BY <1>1, <1>2, <1>4, <2>3, <2>5 DEF ClosedCount
  <2> QED BY <2>4, <2>5
<1> QED BY <1>5, <1>6, <1>7 DEF AnalyticsInv

LEMMA TomorrowKeeps == ASSUME AnalyticsInv, Tomorrow PROVE AnalyticsInv'
<1>1. /\ today < LastDay /\ today' = today + 1
      /\ UNCHANGED <<born, raw, seen, daily, got, closed, erased>>
  BY DEF Tomorrow
<1>2. AnalyticsTyped /\ Accepted /\ RawWasAccepted /\ today \in Nat
  BY AnalyticsAssumption DEF AnalyticsInv, AnalyticsTyped
<1>3. AnalyticsTyped'
  <2>1. today' \in 0..LastDay BY <1>1, <1>2, AnalyticsAssumption
  <2>2. \A s \in seen : s.day \in Nat BY <1>2 DEF AnalyticsTyped, UsageRow
  <2>3. \A s \in seen' : s.day <= today' BY <1>1, <1>2, <2>2 DEF AnalyticsTyped
  <2>4. \A e \in Events : born'[e] <= today' BY <1>1, <1>2 DEF AnalyticsTyped
  <2>5. \A d \in closed' : d < today' BY <1>1, <1>2 DEF AnalyticsTyped
  <2> QED BY <1>1, <1>2, <2>1, <2>3, <2>4, <2>5 DEF AnalyticsTyped
<1>4. Accepted'
  <2>1. \A d \in 0..today : d \in 0..today' /\ (Expired(d) => Expired(d)')
    BY <1>1, <1>2, AnalyticsAssumption DEF Expired
  <2> QED BY <1>1, <1>2, <2>1 DEF Accepted
<1>5. RawWasAccepted' BY <1>1, <1>2 DEF RawWasAccepted
<1>6. ClosedCount' BY <1>1, <1>3, ClosedKeep DEF ReceivedOn
<1> QED BY <1>3, <1>4, <1>5, <1>6 DEF AnalyticsInv

LEMMA AnalyticsInductive == AnalyticsInv /\ AnalyticsNext => AnalyticsInv'
<1> SUFFICES ASSUME AnalyticsInv, AnalyticsNext PROVE AnalyticsInv' OBVIOUS
<1>1. today \in 0..LastDay /\ today \in Nat
  BY AnalyticsAssumption DEF AnalyticsInv, AnalyticsTyped
<1>2. ASSUME NEW days \in 1..Rebuildable, RebuildRecent(days) PROVE AnalyticsInv'
  <2>1. RebuildDays(RecentDays(days)) BY <1>2 DEF RebuildRecent
  <2>2. RecentDays(days) \in SUBSET (0..LastDay) BY DEF RecentDays
  <2>3. \A d \in RecentDays(days) : ~Expired(d) /\ d <= today
    BY <1>1, AnalyticsAssumption DEF RecentDays, Expired
  <2> QED BY <2>1, <2>2, <2>3, RebuildKeeps
<1>3. ASSUME RebuildYesterday PROVE AnalyticsInv'
  <2>1. today > 0 /\ RebuildDays({today - 1}) BY <1>3 DEF RebuildYesterday
  <2>2. {today - 1} \in SUBSET (0..LastDay)
    <3>1. today - 1 \in 0..LastDay BY <1>1, <2>1, AnalyticsAssumption
    <3> QED BY <3>1
  <2>3. \A d \in {today - 1} : ~Expired(d) /\ d <= today
    BY <1>1, AnalyticsAssumption DEF Expired
  <2> QED BY <2>1, <2>2, <2>3, RebuildKeeps
<1> QED BY <1>2, <1>3, HappensKeeps, IngestKeeps, EraseKeeps, MaintainKeeps, TomorrowKeeps
        DEF AnalyticsNext

LEMMA AnalyticsInitially == ASSUME AnalyticsInit PROVE AnalyticsInv
<1>1. Cardinality(Events) \in Nat BY AnalyticsAssumption, FS_CardinalityType
<1>2. AnalyticsTyped BY <1>1, AnalyticsAssumption DEF AnalyticsInit, AnalyticsTyped
<1>3. Accepted /\ RawWasAccepted /\ ClosedCount BY DEF AnalyticsInit, Accepted, RawWasAccepted, ClosedCount
<1> QED BY <1>2, <1>3 DEF AnalyticsInv

LEMMA AnalyticsTypes == ASSUME AnalyticsInv PROVE AnalyticsTypeOK /\ EventsCountOnce
<1>1. AnalyticsTyped /\ Accepted /\ RawWasAccepted /\ ClosedCount BY DEF AnalyticsInv
<1>2. \A e \in Events : Len(got[e]) <= 1
  <2>1. Len(<<>>) = 0 /\ \A d : Len(<<d>>) = 1 OBVIOUS
  <2>2. SUFFICES ASSUME NEW e \in Events PROVE Len(got[e]) <= 1 OBVIOUS
  <2>3. CASE got[e] = <<>> BY <2>1, <2>3
  <2>4. ASSUME NEW d, got[e] = <<d>> PROVE Len(got[e]) <= 1 BY <2>1, <2>4
  <2> QED BY <1>1, <2>3, <2>4 DEF Accepted
<1>3. \A r \in raw : r.id \in Events /\ r.day \in 0..today
  <2>1. SUFFICES ASSUME NEW r \in raw PROVE r.id \in Events /\ r.day \in 0..today OBVIOUS
  <2>2. r.id \in Events /\ got[r.id] = <<r.day>> BY <1>1 DEF AnalyticsTyped, UsageRow, RawWasAccepted
  <2>3. PICK d \in 0..today : got[r.id] = <<d>> BY <1>1, <2>2 DEF Accepted
  <2>4. d = r.day BY <2>2, <2>3
  <2> QED BY <2>2, <2>4
<1>4. \A s \in seen : s.id \in Events /\ s.day \in 0..today
  BY <1>1, AnalyticsAssumption DEF AnalyticsTyped, UsageRow
<1>5. AnalyticsTypeOK BY <1>1, <1>3, <1>4 DEF AnalyticsTyped, AnalyticsTypeOK
<1>6. \A d : ReceivedOn(d) = {e \in Events : d \in Range(got[e])} BY DEF ReceivedOn, Range
<1>7. EventsCountOnce
  <2>1. \A d \in closed : daily[d] \in Cardinality(ReceivedOn(d) \ erased)..Cardinality(ReceivedOn(d))
    BY <1>1 DEF ClosedCount
  <2> QED BY <1>1, <1>2, <1>6, <2>1 DEF EventsCountOnce, RawWasAccepted
<1> QED BY <1>5, <1>7
-----------------------------------------------------------------------------
(***************************************************************************)
(* Sums over finite sets, for the counts of campaigns: SumFunction takes   *)
(* the elements of the set one by one, in an order of its own.             *)
(***************************************************************************)

Some(s) == CHOOSE x \in s : TRUE
SumsTo(I, f, S) ==
  I = [s \in SUBSET S |-> IF s = {} THEN 0 ELSE f[Some(s)] + I[s \ {Some(s)}]]


SumOf(f, S) == (CHOOSE I : SumsTo(I, f, S))[S]

LEMMA SumUnfolds ==
  ASSUME NEW f, NEW S
  PROVE  SumFunctionOnSet(f, S) = SumOf(f, S)
BY Zenon DEF SumFunctionOnSet, FoldFunctionOnSet, MapThenFoldSet, SumOf, SumsTo, Some

\* Induction over the subsets of a finite set.
LEMMA SubsetInduction ==
  ASSUME NEW S, IsFiniteSet(S), NEW T,
         \A s \in SUBSET S : (\A u \in SUBSET s : u # s => u \in T) => s \in T
  PROVE  \A s \in SUBSET S : s \in T
<1> DEFINE Bad == {s \in SUBSET S : s \notin T}
<1> SUFFICES ASSUME Bad # {} PROVE FALSE OBVIOUS
<1>1. /\ Bad \subseteq FiniteSubsetsOf(S) /\ Bad # {}
      /\ IsWellFoundedOn(StrictSubsetOrdering(S), FiniteSubsetsOf(S))
  BY FS_Subset, FS_StrictSubsetOrderingWellFounded DEF FiniteSubsetsOf
<1> HIDE DEF Bad
<1>2. PICK s \in Bad : \A u \in Bad : <<u, s>> \notin StrictSubsetOrdering(S)
  <2>1. \E s \in Bad : \A u \in Bad : ~(<<u, s>> \in StrictSubsetOrdering(S))
    BY ONLY <1>1, WFMin, Zenon
  <2> QED BY <2>1
<1>3. ASSUME NEW u \in SUBSET s, u # s PROVE u \in T
  <2>1. s \in SUBSET S /\ u \in SUBSET S BY DEF Bad
  <2>2. <<u, s>> \in StrictSubsetOrdering(S) BY <1>3, <2>1 DEF StrictSubsetOrdering
  <2> QED BY <1>2, <2>1, <2>2 DEF Bad
<1>4. s \in SUBSET S /\ s \notin T BY <1>2 DEF Bad
<1> QED BY <1>3, <1>4

\* The recursion has one solution.
LEMMA SumsAgree ==
  ASSUME NEW f, NEW S, NEW R, IsFiniteSet(S), NEW I, NEW J, SumsTo(I, f, S), SumsTo(J, f, R)
  PROVE  \A s \in SUBSET S : s \subseteq R => I[s] = J[s]
<1> DEFINE T == {s \in SUBSET S : s \subseteq R => I[s] = J[s]}
<1>1. ASSUME NEW s \in SUBSET S, \A u \in SUBSET s : u # s => u \in T PROVE s \in T
  <2>1. CASE s = {} BY <2>1 DEF SumsTo
  <2>2. CASE s # {} /\ s \subseteq R
    <3>1. Some(s) \in s BY <2>2 DEF Some
    <3>2. s \ {Some(s)} \in T BY <1>1, <3>1
    <3>3. /\ I[s] = f[Some(s)] + I[s \ {Some(s)}]
          /\ J[s] = f[Some(s)] + J[s \ {Some(s)}]
      BY <2>2 DEF SumsTo
    <3> QED BY <2>2, <3>2, <3>3
  <2> QED BY <2>1, <2>2
<1>2. \A s \in SUBSET S : s \in T
  <2> HIDE DEF T
  <2> QED BY <1>1, SubsetInduction
<1> QED BY <1>2

\* It has one for every finite set.
LEMMA SumExists ==
  ASSUME NEW f, NEW S, IsFiniteSet(S)
  PROVE  \A s \in SUBSET S : \E I : SumsTo(I, f, s)
<1> DEFINE T == {s \in SUBSET S : \E I : SumsTo(I, f, s)}
<1>1. ASSUME NEW s \in SUBSET S, \A u \in SUBSET s : u # s => u \in T PROVE s \in T
  <2> DEFINE L == [u \in SUBSET s |->
                     IF u = {} THEN 0 ELSE f[Some(u)] + SumOf(f, u \ {Some(u)})]
  <2>1. ASSUME NEW u \in SUBSET s, u # s PROVE L[u] = SumOf(f, u)
    <3>1. PICK I : SumsTo(I, f, u) /\ I[u] = SumOf(f, u) BY <1>1, <2>1 DEF SumOf
    <3>2. CASE u = {} BY <3>1, <3>2 DEF SumsTo
    <3>3. CASE u # {}
      <4> DEFINE v == u \ {Some(u)}
      <4>1. Some(u) \in u BY <3>3 DEF Some
      <4>2. v \in SUBSET s /\ v # s /\ v \in SUBSET u BY <4>1
      <4>3. PICK J : SumsTo(J, f, v) /\ J[v] = SumOf(f, v) BY <1>1, <4>2 DEF SumOf
      <4>4. IsFiniteSet(u) BY FS_Subset
      <4>5. I[v] = J[v]
        <5> HIDE DEF v
        <5>1. \A w \in SUBSET u : w \subseteq v => I[w] = J[w]
          BY <3>1, <4>3, <4>4, SumsAgree
        <5> QED BY <4>2, <5>1
      <4>6. I[u] = f[Some(u)] + I[v] BY <3>1, <3>3 DEF SumsTo
      <4> QED BY <3>1, <3>3, <4>3, <4>5, <4>6
    <3> QED BY <3>2, <3>3
  <2>2. \A u \in SUBSET s : u # {} => Some(u) \in u /\ u \ {Some(u)} # s BY DEF Some
  <2>3. \A u \in SUBSET s : u # {} => L[u \ {Some(u)}] = SumOf(f, u \ {Some(u)})
    BY <2>1, <2>2
  <2>4. SumsTo(L, f, s) BY <2>3 DEF SumsTo
  <2> HIDE DEF L
  <2> QED BY <2>4
<1>2. \A s \in SUBSET S : s \in T
  <2> HIDE DEF T
  <2> QED BY <1>1, SubsetInduction
<1> QED BY <1>2

\* The sum over a set, with any of its elements taken first.
LEMMA SumTakesSome ==
  ASSUME NEW f, NEW S, IsFiniteSet(S)
  PROVE  /\ SumOf(f, {}) = 0
         /\ \A s \in SUBSET S : s # {} => SumOf(f, s) = f[Some(s)] + SumOf(f, s \ {Some(s)})
<1>1. ASSUME NEW s \in SUBSET S PROVE SumsTo(CHOOSE I : SumsTo(I, f, s), f, s)
  BY SumExists, Zenon
<1>2. SumOf(f, {}) = 0
  <2>1. PICK I : SumsTo(I, f, {}) /\ I[{}] = SumOf(f, {}) BY <1>1 DEF SumOf
  <2> QED BY <2>1 DEF SumsTo
<1>3. ASSUME NEW s \in SUBSET S, s # {}
      PROVE  SumOf(f, s) = f[Some(s)] + SumOf(f, s \ {Some(s)})
  <2> DEFINE v == s \ {Some(s)}
  <2>1. v \in SUBSET s /\ v \in SUBSET S /\ IsFiniteSet(s) /\ v \subseteq v BY FS_Subset
  <2>2. PICK I : SumsTo(I, f, s) /\ I[s] = SumOf(f, s) BY <1>1 DEF SumOf
  <2>3. PICK J : SumsTo(J, f, v) /\ J[v] = SumOf(f, v) BY <1>1, <2>1 DEF SumOf
  <2>4. I[s] = f[Some(s)] + I[v] BY <1>3, <2>2 DEF SumsTo
  <2> HIDE DEF v
  <2>5. \A w \in SUBSET s : w \subseteq v => I[w] = J[w]
    BY <2>1, <2>2, <2>3, SumsAgree
  <2> QED BY <2>1, <2>2, <2>3, <2>4, <2>5 DEF v
<1> QED BY <1>2, <1>3

\* Sums of naturals are naturals, the order of summation is free, and sums add up.
LEMMA SumNatural ==
  ASSUME NEW f, NEW S, IsFiniteSet(S), \A x \in S : f[x] \in Nat
  PROVE  \A s \in SUBSET S : SumOf(f, s) \in Nat
<1> DEFINE T == {s \in SUBSET S : SumOf(f, s) \in Nat}
<1>1. ASSUME NEW s \in SUBSET S, \A u \in SUBSET s : u # s => u \in T PROVE s \in T
  <2>1. CASE s = {}
    <3>1. SumOf(f, {}) = 0 BY SumTakesSome
    <3> QED BY <2>1, <3>1
  <2>2. CASE s # {}
    <3>1. Some(s) \in s BY <2>2 DEF Some
    <3>2. s \ {Some(s)} \in T BY <1>1, <3>1
    <3>3. SumOf(f, s) = f[Some(s)] + SumOf(f, s \ {Some(s)}) BY <2>2, SumTakesSome
    <3> QED BY <3>1, <3>2, <3>3
  <2> QED BY <2>1, <2>2
<1>2. \A s \in SUBSET S : s \in T
  <2> HIDE DEF T
  <2> QED BY <1>1, SubsetInduction
<1> QED BY <1>2

LEMMA SumTakesAny ==
  ASSUME NEW f, NEW S, IsFiniteSet(S), \A x \in S : f[x] \in Nat
  PROVE  \A s \in SUBSET S : \A x \in s : SumOf(f, s) = f[x] + SumOf(f, s \ {x})
<1> DEFINE T == {s \in SUBSET S : \A x \in s : SumOf(f, s) = f[x] + SumOf(f, s \ {x})}
<1>1. ASSUME NEW s \in SUBSET S, \A u \in SUBSET s : u # s => u \in T PROVE s \in T
  <2>1. SUFFICES ASSUME NEW x \in s PROVE SumOf(f, s) = f[x] + SumOf(f, s \ {x})
    OBVIOUS
  <2> DEFINE c == Some(s)
  <2>2. c \in s BY DEF Some
  <2>3. SumOf(f, s) = f[c] + SumOf(f, s \ {c}) BY SumTakesSome
  <2> HIDE DEF c
  <2>4. CASE x # c
    <3>1. s \ {c} \in T /\ s \ {x} \in T BY <1>1, <2>2
    <3>2. SumOf(f, s \ {c}) = f[x] + SumOf(f, (s \ {c}) \ {x}) BY <2>4, <3>1
    <3>3. SumOf(f, s \ {x}) = f[c] + SumOf(f, (s \ {x}) \ {c}) BY <2>2, <2>4, <3>1
    <3>4. (s \ {c}) \ {x} = (s \ {x}) \ {c} /\ (s \ {x}) \ {c} \in SUBSET S OBVIOUS
    <3>5. SumOf(f, (s \ {x}) \ {c}) \in Nat /\ f[x] \in Nat /\ f[c] \in Nat
      BY <2>2, <3>4, SumNatural
    <3> QED BY <2>3, <3>2, <3>3, <3>4, <3>5
  <2> QED BY <2>3, <2>4
<1>2. \A s \in SUBSET S : s \in T
  <2> HIDE DEF T
  <2> QED BY <1>1, SubsetInduction
<1> QED BY <1>2

LEMMA SumAdds ==
  ASSUME NEW f, NEW g, NEW h, NEW S, IsFiniteSet(S),
         \A x \in S : f[x] \in Nat /\ g[x] \in Nat /\ h[x] = f[x] + g[x]
  PROVE  \A s \in SUBSET S : SumOf(h, s) = SumOf(f, s) + SumOf(g, s)
<1> DEFINE T == {s \in SUBSET S : SumOf(h, s) = SumOf(f, s) + SumOf(g, s)}
<1>1. ASSUME NEW s \in SUBSET S, \A u \in SUBSET s : u # s => u \in T PROVE s \in T
  <2>1. CASE s = {} BY <2>1, SumTakesSome
  <2>2. CASE s # {}
    <3>1. Some(s) \in s BY <2>2 DEF Some
    <3>2. s \ {Some(s)} \in T /\ s \ {Some(s)} \in SUBSET S BY <1>1, <3>1
    <3>3. SumOf(f, s \ {Some(s)}) \in Nat /\ SumOf(g, s \ {Some(s)}) \in Nat BY <3>2, SumNatural
    <3>4. /\ SumOf(f, s) = f[Some(s)] + SumOf(f, s \ {Some(s)})
          /\ SumOf(g, s) = g[Some(s)] + SumOf(g, s \ {Some(s)})
          /\ SumOf(h, s) = h[Some(s)] + SumOf(h, s \ {Some(s)})
      BY <2>2, SumTakesSome
    <3> QED BY <2>2, <3>1, <3>2, <3>3, <3>4
  <2> QED BY <2>1, <2>2
<1>2. \A s \in SUBSET S : s \in T
  <2> HIDE DEF T
  <2> QED BY <1>1, SubsetInduction
<1> QED BY <1>2

LEMMA SumZero ==
  ASSUME NEW f, NEW S, IsFiniteSet(S), \A x \in S : f[x] = 0
  PROVE  SumOf(f, S) = 0
<1>1. SumOf(f, S) = SumOf(f, S) + SumOf(f, S) /\ SumOf(f, S) \in Nat
  BY SumAdds, SumNatural
<1>2. PICK n \in Nat : n = SumOf(f, S) BY <1>1
<1>3. n = n + n BY <1>1, <1>2
<1>4. \A k \in Nat : k = k + k => k = 0 OBVIOUS
<1> QED BY <1>2, <1>3, <1>4

LEMMA SumSame ==
  ASSUME NEW f, NEW h, NEW S, IsFiniteSet(S), \A x \in S : h[x] = f[x]
  PROVE  SumOf(h, S) = SumOf(f, S)
<1> DEFINE T == {s \in SUBSET S : SumOf(h, s) = SumOf(f, s)}
<1>1. ASSUME NEW s \in SUBSET S, \A u \in SUBSET s : u # s => u \in T PROVE s \in T
  <2>1. CASE s = {}
    <3>1. SumOf(f, {}) = 0 /\ SumOf(h, {}) = 0 BY SumTakesSome
    <3> QED BY <2>1, <3>1
  <2>2. CASE s # {}
    <3>1. Some(s) \in s BY <2>2 DEF Some
    <3>2. s \ {Some(s)} \in T BY <1>1, <3>1
    <3>3. SumOf(f, s) = f[Some(s)] + SumOf(f, s \ {Some(s)}) BY <2>2, SumTakesSome
    <3>4. SumOf(h, s) = h[Some(s)] + SumOf(h, s \ {Some(s)}) BY <2>2, SumTakesSome
    <3> QED BY <3>1, <3>2, <3>3, <3>4
  <2> QED BY <2>1, <2>2
<1>2. \A s \in SUBSET S : s \in T
  <2> HIDE DEF T
  <2> QED BY <1>1, SubsetInduction
<1> QED BY <1>2

LEMMA SumTyped ==
  ASSUME NEW D, IsFiniteSet(D), NEW f \in [D -> Nat]
  PROVE  SumFunction(f) \in Nat
BY SumUnfolds, SumNatural DEF SumFunction

LEMMA SumPlus ==
  ASSUME NEW D, IsFiniteSet(D), NEW f \in [D -> Nat], NEW g \in [D -> Nat], NEW h \in [D -> Nat],
         \A x \in D : h[x] = f[x] + g[x]
  PROVE  SumFunction(h) = SumFunction(f) + SumFunction(g)
<1>1. SumOf(h, D) = SumOf(f, D) + SumOf(g, D) BY SumAdds
<1> QED BY <1>1, SumUnfolds DEF SumFunction

LEMMA SumNothing ==
  ASSUME NEW D, IsFiniteSet(D), NEW f \in [D -> Nat], \A x \in D : f[x] = 0
  PROVE  SumFunction(f) = 0
<1>1. SumOf(f, D) = 0 BY SumZero
<1> QED BY <1>1, SumUnfolds DEF SumFunction

\* One value grows.
LEMMA SumGrows ==
  ASSUME NEW D, IsFiniteSet(D), NEW f \in [D -> Nat], NEW g \in [D -> Nat], NEW x \in D, NEW k \in Nat,
         \A y \in D : g[y] = IF y = x THEN f[y] + k ELSE f[y]
  PROVE  SumFunction(g) = SumFunction(f) + k
<1> DEFINE e == [y \in D |-> IF y = x THEN k ELSE 0]
<1>1. e \in [D -> Nat] /\ e[x] = k /\ \A y \in D \ {x} : e[y] = 0 OBVIOUS
<1>2. \A y \in D : g[y] = f[y] + e[y] OBVIOUS
<1> HIDE DEF e
<1>3. SumFunction(g) = SumFunction(f) + SumFunction(e) BY <1>1, <1>2, SumPlus
<1>4. SumOf(e, D) = k
  <2>1. D \in SUBSET D /\ IsFiniteSet(D \ {x}) BY FS_Subset
  <2>2. SumOf(e, D) = e[x] + SumOf(e, D \ {x}) BY <1>1, <2>1, SumTakesAny
  <2>3. SumOf(e, D \ {x}) = 0 BY <1>1, <2>1, SumZero
  <2> QED BY <1>1, <2>2, <2>3
<1>5. SumFunction(e) = k BY <1>1, <1>4, SumUnfolds DEF SumFunction
<1> QED BY <1>3, <1>5

\* A sequence grows.
Rows(s) == [i \in DOMAIN s |-> s[i]]

LEMMA SumAppends ==
  ASSUME NEW s \in Seq(Nat), NEW k \in Nat
  PROVE  SumFunction(Rows(Append(s, k))) = SumFunction(Rows(s)) + k
<1> DEFINE n == Len(s)
           a == Append(s, k)
<1>1. n \in Nat /\ DOMAIN s = 1..n OBVIOUS
<1>2. /\ DOMAIN a = 1..(n + 1) /\ a[n + 1] = k
      /\ \A i \in 1..n : a[i] = s[i]
  OBVIOUS
<1>3. Rows(a) \in [1..(n + 1) -> Nat] /\ Rows(s) \in [1..n -> Nat]
      /\ Rows(a)[n + 1] = k /\ \A i \in 1..n : Rows(a)[i] = s[i] /\ Rows(s)[i] = s[i]
  BY <1>1, <1>2 DEF Rows
<1> HIDE DEF n, a
<1>4. IsFiniteSet(1..n) /\ IsFiniteSet(1..(n + 1)) BY <1>1, FS_Interval
<1>5. n + 1 \in 1..(n + 1) /\ (1..(n + 1)) \ {n + 1} = 1..n BY <1>1
<1>6. SumOf(Rows(a), 1..(n + 1)) = k + SumOf(Rows(a), 1..n)
  <2>1. 1..(n + 1) \in SUBSET (1..(n + 1)) OBVIOUS
  <2>2. \A i \in 1..(n + 1) : Rows(a)[i] \in Nat BY <1>3
  <2>3. \A t \in SUBSET (1..(n + 1)) : \A x \in t :
          SumOf(Rows(a), t) = Rows(a)[x] + SumOf(Rows(a), t \ {x})
    BY <1>4, <2>2, SumTakesAny
  <2> QED BY <1>3, <1>5, <2>1, <2>3
<1>7. SumOf(Rows(a), 1..n) = SumOf(Rows(s), 1..n)
  <2>1. \A i \in 1..n : Rows(a)[i] = Rows(s)[i] BY <1>3
  <2> QED BY <1>4, <2>1, SumSame
<1>8. SumOf(Rows(s), 1..n) \in Nat BY <1>3, <1>4, SumNatural
<1>9. /\ SumFunction(Rows(a)) = SumOf(Rows(a), 1..(n + 1))
       /\ SumFunction(Rows(s)) = SumOf(Rows(s), 1..n)
  BY <1>3, SumUnfolds DEF SumFunction
<1> QED BY <1>6, <1>7, <1>8, <1>9 DEF a

-----------------------------------------------------------------------------
(***************************************************************************)
(* A campaign goes out once, for any senders, users and campaigns.  What a *)
(* user has of a campaign grows by what a send puts there and the event    *)
(* announces; a send has read no count, so that one to nobody leaves the   *)
(* count of the last that reached anybody.  Where requests do not overlap, *)
(* the campaign of the open one has not been announced yet.                *)
(***************************************************************************)

CampaignRow == [status : {"draft", "sent"}, count : Nat]
SendRequest == [op : {"idle", "send"}, on : Campaigns \cup {"none"}, count : {0},
                to : [Users -> Nat] \cup {<<>>}]

OutTyped ==
  /\ campaign \in [Campaigns -> CampaignRow]
  /\ inbox \in [Users -> [Campaigns -> Nat]]
  /\ unread \in [Users -> Nat] /\ replies \in [Users -> Nat]
  /\ announced \in [Campaigns -> Seq(Nat)]
  /\ feedback \in [Users -> {"none", "open", "replied"}]
  /\ outTx \in [Senders -> SendRequest]
  /\ \A s \in Senders : outTx[s].op = "send" =>
        outTx[s].on \in Campaigns /\ outTx[s].to \in [Users -> Nat]

\* An unread notification is one of a campaign or of a reply.
UnreadCounted == \A u \in Users : unread[u] <= replies[u] + SumFunction(inbox[u])

\* The sends that reached anybody, and: k is what the last of them announced.
Full(sends) == {i \in DOMAIN sends : sends[i] > 0}

LastFull(sends, k) ==
  IF Full(sends) = {} THEN k = 0
  ELSE \E i \in Full(sends) : k = sends[i] /\ \A j \in Full(sends) : j <= i

\* What campaign c has sent is what it has announced.
SentAsAnnounced(c) ==
  /\ Delivered(c) = SumFunction(Rows(announced[c]))
  /\ campaign[c].status = IF announced[c] = <<>> THEN "draft" ELSE "sent"
  /\ LastFull(announced[c], campaign[c].count)

\* The one open request sends what was not sent.
SendsFirst ==
  /\ \A s, r \in Senders : outTx[s] # NoOutTx /\ outTx[r] # NoOutTx => s = r
  /\ \A s \in Senders : outTx[s].op = "send" => announced[outTx[s].on] = <<>>
  /\ \A c \in Campaigns : Len(announced[c]) <= 1

OutreachInv ==
  /\ OutTyped /\ UnreadCounted /\ \A c \in Campaigns : SentAsAnnounced(c)
  /\ serial => SendsFirst

LEMMA NoSendRequest == NoOutTx \in SendRequest /\ NoOutTx.op = "idle"
BY DEF NoOutTx, SendRequest

LEMMA FewUsers == IsFiniteSet(Users) /\ IsFiniteSet(Campaigns)
BY OutreachAssumption

LEMMA AudienceTyped == \A audience \in Audiences : audience \in [Users -> Nat]
BY DEF Audiences

\* A send to somebody is the last full one, a send to nobody leaves the last one.
LEMMA LastAppends ==
  ASSUME NEW sends \in Seq(Nat), NEW k \in Nat, NEW n \in Nat, LastFull(sends, k)
  PROVE  LastFull(Append(sends, n), IF n = 0 THEN k ELSE n)
<1> DEFINE m == Len(sends)
           new == Append(sends, n)
<1>1. m \in Nat /\ DOMAIN sends = 1..m /\ \A i \in 1..m : sends[i] \in Nat OBVIOUS
<1>2. DOMAIN new = 1..(m + 1) /\ new[m + 1] = n /\ \A i \in 1..m : new[i] = sends[i]
  OBVIOUS
<1> HIDE DEF m, new
<1>3. CASE n = 0
  <2>1. Full(new) = Full(sends) BY <1>1, <1>2, <1>3 DEF Full
  <2>2. \A i \in Full(sends) : new[i] = sends[i] BY <1>1, <1>2 DEF Full
  <2>3. LastFull(new, k) BY <2>1, <2>2 DEF LastFull
  <2> QED BY <1>3, <2>3 DEF new
<1>4. CASE n # 0
  <2>1. m + 1 \in Full(new) BY <1>1, <1>2, <1>4 DEF Full
  <2>2. \A j \in Full(new) : j <= m + 1 BY <1>1, <1>2 DEF Full
  <2>3. LastFull(new, n) BY <1>2, <2>1, <2>2 DEF LastFull
  <2> QED BY <1>4, <2>3 DEF new
<1> QED BY <1>3, <1>4

\* A request that begins: its campaign is not sent, and what it read of it is no count.
LEMMA SendBegins ==
  ASSUME OutreachInv, NEW s \in Senders, NEW c \in Campaigns, NEW audience \in Audiences,
         BeginSend(s, c, audience)
  PROVE  OutreachInv'
<1> DEFINE t == [op |-> "send", on |-> c, count |-> campaign[c].count, to |-> audience]
<1>1. /\ outTx' = [outTx EXCEPT ![s] = t] /\ campaign[c].status # "sent"
      /\ UNCHANGED <<serial, blocks, campaign, inbox, unread, announced, feedback, replies>>
      /\ serial => \A r \in DOMAIN outTx : outTx[r] = NoOutTx
  BY DEF BeginSend, MayBegin, Sendable
<1>2. OutTyped /\ UnreadCounted BY DEF OutreachInv
<1>a. announced[c] = <<>> /\ campaign[c].count = 0
  <2>1. SentAsAnnounced(c) BY DEF OutreachInv
  <2>2. announced[c] = <<>> BY <1>1, <2>1 DEF SentAsAnnounced
  <2>3. Full(<<>>) = {} BY DEF Full
  <2> QED BY <2>1, <2>2, <2>3 DEF SentAsAnnounced, LastFull
<1>3. t \in SendRequest /\ t.op = "send" /\ t.on = c /\ t.to \in [Users -> Nat]
  BY <1>a, AudienceTyped DEF SendRequest
<1> HIDE DEF t
<1>4. \A r \in Senders : outTx'[r] = IF r = s THEN t ELSE outTx[r] BY <1>1, <1>2 DEF OutTyped
<1>5. outTx' \in [Senders -> SendRequest] BY <1>1, <1>2, <1>3 DEF OutTyped
<1>6. OutTyped' BY <1>1, <1>2, <1>3, <1>4, <1>5 DEF OutTyped
<1>7. UnreadCounted' BY <1>1, <1>2 DEF UnreadCounted
<1>8. \A d \in Campaigns : SentAsAnnounced(d)'
  BY <1>1 DEF OutreachInv, SentAsAnnounced, Delivered, Rows
<1>9. ASSUME serial' PROVE SendsFirst'
  <2>1. \A r \in Senders : outTx[r] = NoOutTx BY <1>1, <1>2, <1>9 DEF OutTyped
  <2>2. \A r \in Senders : outTx'[r] # NoOutTx => r = s BY <1>4, <2>1
  <2>4. \A r \in Senders : outTx'[r].op = "send" => announced'[outTx'[r].on] = <<>>
    BY <1>1, <1>3, <1>4, <1>a, <2>1, NoSendRequest
  <2>5. \A d \in Campaigns : Len(announced'[d]) <= 1 BY <1>1, <1>9 DEF OutreachInv, SendsFirst
  <2> QED BY <2>2, <2>4, <2>5 DEF SendsFirst
<1> QED BY <1>6, <1>7, <1>8, <1>9 DEF OutreachInv

\* One transaction delivers, counts and announces.
LEMMA SendCommits ==
  ASSUME OutreachInv, NEW s \in Senders, CommitSend(s)
  PROVE  OutreachInv'
<1>1. OutTyped /\ UnreadCounted BY DEF OutreachInv
<1>2. outTx[s].op = "send" BY DEF CommitSend
<1>3. PICK c \in Campaigns, to \in [Users -> Nat] : c = outTx[s].on /\ to = outTx[s].to
  BY <1>1, <1>2 DEF OutTyped
<1> DEFINE n == SumFunction(to)
           old == announced[c]
           new == Append(old, n)
           row == [status |-> "sent", count |-> IF n = 0 THEN campaign[c].count ELSE n]
<1>a. outTx[s].count = 0 /\ campaign[c] \in CampaignRow BY <1>1 DEF OutTyped, SendRequest
<1>b. n \in Nat BY FewUsers, SumTyped
<1>4. /\ campaign' = [campaign EXCEPT ![c] = row]
      /\ inbox' = [u \in Users |-> [inbox[u] EXCEPT ![c] = @ + to[u]]]
      /\ unread' = [u \in Users |-> unread[u] + to[u]]
      /\ announced' = [announced EXCEPT ![c] = new]
      /\ outTx' = [outTx EXCEPT ![s] = NoOutTx]
      /\ UNCHANGED <<serial, blocks, feedback, replies>>
  <2> HIDE DEF n
  <2>1. campaign' = [campaign EXCEPT ![c] =
          [status |-> "sent", count |-> WrittenBack(campaign[c].count, outTx[s].count, n)]]
    BY <1>3 DEF CommitSend, n
  <2>2. WrittenBack(campaign[c].count, outTx[s].count, n) = IF n = 0 THEN campaign[c].count ELSE n
    BY <1>a DEF WrittenBack
  <2>3. announced' = [announced EXCEPT ![c] = new] BY <1>3 DEF CommitSend, n
  <2> QED BY <1>3, <2>1, <2>2, <2>3 DEF CommitSend, Notified
<1>5. n \in Nat /\ row \in CampaignRow
  <2> HIDE DEF n
  <2> QED BY <1>a, <1>b DEF CampaignRow
<1>6. /\ old \in Seq(Nat) /\ new \in Seq(Nat) /\ Len(old) \in Nat /\ Len(new) = Len(old) + 1
      /\ new[Len(old) + 1] = n
  <2>1. old \in Seq(Nat) BY <1>1 DEF OutTyped
  <2> HIDE DEF n, old
  <2> QED BY <1>5, <2>1
<1> HIDE DEF n, old, new, row
<1>7. /\ inbox' \in [Users -> [Campaigns -> Nat]]
      /\ \A u \in Users : \A d \in Campaigns :
           inbox'[u][d] = IF d = c THEN inbox[u][d] + to[u] ELSE inbox[u][d]
  <2>1. ASSUME NEW u \in Users
        PROVE  /\ [inbox[u] EXCEPT ![c] = @ + to[u]] \in [Campaigns -> Nat]
               /\ \A d \in Campaigns : [inbox[u] EXCEPT ![c] = @ + to[u]][d] =
                    IF d = c THEN inbox[u][d] + to[u] ELSE inbox[u][d]
    <3>1. inbox[u] \in [Campaigns -> Nat] /\ to[u] \in Nat BY <1>1 DEF OutTyped
    <3> QED BY <3>1
  <2> QED BY <1>4, <2>1
<1>8. /\ announced' \in [Campaigns -> Seq(Nat)] /\ campaign' \in [Campaigns -> CampaignRow]
      /\ \A d \in Campaigns : /\ announced'[d] = IF d = c THEN new ELSE announced[d]
                              /\ campaign'[d] = IF d = c THEN row ELSE campaign[d]
  BY <1>1, <1>4, <1>5, <1>6 DEF OutTyped
<1>9. /\ outTx' \in [Senders -> SendRequest]
      /\ \A r \in Senders : outTx'[r] = IF r = s THEN NoOutTx ELSE outTx[r]
  BY <1>1, <1>4, NoSendRequest DEF OutTyped
<1>10. unread' \in [Users -> Nat] /\ \A u \in Users : unread'[u] = unread[u] + to[u]
  BY <1>1, <1>4, <1>6 DEF OutTyped
<1>11. OutTyped'
  <2>1. \A r \in Senders : outTx'[r].op = "send" =>
           outTx'[r].on \in Campaigns /\ outTx'[r].to \in [Users -> Nat]
    BY <1>1, <1>9, NoSendRequest DEF OutTyped
  <2>2. replies' \in [Users -> Nat] /\ feedback' \in [Users -> {"none", "open", "replied"}]
    BY <1>1, <1>4 DEF OutTyped
  <2> QED BY <1>7, <1>8, <1>9, <1>10, <2>1, <2>2 DEF OutTyped
<1>12. UnreadCounted'
  <2>1. SUFFICES ASSUME NEW u \in Users PROVE unread'[u] <= replies'[u] + SumFunction(inbox'[u])
    BY DEF UnreadCounted
  <2>2. inbox[u] \in [Campaigns -> Nat] /\ inbox'[u] \in [Campaigns -> Nat] /\ to[u] \in Nat
    BY <1>1, <1>6, <1>7 DEF OutTyped
  <2>3. SumFunction(inbox'[u]) = SumFunction(inbox[u]) + to[u]
    <3>1. PICK f \in [Campaigns -> Nat], g \in [Campaigns -> Nat] : f = inbox[u] /\ g = inbox'[u]
      BY <2>2
    <3>2. \A d \in Campaigns : g[d] = IF d = c THEN f[d] + to[u] ELSE f[d] BY <1>7, <3>1
    <3>3. PICK k \in Nat : k = to[u] BY <2>2
    <3>4. \A d \in Campaigns : g[d] = IF d = c THEN f[d] + k ELSE f[d] BY <3>2, <3>3
    <3>5. SumFunction(g) = SumFunction(f) + k BY <3>4, FewUsers, SumGrows
    <3> QED BY <3>1, <3>3, <3>5
  <2>4. SumFunction(inbox[u]) \in Nat BY <2>2, FewUsers, SumTyped
  <2>5. unread[u] <= replies[u] + SumFunction(inbox[u]) /\ unread[u] \in Nat /\ replies[u] \in Nat
    BY <1>1 DEF UnreadCounted, OutTyped
  <2> QED BY <1>4, <1>10, <2>2, <2>3, <2>4, <2>5
<1>13. \A d \in Campaigns : SentAsAnnounced(d)'
  <2>1. ASSUME NEW d \in Campaigns
        PROVE  /\ SentAsAnnounced(d)
               /\ [u \in Users |-> inbox[u][d]] \in [Users -> Nat]
               /\ [u \in Users |-> inbox'[u][d]] \in [Users -> Nat]
    BY <1>1, <1>7 DEF OutTyped, OutreachInv
  <2>2. ASSUME NEW d \in Campaigns, d # c PROVE SentAsAnnounced(d)'
    <3>1. announced'[d] = announced[d] /\ campaign'[d] = campaign[d] BY <1>8, <2>2
    <3>2. \A u \in Users : inbox'[u][d] = inbox[u][d] BY <1>7, <2>2
    <3>3. Delivered(d)' = Delivered(d) BY <3>2 DEF Delivered
    <3> QED BY <2>1, <3>1, <3>3 DEF SentAsAnnounced
  <2>3. SentAsAnnounced(c)'
    <3> DEFINE before == [u \in Users |-> inbox[u][c]]
               after == [u \in Users |-> inbox'[u][c]]
    <3>1. \A u \in Users : after[u] = before[u] + to[u] BY <1>6, <1>7
    <3>2. before \in [Users -> Nat] /\ after \in [Users -> Nat] BY <1>6, <2>1
    <3>3. Delivered(c) = SumFunction(before) /\ Delivered(c)' = SumFunction(after)
      BY DEF Delivered
    <3> HIDE DEF before, after
    <3>4. SumFunction(after) = SumFunction(before) + n
      <4>1. PICK f \in [Users -> Nat], g \in [Users -> Nat] : f = before /\ g = after BY <3>2
      <4>2. \A u \in Users : g[u] = f[u] + to[u] BY <3>1, <4>1
      <4>3. SumFunction(g) = SumFunction(f) + SumFunction(to) BY <4>2, FewUsers, SumPlus
      <4> QED BY <4>1, <4>3 DEF n
    <3>5. SumFunction(Rows(new)) = SumFunction(Rows(old)) + n
      BY <1>5, <1>6, SumAppends DEF new
    <3>6. Delivered(c) = SumFunction(Rows(old)) BY <1>6, <2>1 DEF SentAsAnnounced, old
    <3>7. announced'[c] = new /\ campaign'[c] = row BY <1>8
    <3>8. new # <<>> BY <1>6
    <3>9. Delivered(c)' = SumFunction(Rows(new)) BY <3>3, <3>4, <3>5, <3>6
    <3>10. LastFull(new, row.count)
      <4>1. LastFull(old, campaign[c].count) BY <2>1 DEF SentAsAnnounced, old
      <4>2. PICK k \in Nat : k = campaign[c].count BY <1>a DEF CampaignRow
      <4>3. LastFull(new, IF n = 0 THEN k ELSE n) BY <1>5, <1>6, <4>1, <4>2, LastAppends DEF new
      <4> QED BY <4>2, <4>3 DEF row
    <3>11. row.status = "sent" BY DEF row
    <3> QED BY <3>7, <3>8, <3>9, <3>10, <3>11 DEF SentAsAnnounced
  <2> QED BY <2>2, <2>3
<1>14. ASSUME serial' PROVE SendsFirst'
  <2>1. SendsFirst BY <1>4, <1>14 DEF OutreachInv
  <2>2. \A r \in Senders : outTx'[r] = NoOutTx BY <1>2, <1>9, <2>1, NoSendRequest DEF SendsFirst
  <2>3. old = <<>> BY <1>2, <1>3, <2>1 DEF SendsFirst, old
  <2>4. Len(new) = 1 BY <1>6, <2>3 DEF new
  <2>5. ASSUME NEW d \in Campaigns PROVE Len(announced'[d]) <= 1
    <3>1. CASE d = c
      <4>1. announced'[d] = new BY <1>8, <3>1
      <4>2. Len(announced'[d]) = 1 BY <2>4, <4>1
      <4> QED BY <4>2
    <3>2. CASE d # c
      <4>1. announced'[d] = announced[d] BY <1>8, <3>2
      <4> QED BY <2>1, <4>1 DEF SendsFirst
    <3> QED BY <3>1, <3>2
  <2> QED BY <2>2, <2>5, NoSendRequest DEF SendsFirst
<1> QED BY <1>11, <1>12, <1>13, <1>14 DEF OutreachInv

LEMMA SendAborts ==
  ASSUME OutreachInv, NEW s \in Senders, AbortSend(s)
  PROVE  OutreachInv'
<1>1. /\ outTx' = [outTx EXCEPT ![s] = NoOutTx]
      /\ UNCHANGED <<serial, blocks, campaign, inbox, unread, announced, feedback, replies>>
  BY DEF AbortSend
<1>2. OutTyped /\ UnreadCounted BY DEF OutreachInv
<1>3. \A r \in Senders : outTx'[r] = IF r = s THEN NoOutTx ELSE outTx[r] BY <1>1, <1>2 DEF OutTyped
<1>4. outTx' \in [Senders -> SendRequest] BY <1>1, <1>2, NoSendRequest DEF OutTyped
<1>5. OutTyped' BY <1>1, <1>2, <1>3, <1>4, NoSendRequest DEF OutTyped
<1>6. UnreadCounted' BY <1>1, <1>2 DEF UnreadCounted
<1>7. \A c \in Campaigns : SentAsAnnounced(c)' BY <1>1 DEF OutreachInv, SentAsAnnounced, Delivered, Rows
<1>8. serial' => SendsFirst' BY <1>1, <1>3, NoSendRequest DEF OutreachInv, SendsFirst
<1> QED BY <1>5, <1>6, <1>7, <1>8 DEF OutreachInv

\* What users do with their inbox and their feedback leaves the campaigns alone.
LEMMA InboxKeeps ==
  ASSUME OutreachInv, UNCHANGED <<serial, campaign, inbox, announced, outTx>>,
         unread' \in [Users -> Nat], replies' \in [Users -> Nat],
         feedback' \in [Users -> {"none", "open", "replied"}],
         \A u \in Users : unread'[u] + replies[u] <= unread[u] + replies'[u]
  PROVE  OutreachInv'
<1>1. OutTyped /\ UnreadCounted BY DEF OutreachInv
<1>2. OutTyped' BY <1>1 DEF OutTyped
<1>3. UnreadCounted'
  <2>1. SUFFICES ASSUME NEW u \in Users PROVE unread'[u] <= replies'[u] + SumFunction(inbox[u])
    BY DEF UnreadCounted
  <2>2. /\ unread'[u] \in Nat /\ replies'[u] \in Nat /\ unread[u] \in Nat /\ replies[u] \in Nat
        /\ inbox[u] \in [Campaigns -> Nat]
    BY <1>1 DEF OutTyped
  <2>3. SumFunction(inbox[u]) \in Nat BY <2>2, FewUsers, SumTyped
  <2>4. unread[u] <= replies[u] + SumFunction(inbox[u]) BY <1>1 DEF UnreadCounted
  <2>5. unread'[u] + replies[u] <= unread[u] + replies'[u] OBVIOUS
  <2> QED BY <2>2, <2>3, <2>4, <2>5
<1>4. \A c \in Campaigns : SentAsAnnounced(c)' BY DEF OutreachInv, SentAsAnnounced, Delivered, Rows
<1>5. serial' => SendsFirst' BY DEF OutreachInv, SendsFirst
<1> QED BY <1>2, <1>3, <1>4, <1>5 DEF OutreachInv

LEMMA OutreachInductive == OutreachInv /\ OutreachNext => OutreachInv'
<1> SUFFICES ASSUME OutreachInv, OutreachNext PROVE OutreachInv' OBVIOUS
<1>1. OutTyped BY DEF OutreachInv
<1>2. ASSUME NEW u \in Users, NEW n \in 1..unread[u], MarkRead(u, n) PROVE OutreachInv'
  <2>1. unread' = [unread EXCEPT ![u] = unread[u] - n]
        /\ UNCHANGED <<serial, campaign, inbox, announced, feedback, replies, outTx>>
    BY <1>2 DEF MarkRead
  <2>2. unread[u] \in Nat /\ unread[u] - n \in Nat BY <1>1 DEF OutTyped
  <2>3. /\ unread' \in [Users -> Nat]
        /\ \A v \in Users : unread'[v] = IF v = u THEN unread[u] - n ELSE unread[v]
    BY <1>1, <2>1, <2>2 DEF OutTyped
  <2>4. \A v \in Users : unread'[v] + replies[v] <= unread[v] + replies'[v]
    BY <1>1, <2>1, <2>2, <2>3 DEF OutTyped
  <2> QED BY <1>1, <2>1, <2>3, <2>4, InboxKeeps DEF OutTyped
<1>3. ASSUME NEW u \in Users, GiveFeedback(u) PROVE OutreachInv'
  <2>1. feedback' = [feedback EXCEPT ![u] = "open"]
        /\ UNCHANGED <<serial, campaign, inbox, unread, announced, replies, outTx>>
    BY <1>3 DEF GiveFeedback
  <2>2. feedback' \in [Users -> {"none", "open", "replied"}] BY <1>1, <2>1 DEF OutTyped
  <2>3. \A v \in Users : unread'[v] + replies[v] <= unread[v] + replies'[v]
    BY <1>1, <2>1 DEF OutTyped
  <2> QED BY <1>1, <2>1, <2>2, <2>3, InboxKeeps DEF OutTyped
<1>4. ASSUME NEW u \in Users, Reply(u) PROVE OutreachInv'
  <2>1. /\ feedback' = [feedback EXCEPT ![u] = "replied"]
        /\ replies' = [replies EXCEPT ![u] = @ + 1]
        /\ unread' = [v \in Users |-> unread[v] + (IF v = u THEN 1 ELSE 0)]
        /\ UNCHANGED <<serial, campaign, inbox, announced, outTx>>
    BY <1>4 DEF Reply, Notified
  <2>2. feedback' \in [Users -> {"none", "open", "replied"}] BY <1>1, <2>1 DEF OutTyped
  <2>3. /\ replies' \in [Users -> Nat] /\ unread' \in [Users -> Nat]
        /\ \A v \in Users : /\ replies'[v] = IF v = u THEN replies[v] + 1 ELSE replies[v]
                            /\ unread'[v] = IF v = u THEN unread[v] + 1 ELSE unread[v]
    BY <1>1, <2>1 DEF OutTyped
  <2>4. ASSUME NEW v \in Users PROVE unread'[v] + replies[v] <= unread[v] + replies'[v]
    <3>1. unread[v] \in Nat /\ replies[v] \in Nat BY <1>1 DEF OutTyped
    <3>2. CASE v = u
      <4>1. replies'[v] = replies[v] + 1 /\ unread'[v] = unread[v] + 1 BY <2>3, <3>2
      <4> QED BY <3>1, <4>1
    <3>3. CASE v # u
      <4>1. replies'[v] = replies[v] /\ unread'[v] = unread[v] BY <2>3, <3>3
      <4> QED BY <3>1, <4>1
    <3> QED BY <3>2, <3>3
  <2> QED BY <2>1, <2>2, <2>3, <2>4, InboxKeeps
<1> QED BY <1>2, <1>3, <1>4, SendBegins, SendCommits, SendAborts DEF OutreachNext

LEMMA OutreachInitially == ASSUME OutreachInit PROVE OutreachInv
<1> DEFINE none == [c \in Campaigns |-> 0]
<1>1. /\ campaign = [c \in Campaigns |-> [status |-> "draft", count |-> 0]]
      /\ inbox = [u \in Users |-> none] /\ unread = [u \in Users |-> 0]
      /\ announced = [c \in Campaigns |-> <<>>]
      /\ feedback = [u \in Users |-> "none"] /\ replies = [u \in Users |-> 0]
      /\ outTx = [s \in Senders |-> NoOutTx]
  BY DEF OutreachInit
<1>2. none \in [Campaigns -> Nat] OBVIOUS
<1> HIDE DEF none
<1>3. OutTyped
  <2>1. campaign \in [Campaigns -> CampaignRow]
    <3>1. [status |-> "draft", count |-> 0] \in CampaignRow BY DEF CampaignRow
    <3> QED BY <1>1, <3>1
  <2>2. announced \in [Campaigns -> Seq(Nat)] BY <1>1
  <2>3. outTx \in [Senders -> SendRequest] BY <1>1, NoSendRequest
  <2> QED BY <1>1, <1>2, <2>1, <2>2, <2>3, NoSendRequest DEF OutTyped
<1>4. UnreadCounted
  <2>1. \A u \in Users : SumFunction(inbox[u]) \in Nat BY <1>3, FewUsers, SumTyped DEF OutTyped
  <2> QED BY <1>1, <2>1 DEF UnreadCounted
<1>5. ASSUME NEW c \in Campaigns PROVE SentAsAnnounced(c)
  <2> DEFINE f == [u \in Users |-> inbox[u][c]]
  <2>1. f \in [Users -> Nat] /\ \A u \in Users : f[u] = 0 BY <1>1 DEF none
  <2> HIDE DEF f
  <2>2. SumFunction(f) = 0 BY <2>1, FewUsers, SumNothing
  <2>3. Delivered(c) = 0 BY <2>2 DEF Delivered, f
  <2>4. SumFunction(Rows(<<>>)) = 0
    <3>1. Rows(<<>>) \in [1..0 -> Nat] /\ \A i \in 1..0 : Rows(<<>>)[i] = 0 BY DEF Rows
    <3>2. IsFiniteSet(1..0) BY FS_Interval
    <3> QED BY <3>1, <3>2, SumNothing
  <2>5. announced[c] = <<>> /\ campaign[c] = [status |-> "draft", count |-> 0]
    BY <1>1
  <2>6. Full(<<>>) = {} BY DEF Full
  <2> QED BY <2>3, <2>4, <2>5, <2>6 DEF SentAsAnnounced, LastFull
<1>6. SendsFirst
  <2>1. \A c \in Campaigns : announced[c] = <<>> BY <1>1
  <2>2. Len(<<>>) = 0 OBVIOUS
  <2> QED BY <1>1, <2>1, <2>2, NoSendRequest DEF SendsFirst
<1> QED BY <1>3, <1>4, <1>5, <1>6 DEF OutreachInv

LEMMA OutreachTypes == ASSUME OutreachInv PROVE OutreachTypeOK /\ CampaignGoesOutOnce
<1>1. OutreachTypeOK BY DEF OutreachInv, OutTyped, UnreadCounted, OutreachTypeOK, CampaignRow
<1>2. CampaignGoesOutOnce
  BY DEF OutreachInv, SentAsAnnounced, SendsFirst, Rows, Full, LastFull, CampaignGoesOutOnce
<1> QED BY <1>1, <1>2

-----------------------------------------------------------------------------
(***************************************************************************)
(* No paid day is lost, for any orders, plans and days.  A period with     *)
(* days left is active and lasts as long as what it and the older periods  *)
(* are still owed: a new period starts where the last one ends, a day that *)
(* passes is taken from the oldest with any left, a refund takes away the  *)
(* days of its own periods only.  While nothing was refunded no period     *)
(* lasts longer than what all are owed.                                    *)
(***************************************************************************)

\* A finite set of numbers has a largest and a smallest one.
LEMMA Extremes ==
  ASSUME NEW S \in SUBSET Nat, IsFiniteSet(S), S # {}
  PROVE  /\ Max(S) \in S /\ \A y \in S : Max(S) >= y
         /\ Min(S) \in S /\ \A y \in S : Min(S) <= y
<1> DEFINE T == {s \in SUBSET S : s # {} => /\ \E a \in s : \A y \in s : a >= y
                                            /\ \E b \in s : \A y \in s : b <= y}
<1>1. ASSUME NEW s \in SUBSET S, \A u \in SUBSET s : u # s => u \in T PROVE s \in T
  <2>1. CASE s # {}
    <3>1. PICK c \in s : TRUE BY <2>1
    <3> DEFINE u == s \ {c}
    <3>2. u \in T /\ s = u \cup {c}
      <4>1. u \in SUBSET s /\ u # s OBVIOUS
      <4>2. s = u \cup {c} OBVIOUS
      <4> HIDE DEF u, T
      <4> QED BY <1>1, <4>1, <4>2
    <3>3. CASE u = {}
      <4>1. s = {c} /\ c \in Nat BY <3>2, <3>3
      <4> QED BY <4>1
    <3>4. CASE u # {}
      <4>1. PICK a \in u, b \in u : (\A y \in u : a >= y) /\ (\A y \in u : b <= y)
        BY <3>2, <3>4
      <4>2. a \in Nat /\ b \in Nat /\ c \in Nat /\ \A y \in u : y \in Nat OBVIOUS
      <4>3. (\A y \in s : a >= y) \/ (\A y \in s : c >= y) BY <3>2, <4>1, <4>2
      <4>4. (\A y \in s : b <= y) \/ (\A y \in s : c <= y) BY <3>2, <4>1, <4>2
      <4> QED BY <4>3, <4>4
    <3> QED BY <3>3, <3>4
  <2> QED BY <2>1
<1>2. \A s \in SUBSET S : s \in T
  <2> HIDE DEF T
  <2> QED BY <1>1, SubsetInduction
<1>3. /\ \E a \in S : \A y \in S : a >= y
      /\ \E b \in S : \A y \in S : b <= y
  BY <1>2
<1> QED BY <1>3 DEF Max, Min

\* Less is owed of some, more of none.
LEMMA SumShrinks ==
  ASSUME NEW f, NEW g, NEW S, IsFiniteSet(S),
         \A x \in S : f[x] \in Nat /\ g[x] \in Nat /\ g[x] <= f[x]
  PROVE  SumOf(g, S) <= SumOf(f, S)
<1> DEFINE T == {s \in SUBSET S : SumOf(g, s) <= SumOf(f, s)}
<1>1. ASSUME NEW s \in SUBSET S, \A u \in SUBSET s : u # s => u \in T PROVE s \in T
  <2>1. CASE s = {}
    <3>1. SumOf(f, {}) = 0 /\ SumOf(g, {}) = 0 BY SumTakesSome
    <3> QED BY <2>1, <3>1
  <2>2. CASE s # {}
    <3>1. Some(s) \in s BY <2>2 DEF Some
    <3>2. s \ {Some(s)} \in T BY <1>1, <3>1
    <3>3. SumOf(f, s) = f[Some(s)] + SumOf(f, s \ {Some(s)}) BY <2>2, SumTakesSome
    <3>4. SumOf(g, s) = g[Some(s)] + SumOf(g, s \ {Some(s)}) BY <2>2, SumTakesSome
    <3>5. \A u \in SUBSET S : SumOf(f, u) \in Nat BY SumNatural
    <3>6. \A u \in SUBSET S : SumOf(g, u) \in Nat BY SumNatural
    <3>7. SumOf(f, s \ {Some(s)}) \in Nat /\ SumOf(g, s \ {Some(s)}) \in Nat BY <3>2, <3>5, <3>6
    <3>8. f[Some(s)] \in Nat /\ g[Some(s)] \in Nat /\ g[Some(s)] <= f[Some(s)] BY <3>1
    <3>9. SumOf(g, s) <= SumOf(f, s) BY <3>2, <3>3, <3>4, <3>7, <3>8
    <3> QED BY <3>9
  <2> QED BY <2>1, <2>2
<1>2. \A s \in SUBSET S : s \in T
  <2> HIDE DEF T
  <2> QED BY <1>1, SubsetInduction
<1> QED BY <1>2

\* What is zero outside a subset adds nothing.
LEMMA SumIgnores ==
  ASSUME NEW f, NEW S, IsFiniteSet(S), NEW R \in SUBSET S, \A x \in S : f[x] \in Nat,
         \A x \in S \ R : f[x] = 0
  PROVE  SumOf(f, S) = SumOf(f, R)
<1> DEFINE T == {u \in SUBSET (S \ R) : SumOf(f, R \cup u) = SumOf(f, R)}
           Z == S \ R
<1>1. IsFiniteSet(Z) BY FS_Subset
<1>2. \A s \in SUBSET S : \A x \in s : SumOf(f, s) = f[x] + SumOf(f, s \ {x}) BY SumTakesAny
<1>3. \A s \in SUBSET S : SumOf(f, s) \in Nat BY SumNatural
<1>4. ASSUME NEW s \in SUBSET Z, \A u \in SUBSET s : u # s => u \in T PROVE s \in T
  <2>1. CASE s = {}
    <3>1. R \cup s = R BY <2>1
    <3> QED BY <3>1
  <2>2. CASE s # {}
    <3>1. PICK x \in s : TRUE BY <2>2
    <3>2. s \ {x} \in T /\ f[x] = 0 BY <1>4, <3>1
    <3>3. (R \cup s) \ {x} = R \cup (s \ {x}) /\ x \in R \cup s /\ R \cup s \in SUBSET S OBVIOUS
    <3>4. SumOf(f, R \cup s) = f[x] + SumOf(f, R \cup (s \ {x})) BY <1>2, <3>3
    <3>5. R \cup (s \ {x}) \in SUBSET S OBVIOUS
    <3>6. SumOf(f, R \cup (s \ {x})) \in Nat BY <1>3, <3>5
    <3>7. SumOf(f, R \cup s) = SumOf(f, R) BY <3>2, <3>4, <3>6
    <3> QED BY <3>7
  <2> QED BY <2>1, <2>2
<1>5. Z \in T
  <2> HIDE DEF T, Z
  <2>1. \A s \in SUBSET Z : s \in T BY <1>1, <1>4, SubsetInduction
  <2> QED BY <2>1
<1>6. R \cup Z = S OBVIOUS
<1> QED BY <1>5, <1>6

\* The whole sum, with any summand taken out.
LEMMA SumTakesEach ==
  ASSUME NEW f, NEW S, IsFiniteSet(S), \A x \in S : f[x] \in Nat
  PROVE  \A x \in S : SumOf(f, S) = f[x] + SumOf(f, S \ {x})
<1>1. \A s \in SUBSET S : \A x \in s : SumOf(f, s) = f[x] + SumOf(f, s \ {x}) BY SumTakesAny
<1>2. S \in SUBSET S OBVIOUS
<1> QED BY <1>1, <1>2

\* What a new period adds, to the whole and to what the periods before it are owed.
LEMMA OwedWithNew ==
  ASSUME NEW s \in Seq(Nat), NEW k \in Nat
  PROVE  /\ Append(s, k) \in Seq(Nat) /\ Len(Append(s, k)) = Len(s) + 1
         /\ Append(s, k)[Len(s) + 1] = k
         /\ \A m \in 1..Len(s) : Append(s, k)[m] = s[m]
         /\ \A m \in 1..Len(s) : SumOf(Append(s, k), 1..m) = SumOf(s, 1..m)
         /\ SumOf(Append(s, k), 1..(Len(s) + 1)) = SumOf(s, 1..Len(s)) + k
<1> DEFINE n == Len(s)
           a == Append(s, k)
<1>1. n \in Nat /\ a \in Seq(Nat) /\ Len(a) = n + 1 /\ a[n + 1] = k /\ \A i \in 1..n : a[i] = s[i]
  OBVIOUS
<1>2. \A i \in 1..n : s[i] \in Nat OBVIOUS
<1> HIDE DEF n, a
<1>3. \A i \in 1..(n + 1) : a[i] \in Nat BY <1>1, <1>2
<1>4. ASSUME NEW m \in 1..n PROVE SumOf(a, 1..m) = SumOf(s, 1..m)
  <2> DEFINE D == 1..m
  <2>1. IsFiniteSet(D) BY <1>1, FS_Interval
  <2>2. \A i \in D : a[i] = s[i] BY <1>1
  <2> HIDE DEF D
  <2>3. SumOf(a, D) = SumOf(s, D) BY <2>1, <2>2, SumSame
  <2> QED BY <2>3 DEF D
<1>5. SumOf(a, 1..(n + 1)) = SumOf(s, 1..n) + k
  <2> DEFINE D == 1..(n + 1)
             R == 1..n
  <2>1. IsFiniteSet(D) /\ IsFiniteSet(R) BY <1>1, FS_Interval
  <2>2. D \ {n + 1} = R /\ n + 1 \in D BY <1>1
  <2>3. \A i \in R : a[i] = s[i] BY <1>1
  <2>4. \A i \in R : s[i] \in Nat BY <1>2
  <2>5. \A i \in D : a[i] \in Nat BY <1>3
  <2> HIDE DEF D, R
  <2>6. SumOf(a, R) = SumOf(s, R) BY <2>1, <2>3, SumSame
  <2>7. \A i \in D : SumOf(a, D) = a[i] + SumOf(a, D \ {i}) BY <2>1, <2>5, SumTakesEach
  <2>8. SumOf(a, D) = k + SumOf(s, R) BY <1>1, <2>2, <2>6, <2>7
  <2>9. \A u \in SUBSET R : SumOf(s, u) \in Nat BY <2>1, <2>4, SumNatural
  <2>10. SumOf(s, R) \in Nat BY <2>9
  <2>11. SumOf(a, D) = SumOf(s, R) + k BY <2>8, <2>10
  <2> QED BY <2>11 DEF D, R
<1> QED BY <1>1, <1>4, <1>5 DEF n, a

\* What the periods up to one are owed is a number.
LEMMA OwedIsNumber ==
  ASSUME NEW s \in Seq(Nat), NEW m \in 0..Len(s)
  PROVE  SumOf(s, 1..m) \in Nat
<1> DEFINE D == 1..m
<1>1. IsFiniteSet(D) BY FS_Interval
<1>2. \A i \in D : s[i] \in Nat OBVIOUS
<1> HIDE DEF D
<1>3. \A u \in SUBSET D : SumOf(s, u) \in Nat BY <1>1, <1>2, SumNatural
<1> QED BY <1>3 DEF D

LEMMA NothingOwed ==
  ASSUME NEW s \in Seq(Nat), \A m \in 1..Len(s) : s[m] = 0
  PROVE  SumOf(s, 1..Len(s)) = 0
<1> DEFINE D == 1..Len(s)
<1>1. IsFiniteSet(D) BY FS_Interval
<1>2. \A i \in D : s[i] = 0 OBVIOUS
<1> HIDE DEF D
<1>3. SumOf(s, D) = SumOf(s, {}) BY <1>1, <1>2, SumIgnores
<1>4. SumOf(s, {}) = 0 BY <1>1, SumTakesSome
<1> QED BY <1>3, <1>4 DEF D

\* The periods with days left, which has a first and a last one.
LEMMA OwedHasEnds ==
  ASSUME NEW s \in Seq(Nat), NEW P, P = {m \in DOMAIN s : s[m] > 0}, P # {}
  PROVE  /\ P \in SUBSET Nat /\ IsFiniteSet(P)
         /\ Max(P) \in P /\ \A y \in P : Max(P) >= y
         /\ Min(P) \in P /\ \A y \in P : Min(P) <= y
<1>1. IsFiniteSet(1..Len(s)) BY FS_Interval
<1>2. P \subseteq 1..Len(s) /\ P \in SUBSET Nat OBVIOUS
<1>3. IsFiniteSet(P) BY <1>1, <1>2, FS_Subset
<1> QED BY <1>2, <1>3, Extremes

\* All that is owed is owed up to the last period with days left.
LEMMA OwedUpToLast ==
  ASSUME NEW s \in Seq(Nat), SumOf(s, 1..Len(s)) > 0
  PROVE  \E m \in 1..Len(s) : s[m] > 0 /\ SumOf(s, 1..m) = SumOf(s, 1..Len(s))
<1> DEFINE P == {m \in DOMAIN s : s[m] > 0}
           m == Max(P)
           D == 1..Len(s)
           R == 1..m
<1>1. \A i \in 1..Len(s) : s[i] \in Nat OBVIOUS
<1>2. P # {}
  <2> SUFFICES ASSUME P = {} PROVE FALSE OBVIOUS
  <2>1. \A i \in 1..Len(s) : s[i] = 0 BY <1>1
  <2>2. SumOf(s, 1..Len(s)) = 0 BY <2>1, NothingOwed
  <2> QED BY <2>2
<1>3. m \in P /\ \A y \in P : m >= y
  <2> HIDE DEF m
  <2>1. Max(P) \in P /\ \A y \in P : Max(P) >= y
    <3> DEFINE Q == P
    <3>1. Q = {i \in DOMAIN s : s[i] > 0} /\ Q # {} BY <1>2
    <3> HIDE DEF Q
    <3>2. Max(Q) \in Q /\ \A y \in Q : Max(Q) >= y BY <3>1, OwedHasEnds
    <3> QED BY <3>2 DEF Q
  <2> QED BY <2>1 DEF m
<1>4. m \in 1..Len(s) /\ s[m] > 0 BY <1>3
<1>5. \A y \in D : s[y] > 0 => y <= m BY <1>3, <1>4
<1> HIDE DEF P, m
<1>6. IsFiniteSet(D) BY FS_Interval
<1>7. R \in SUBSET D BY <1>4
<1>8. \A y \in D \ R : s[y] = 0 BY <1>1, <1>4, <1>5
<1>9. \A y \in D : s[y] \in Nat BY <1>1
<1> HIDE DEF D, R
<1>10. SumOf(s, D) = SumOf(s, R) BY <1>6, <1>7, <1>8, <1>9, SumIgnores
<1> QED BY <1>4, <1>10 DEF D, R

\* One day less of one period is one less for that one and those after it.
LEMMA OneLessFrom ==
  ASSUME NEW s \in Seq(Nat), NEW r \in Seq(Nat), Len(r) = Len(s), NEW j \in 1..Len(s), s[j] > 0,
         \A i \in 1..Len(s) : r[i] = IF i = j THEN s[j] - 1 ELSE s[i]
  PROVE  \A m \in j..Len(s) : SumOf(s, 1..m) = SumOf(r, 1..m) + 1
<1>1. \A i \in 1..Len(s) : s[i] \in Nat OBVIOUS
<1>2. ASSUME NEW m \in j..Len(s) PROVE SumOf(s, 1..m) = SumOf(r, 1..m) + 1
  <2> DEFINE D == 1..m
  <2>1. IsFiniteSet(D) BY FS_Interval
  <2>2. j \in D OBVIOUS
  <2>3. \A i \in D : i \in 1..Len(s) OBVIOUS
  <2> HIDE DEF D
  <2>4. \A i \in D : s[i] \in Nat BY <1>1, <2>3
  <2>5. s[j] > 0 /\ r[j] = s[j] - 1 OBVIOUS
  <2>6. \A i \in D \ {j} : r[i] = s[i] BY <2>3
  <2>7. SumOf(s, D) = SumOf(r, D) + 1
    <3> DEFINE R == D \ {j}
    <3>1. \A i \in D : r[i] \in Nat
      <4>1. r[j] \in Nat BY <2>2, <2>4, <2>5
      <4>2. \A i \in D : i # j => r[i] \in Nat BY <2>4, <2>6
      <4> QED BY <4>1, <4>2
    <3>2. \A i \in D : SumOf(s, D) = s[i] + SumOf(s, D \ {i}) BY <2>1, <2>4, SumTakesEach
    <3>3. \A i \in D : SumOf(r, D) = r[i] + SumOf(r, D \ {i}) BY <2>1, <3>1, SumTakesEach
    <3>4. IsFiniteSet(R) BY <2>1, FS_Subset
    <3>5. SumOf(s, D) = s[j] + SumOf(s, R) /\ SumOf(r, D) = r[j] + SumOf(r, R)
      BY <2>2, <3>2, <3>3
    <3>6. \A i \in R : r[i] = s[i] BY <2>6
    <3>7. \A u \in SUBSET D : SumOf(s, u) \in Nat BY <2>1, <2>4, SumNatural
    <3>8. SumOf(s, R) \in Nat BY <3>7
    <3> HIDE DEF R
    <3>9. SumOf(r, R) = SumOf(s, R) BY <3>4, <3>6, SumSame
    <3>10. s[j] \in Nat BY <2>2, <2>4
    <3>11. PICK a \in Nat, b \in Nat : a = s[j] /\ b = SumOf(s, R) BY <3>8, <3>10
    <3>12. SumOf(s, D) = a + b /\ SumOf(r, D) = r[j] + b BY <3>5, <3>9, <3>11
    <3>13. r[j] = a - 1 BY <2>5, <3>11
    <3>14. a + b = ((a - 1) + b) + 1 BY ONLY <3>11
    <3> QED BY ONLY <3>12, <3>13, <3>14
  <2> QED BY <2>7 DEF D
<1> QED BY <1>2

\* A day is taken from the oldest period with any left.
LEMMA OwedOneDayLess ==
  ASSUME NEW s \in Seq(Nat), NEW r \in Seq(Nat), Len(r) = Len(s), NEW j \in 1..Len(s), s[j] > 0,
         \A i \in 1..Len(s) : r[i] = IF i = j THEN s[j] - 1 ELSE s[i],
         \A i \in 1..Len(s) : s[i] > 0 => j <= i
  PROVE  /\ \A m \in 1..Len(s) : r[m] > 0 => s[m] > 0 /\ SumOf(s, 1..m) = SumOf(r, 1..m) + 1
         /\ SumOf(s, 1..Len(s)) = SumOf(r, 1..Len(s)) + 1
<1>1. \A m \in j..Len(s) : SumOf(s, 1..m) = SumOf(r, 1..m) + 1 BY OneLessFrom
<1>2. ASSUME NEW m \in 1..Len(s), r[m] > 0 PROVE s[m] > 0 /\ m \in j..Len(s)
  <2>1. s[m] > 0 BY <1>2
  <2>2. j <= m BY <2>1
  <2> QED BY <2>1, <2>2
<1>3. Len(s) \in j..Len(s) OBVIOUS
<1>4. SumOf(s, 1..Len(s)) = SumOf(r, 1..Len(s)) + 1 BY <1>1, <1>3
<1>5. ASSUME NEW m \in 1..Len(s), r[m] > 0 PROVE s[m] > 0 /\ SumOf(s, 1..m) = SumOf(r, 1..m) + 1
  BY <1>1, <1>2, <1>5
<1> QED BY <1>4, <1>5

PeriodRow == [order : MemberOrders, active : BOOLEAN, until : Nat]
MemberRequest == [op : {"idle", "activate", "revoke"}, days : Nat, until : Nat, rows : SUBSET Nat]

MemberTyped ==
  /\ date \in 0..LastMemberDay /\ settled \subseteq MemberOrders /\ refunded \in BOOLEAN
  /\ periods \in Seq(PeriodRow)
  /\ owed \in Seq(Nat) /\ Len(owed) = Len(periods)
  /\ memberTx \in [MemberOrders -> MemberRequest]

\* What is still owed of a period and of those before it, and of all.
OwedTo(m) == SumOf(owed, 1..m)
OwedInAll == OwedTo(Len(owed))

OwedIsCovered ==
  \A m \in 1..Len(owed) : owed[m] > 0 => periods[m].active /\ periods[m].until >= date + OwedTo(m)

NoneGiven == ~refunded => \A m \in 1..Len(periods) : periods[m].until <= date + OwedInAll

\* The one open request still sees what it has read.
ReadsHold ==
  /\ \A o, r \in MemberOrders : memberTx[o] # NoMemberTx /\ memberTx[r] # NoMemberTx => o = r
  /\ \A o \in MemberOrders :
       /\ memberTx[o].op = "activate" => memberTx[o].until = StartsAt(Ends)
       /\ memberTx[o].op = "revoke" =>
            memberTx[o].rows = {m \in DOMAIN periods : periods[m].order = o}

MemberInv == MemberTyped /\ (serial => OwedIsCovered /\ NoneGiven /\ ReadsHold)

LEMMA NoMemberRequest == NoMemberTx \in MemberRequest /\ NoMemberTx.op = "idle"
BY DEF NoMemberTx, MemberRequest

LEMMA PeriodTyped ==
  ASSUME MemberTyped
  PROVE  /\ DOMAIN periods = 1..Len(periods) /\ Len(periods) \in Nat
         /\ \A m \in 1..Len(periods) : /\ periods[m] \in PeriodRow
                                      /\ periods[m].until \in Nat
                                      /\ periods[m].order \in MemberOrders
<1>1. periods \in Seq(PeriodRow) BY DEF MemberTyped
<1>2. \A m \in 1..Len(periods) : periods[m] \in PeriodRow BY <1>1
<1>3. \A row \in PeriodRow : row.until \in Nat /\ row.order \in MemberOrders BY DEF PeriodRow
<1> QED BY <1>1, <1>2, <1>3

\* The end of the good periods is that of one of them, or none is good.
LEMMA EndsIs ==
  ASSUME MemberTyped
  PROVE  /\ Ends \in Nat
         /\ \A m \in 1..Len(periods) : Good(m) => periods[m].until <= Ends
         /\ Ends = 0 \/ \E m \in 1..Len(periods) : Good(m) /\ Ends = periods[m].until
<1> DEFINE G == {m \in DOMAIN periods : Good(m)}
           E == {periods[m].until : m \in G}
           S == {0} \cup E
<1>1. \A m \in DOMAIN periods : periods[m].until \in Nat BY PeriodTyped
<1>2. G \subseteq 1..Len(periods) /\ DOMAIN periods = 1..Len(periods) /\ Len(periods) \in Nat
  BY DEF MemberTyped
<1>3. IsFiniteSet(S)
  <2>1. IsFiniteSet(1..Len(periods)) BY <1>2, FS_Interval
  <2>2. IsFiniteSet(G) BY <1>2, <2>1, FS_Subset
  <2>3. IsFiniteSet(E)
    <3> DEFINE h == [m \in G |-> periods[m].until]
    <3>1. h \in Surjection(G, E) BY DEF Surjection
    <3> QED BY <2>2, <3>1, FS_Surjection
  <2>4. IsFiniteSet({0}) BY FS_Singleton
  <2> QED BY <2>3, <2>4, FS_Union
<1>4. S \in SUBSET Nat /\ S # {} BY <1>1
<1>5. Ends = Max(S) BY DEF Ends
<1>6. \A m \in G : periods[m].until \in S OBVIOUS
<1>7. \A e \in S : e = 0 \/ \E m \in G : e = periods[m].until OBVIOUS
<1> HIDE DEF S, E, Ends
<1>8. Max(S) \in S /\ \A y \in S : Max(S) >= y BY <1>3, <1>4, Extremes
<1>9. Ends \in Nat BY <1>4, <1>5, <1>8
<1>10. ASSUME NEW m \in 1..Len(periods), Good(m) PROVE periods[m].until <= Ends
  <2>1. m \in G BY <1>2, <1>10
  <2>2. periods[m].until \in S /\ periods[m].until \in Nat BY <1>1, <1>6, <2>1
  <2> QED BY <1>5, <1>8, <1>9, <2>2
<1>11. ASSUME Ends # 0 PROVE \E m \in 1..Len(periods) : Good(m) /\ Ends = periods[m].until
  <2>1. PICK m \in G : Ends = periods[m].until BY <1>5, <1>7, <1>8, <1>11
  <2> QED BY <1>2, <2>1
<1> QED BY <1>9, <1>10, <1>11

\* The good periods last as long as all that is owed, and no longer while
\* nothing was refunded.
LEMMA EndsCover ==
  ASSUME MemberTyped, OwedIsCovered, NoneGiven
  PROVE  /\ OwedInAll \in Nat
         /\ OwedInAll > 0 => Ends >= date + OwedInAll
         /\ ~refunded => Ends <= date + OwedInAll
         /\ ~refunded /\ OwedInAll = 0 => Ends = 0
<1>1. /\ Ends \in Nat
      /\ \A m \in 1..Len(periods) : Good(m) => periods[m].until <= Ends
      /\ Ends = 0 \/ \E m \in 1..Len(periods) : Good(m) /\ Ends = periods[m].until
  BY EndsIs
<1>2. date \in Nat /\ \A m \in 1..Len(periods) : periods[m].until \in Nat
  BY MembershipsAssumption, PeriodTyped DEF MemberTyped
<1>3. OwedInAll \in Nat
  <2>1. owed \in Seq(Nat) BY DEF MemberTyped
  <2>2. Len(owed) \in 0..Len(owed) BY <2>1
  <2> QED BY <2>1, <2>2, OwedIsNumber DEF OwedInAll, OwedTo
<1>4. ASSUME OwedInAll > 0 PROVE Ends >= date + OwedInAll
  <2>1. PICK m \in 1..Len(owed) : owed[m] > 0 /\ OwedTo(m) = OwedInAll
    <3>1. owed \in Seq(Nat) BY DEF MemberTyped
    <3>2. SumOf(owed, 1..Len(owed)) > 0 BY <1>4 DEF OwedInAll, OwedTo
    <3>3. \E m \in 1..Len(owed) : owed[m] > 0 /\ SumOf(owed, 1..m) = SumOf(owed, 1..Len(owed))
      BY <3>1, <3>2, OwedUpToLast
    <3> QED BY <3>3 DEF OwedInAll, OwedTo
  <2>2. periods[m].active /\ periods[m].until >= date + OwedInAll /\ m \in 1..Len(periods)
    BY <2>1 DEF OwedIsCovered, MemberTyped
  <2>3. Good(m) BY <1>2, <1>3, <1>4, <2>2 DEF Good
  <2> QED BY <1>1, <1>2, <1>3, <2>2, <2>3
<1>5. ASSUME ~refunded PROVE Ends <= date + OwedInAll /\ (OwedInAll = 0 => Ends = 0)
  <2>1. CASE Ends = 0 BY <1>2, <1>3, <2>1
  <2>2. CASE Ends # 0
    <3>1. PICK m \in 1..Len(periods) : Good(m) /\ Ends = periods[m].until BY <1>1, <2>2
    <3>2. periods[m].until <= date + OwedInAll BY <1>5 DEF NoneGiven
    <3>3. periods[m].until > date BY <3>1 DEF Good
    <3> QED BY <1>2, <1>3, <3>1, <3>2, <3>3
  <2> QED BY <2>1, <2>2
<1> QED BY <1>3, <1>4, <1>5

\* A request that begins has read the rows as they are.
LEMMA MemberBegins ==
  ASSUME MemberInv, NEW o \in MemberOrders, NEW t \in MemberRequest, BeginMember(o, t),
         t.op = "activate" => t.until = StartsAt(Ends),
         t.op = "revoke" => t.rows = {m \in DOMAIN periods : periods[m].order = o}
  PROVE  MemberInv'
<1>1. /\ memberTx' = [memberTx EXCEPT ![o] = t]
      /\ serial => \A r \in DOMAIN memberTx : memberTx[r] = NoMemberTx
      /\ UNCHANGED <<serial, date, periods, settled, owed, refunded>>
  BY DEF BeginMember, MayBegin
<1>2. MemberTyped BY DEF MemberInv
<1>3. \A r \in MemberOrders : memberTx'[r] = IF r = o THEN t ELSE memberTx[r]
  BY <1>1, <1>2 DEF MemberTyped
<1>4. MemberTyped'
  <2>1. memberTx' \in [MemberOrders -> MemberRequest] BY <1>1, <1>2 DEF MemberTyped
  <2> QED BY <1>1, <1>2, <2>1 DEF MemberTyped
<1>5. ASSUME serial' PROVE OwedIsCovered' /\ NoneGiven' /\ ReadsHold'
  <2>1. OwedIsCovered /\ NoneGiven BY <1>1, <1>5 DEF MemberInv
  <2>2. OwedIsCovered' /\ NoneGiven'
    BY <1>1, <2>1 DEF OwedIsCovered, NoneGiven, OwedTo, OwedInAll
  <2>3. \A r \in MemberOrders : memberTx[r] = NoMemberTx BY <1>1, <1>2, <1>5 DEF MemberTyped
  <2>4. \A r \in MemberOrders : r # o => memberTx'[r] = NoMemberTx BY <1>3, <2>3
  <2>5. memberTx'[o] = t BY <1>3
  <2>6. Ends' = Ends BY <1>1 DEF Ends, Good
  <2>7. StartsAt(Ends)' = StartsAt(Ends) BY <1>1, <2>6 DEF StartsAt
  <2>8. \A r \in MemberOrders :
          /\ memberTx'[r].op = "activate" => memberTx'[r].until = StartsAt(Ends)
          /\ memberTx'[r].op = "revoke" =>
               memberTx'[r].rows = {m \in DOMAIN periods : periods[m].order = r}
    BY <2>4, <2>5, NoMemberRequest
  <2> QED BY <1>1, <2>2, <2>4, <2>7, <2>8 DEF ReadsHold
<1> QED BY <1>4, <1>5 DEF MemberInv

\* A request that ends without a change, or whose changes are made below.
LEMMA MemberEnds ==
  ASSUME MemberTyped, NEW o \in MemberOrders, memberTx' = [memberTx EXCEPT ![o] = NoMemberTx],
         ReadsHold, memberTx[o] # NoMemberTx
  PROVE  ReadsHold' /\ \A r \in MemberOrders : memberTx'[r] = NoMemberTx
<1>1. \A r \in MemberOrders : memberTx'[r] = NoMemberTx BY DEF MemberTyped, ReadsHold
<1> QED BY <1>1, NoMemberRequest DEF ReadsHold

LEMMA MemberAborts ==
  ASSUME MemberInv, NEW o \in MemberOrders, AbortMember(o)
  PROVE  MemberInv'
<1>1. /\ memberTx[o] # NoMemberTx /\ memberTx' = [memberTx EXCEPT ![o] = NoMemberTx]
      /\ UNCHANGED <<serial, date, periods, settled, owed, refunded>>
  BY DEF AbortMember
<1>2. MemberTyped BY DEF MemberInv
<1>3. MemberTyped' BY <1>1, <1>2, NoMemberRequest DEF MemberTyped
<1>4. ASSUME serial' PROVE OwedIsCovered' /\ NoneGiven' /\ ReadsHold'
  <2>1. OwedIsCovered /\ NoneGiven /\ ReadsHold BY <1>1, <1>4 DEF MemberInv
  <2>2. OwedIsCovered' /\ NoneGiven'
    BY <1>1, <2>1 DEF OwedIsCovered, NoneGiven, OwedTo, OwedInAll
  <2> QED BY <1>1, <1>2, <2>1, <2>2, MemberEnds
<1> QED BY <1>3, <1>4 DEF MemberInv

LEMMA MemberActivates ==
  ASSUME MemberInv, NEW o \in MemberOrders, CommitActivate(o)
  PROVE  MemberInv'
<1> DEFINE n == Len(periods)
<1>1. MemberTyped BY DEF MemberInv
<1>2. PICK days \in Nat, until \in Nat : days = memberTx[o].days /\ until = memberTx[o].until
  BY <1>1 DEF MemberTyped, MemberRequest
<1>3. PICK row \in PeriodRow : row = [order |-> o, active |-> TRUE, until |-> until + days]
  <2>1. until + days \in Nat OBVIOUS
  <2>2. [order |-> o, active |-> TRUE, until |-> until + days] \in PeriodRow BY <2>1 DEF PeriodRow
  <2> QED BY <2>2
<1>4. /\ memberTx[o].op = "activate"
      /\ periods' = Append(periods, row) /\ owed' = Append(owed, days)
      /\ settled' = settled \cup {o}
      /\ memberTx' = [memberTx EXCEPT ![o] = NoMemberTx]
      /\ UNCHANGED <<serial, date, refunded>>
  BY <1>2, <1>3 DEF CommitActivate
<1>5. periods \in Seq(PeriodRow) /\ owed \in Seq(Nat) /\ Len(owed) = n /\ date \in Nat /\ n \in Nat
  BY <1>1, MembershipsAssumption DEF MemberTyped
<1>6. /\ periods' \in Seq(PeriodRow) /\ Len(periods') = n + 1
      /\ periods'[n + 1] = row /\ \A m \in 1..n : periods'[m] = periods[m]
  BY <1>4, <1>5
<1>7. /\ owed' \in Seq(Nat) /\ Len(owed') = n + 1
      /\ owed'[n + 1] = days /\ \A m \in 1..n : owed'[m] = owed[m]
      /\ \A m \in 1..n : SumOf(owed', 1..m) = SumOf(owed, 1..m)
      /\ SumOf(owed', 1..(n + 1)) = SumOf(owed, 1..n) + days
  <2>1. PICK s \in Seq(Nat) : s = owed BY <1>5
  <2>2. /\ Append(s, days) \in Seq(Nat) /\ Len(Append(s, days)) = Len(s) + 1
        /\ Append(s, days)[Len(s) + 1] = days
        /\ \A m \in 1..Len(s) : Append(s, days)[m] = s[m]
        /\ \A m \in 1..Len(s) : SumOf(Append(s, days), 1..m) = SumOf(s, 1..m)
        /\ SumOf(Append(s, days), 1..(Len(s) + 1)) = SumOf(s, 1..Len(s)) + days
    BY OwedWithNew
  <2> QED BY <1>4, <1>5, <2>1, <2>2
<1>8. MemberTyped'
  <2>1. memberTx' \in [MemberOrders -> MemberRequest] BY <1>1, <1>4, NoMemberRequest DEF MemberTyped
  <2> QED BY <1>1, <1>4, <1>6, <1>7, <2>1 DEF MemberTyped
<1> HIDE DEF n
<1>9. ASSUME serial' PROVE OwedIsCovered' /\ NoneGiven' /\ ReadsHold'
  <2>1. OwedIsCovered /\ NoneGiven /\ ReadsHold BY <1>4, <1>9 DEF MemberInv
  <2>2. /\ OwedInAll \in Nat
        /\ OwedInAll > 0 => Ends >= date + OwedInAll
        /\ ~refunded => Ends <= date + OwedInAll
    BY <1>1, <2>1, EndsCover
  <2>3. Ends \in Nat BY <1>1, EndsIs
  <2>4. until = StartsAt(Ends) BY <1>2, <1>4, <2>1 DEF ReadsHold
  <2>5. until >= date + OwedInAll /\ (~refunded => until <= date + OwedInAll)
    BY <1>5, <2>2, <2>3, <2>4 DEF StartsAt
  <2>6. OwedInAll = SumOf(owed, 1..n) /\ OwedInAll' = SumOf(owed', 1..(n + 1))
    BY <1>5, <1>7 DEF OwedInAll, OwedTo
  <2>7. OwedInAll' = OwedInAll + days BY <1>7, <2>6
  <2>8. row.active /\ row.until = until + days BY <1>3
  <2>9. OwedIsCovered'
    <3>1. SUFFICES ASSUME NEW m \in 1..(n + 1), owed'[m] > 0
                   PROVE  periods'[m].active /\ periods'[m].until >= date + SumOf(owed', 1..m)
      BY <1>4, <1>7 DEF OwedIsCovered, OwedTo
    <3>2. CASE m = n + 1
      <4>1. until + days >= date + (OwedInAll + days) BY <1>5, <2>2, <2>5
      <4> QED BY <1>6, <1>7, <2>6, <2>7, <2>8, <3>2, <4>1
    <3>3. CASE m \in 1..n
      <4>1. owed[m] > 0 BY <1>7, <3>1, <3>3
      <4>2. periods[m].active /\ periods[m].until >= date + SumOf(owed, 1..m)
        BY <1>5, <2>1, <3>3, <4>1 DEF OwedIsCovered, OwedTo
      <4> QED BY <1>6, <1>7, <3>3, <4>2
    <3> QED BY <1>5, <3>2, <3>3
  <2>10. NoneGiven'
    <3>1. SUFFICES ASSUME ~refunded, NEW m \in 1..(n + 1)
                   PROVE  periods'[m].until <= date + OwedInAll'
      BY <1>4, <1>6 DEF NoneGiven
    <3>2. CASE m = n + 1
      <4>1. until + days <= date + (OwedInAll + days) BY <1>5, <2>2, <2>5, <3>1
      <4> QED BY <1>6, <2>7, <2>8, <3>2, <4>1
    <3>3. CASE m \in 1..n
      <4>1. periods[m].until <= date + OwedInAll /\ periods[m].until \in Nat
        BY <1>1, <2>1, <3>1, <3>3, PeriodTyped DEF NoneGiven, n
      <4> QED BY <1>5, <1>6, <2>2, <2>7, <3>3, <4>1
    <3> QED BY <1>5, <3>2, <3>3
  <2>11. ReadsHold' BY <1>1, <1>4, <2>1, MemberEnds, NoMemberRequest
  <2> QED BY <2>9, <2>10, <2>11
<1> QED BY <1>8, <1>9 DEF MemberInv

LEMMA MemberRevokes ==
  ASSUME MemberInv, NEW o \in MemberOrders, CommitRevocation(o)
  PROVE  MemberInv'
<1>1. MemberTyped BY DEF MemberInv
<1>2. /\ memberTx[o].op = "revoke" /\ settled' = settled \ {o} /\ refunded' = TRUE
      /\ periods' = [m \in DOMAIN periods |->
           IF m \in memberTx[o].rows THEN [periods[m] EXCEPT !.active = FALSE] ELSE periods[m]]
      /\ owed' = [m \in DOMAIN owed |-> IF periods[m].order = o THEN 0 ELSE owed[m]]
      /\ memberTx' = [memberTx EXCEPT ![o] = NoMemberTx]
      /\ UNCHANGED <<serial, date>>
  BY DEF CommitRevocation
<1>3. /\ periods \in Seq(PeriodRow) /\ owed \in Seq(Nat) /\ Len(owed) = Len(periods)
      /\ date \in Nat
  BY <1>1, MembershipsAssumption DEF MemberTyped
<1>4. /\ DOMAIN periods = 1..Len(periods) /\ Len(periods) \in Nat
      /\ \A m \in 1..Len(periods) : periods[m] \in PeriodRow
  BY <1>1, PeriodTyped
<1>5. /\ periods' \in Seq(PeriodRow) /\ Len(periods') = Len(periods)
      /\ \A m \in 1..Len(periods) :
           /\ periods'[m].until = periods[m].until
           /\ m \notin memberTx[o].rows => periods'[m] = periods[m]
  <2>1. ASSUME NEW row \in PeriodRow
        PROVE  /\ [row EXCEPT !.active = FALSE] \in PeriodRow
               /\ [row EXCEPT !.active = FALSE].until = row.until
    BY DEF PeriodRow
  <2>2. \A m \in 1..Len(periods) : /\ periods'[m] \in PeriodRow
                                   /\ periods'[m].until = periods[m].until
                                   /\ m \notin memberTx[o].rows => periods'[m] = periods[m]
    BY <1>2, <1>4, <2>1
  <2>3. periods' \in [1..Len(periods) -> PeriodRow] BY <1>2, <1>4, <2>2
  <2> QED BY <1>4, <2>2, <2>3
<1>6. /\ owed' \in Seq(Nat) /\ Len(owed') = Len(owed)
      /\ \A m \in 1..Len(owed) : owed'[m] = IF periods[m].order = o THEN 0 ELSE owed[m]
  <2>1. /\ DOMAIN owed = 1..Len(owed) /\ Len(owed) \in Nat
        /\ \A m \in 1..Len(owed) : owed[m] \in Nat
    BY <1>3
  <2>2. \A m \in 1..Len(owed) : /\ owed'[m] = IF periods[m].order = o THEN 0 ELSE owed[m]
                                /\ owed'[m] \in Nat
    BY <1>2, <2>1
  <2>3. owed' \in [1..Len(owed) -> Nat] BY <1>2, <2>1, <2>2
  <2> QED BY <2>1, <2>2, <2>3
<1>7. MemberTyped'
  <2>1. memberTx' \in [MemberOrders -> MemberRequest] BY <1>1, <1>2, NoMemberRequest DEF MemberTyped
  <2> QED BY <1>1, <1>2, <1>3, <1>5, <1>6, <2>1 DEF MemberTyped
<1>8. ASSUME serial' PROVE OwedIsCovered' /\ NoneGiven' /\ ReadsHold'
  <2>1. OwedIsCovered /\ ReadsHold BY <1>2, <1>8 DEF MemberInv
  <2>2. memberTx[o].rows = {m \in DOMAIN periods : periods[m].order = o}
    BY <1>2, <2>1 DEF ReadsHold
  <2>3. OwedIsCovered'
    <3>1. SUFFICES ASSUME NEW m \in 1..Len(owed), owed'[m] > 0
                   PROVE  periods'[m].active /\ periods'[m].until >= date + SumOf(owed', 1..m)
      BY <1>2, <1>6 DEF OwedIsCovered, OwedTo
    <3>2. owed[m] > 0 /\ periods[m].order # o BY <1>6, <3>1
    <3>3. periods[m].active /\ periods[m].until >= date + SumOf(owed, 1..m)
      BY <2>1, <3>2 DEF OwedIsCovered, OwedTo
    <3>4. periods'[m] = periods[m] BY <1>3, <1>5, <2>2, <3>2
    <3>5. SumOf(owed', 1..m) <= SumOf(owed, 1..m)
      <4>1. PICK f \in Seq(Nat), g \in Seq(Nat) : f = owed /\ g = owed' BY <1>3, <1>6
      <4>2. ASSUME NEW i \in 1..Len(owed) PROVE f[i] \in Nat /\ g[i] \in Nat /\ g[i] <= f[i]
        <5>1. f[i] \in Nat /\ g[i] \in Nat BY <1>6, <4>1
        <5>2. g[i] = 0 \/ g[i] = f[i] BY <1>6, <4>1
        <5> QED BY <5>1, <5>2
      <4> DEFINE D == 1..m
      <4>3. IsFiniteSet(D) BY FS_Interval
      <4>4. \A i \in D : f[i] \in Nat /\ g[i] \in Nat /\ g[i] <= f[i] BY <4>2
      <4> HIDE DEF D
      <4>5. SumOf(g, D) <= SumOf(f, D) BY <4>3, <4>4, SumShrinks
      <4> QED BY <4>1, <4>5 DEF D
    <3>6. SumOf(owed', 1..m) \in Nat /\ SumOf(owed, 1..m) \in Nat
      <4>1. m \in 0..Len(owed) /\ m \in 0..Len(owed') BY <1>6
      <4> QED BY <1>3, <1>6, <4>1, OwedIsNumber
    <3>7. periods[m].until \in Nat BY <1>1, <1>3, PeriodTyped
    <3> QED BY <1>3, <3>3, <3>4, <3>5, <3>6, <3>7
  <2>4. NoneGiven' BY <1>2 DEF NoneGiven
  <2>5. ReadsHold' BY <1>1, <1>2, <2>1, MemberEnds, NoMemberRequest
  <2> QED BY <2>3, <2>4, <2>5
<1> QED BY <1>7, <1>8 DEF MemberInv

LEMMA MemberDayPasses == ASSUME MemberInv, MemberDay PROVE MemberInv'
<1>1. MemberTyped BY DEF MemberInv
<1>2. /\ date < LastMemberDay /\ date' = date + 1
      /\ UNCHANGED <<serial, periods, settled, refunded, memberTx>>
      /\ \A o \in MemberOrders : memberTx[o] = NoMemberTx
      /\ IF OwedOn = {} THEN UNCHANGED owed ELSE owed' = [owed EXCEPT ![Min(OwedOn)] = @ - 1]
  BY DEF MemberDay
<1>3. owed \in Seq(Nat) /\ date \in Nat /\ date' \in 0..LastMemberDay
      /\ Len(owed) = Len(periods)
  BY <1>1, <1>2, MembershipsAssumption DEF MemberTyped
<1>4. /\ owed' \in Seq(Nat) /\ Len(owed') = Len(owed)
      /\ \A m \in 1..Len(owed) : owed'[m] > 0 => owed[m] > 0 /\ OwedTo(m) = OwedTo(m)' + 1
      /\ OwedInAll = OwedInAll' \/ OwedInAll = OwedInAll' + 1
  <2>1. CASE OwedOn = {}
    <3>1. owed' = owed BY <1>2, <2>1
    <3>2. \A m \in 1..Len(owed) : ~(owed[m] > 0) BY <1>3, <2>1 DEF OwedOn
    <3>3. OwedInAll' = OwedInAll BY <3>1 DEF OwedInAll, OwedTo
    <3> QED BY <1>3, <3>1, <3>2, <3>3
  <2>2. CASE OwedOn # {}
    <3>1. PICK s \in Seq(Nat) : s = owed BY <1>3
    <3>2. OwedOn = {m \in DOMAIN s : s[m] > 0} BY <3>1 DEF OwedOn
    <3>3. Min(OwedOn) \in OwedOn /\ \A y \in OwedOn : Min(OwedOn) <= y
      <4>1. PICK P : P = OwedOn OBVIOUS
      <4>2. Min(P) \in P /\ \A y \in P : Min(P) <= y BY <2>2, <3>2, <4>1, OwedHasEnds
      <4> QED BY <4>1, <4>2
    <3>4. PICK j \in 1..Len(s) : j = Min(OwedOn) /\ s[j] > 0
      <4>1. DOMAIN s = 1..Len(s) OBVIOUS
      <4>2. Min(OwedOn) \in 1..Len(s) /\ s[Min(OwedOn)] > 0 BY <3>2, <3>3, <4>1
      <4> QED BY <4>2
    <3>5. \A i \in 1..Len(s) : s[i] > 0 => j <= i BY <3>2, <3>3, <3>4
    <3>6. owed' = [s EXCEPT ![j] = s[j] - 1] BY <1>2, <2>2, <3>1, <3>4
    <3>7. PICK r \in Seq(Nat) : r = owed' BY <3>4, <3>6
    <3>8. /\ Len(r) = Len(s)
          /\ \A i \in 1..Len(s) : r[i] = IF i = j THEN s[j] - 1 ELSE s[i]
      BY <3>6, <3>7
    <3>9. /\ \A m \in 1..Len(s) : r[m] > 0 => s[m] > 0 /\ SumOf(s, 1..m) = SumOf(r, 1..m) + 1
          /\ SumOf(s, 1..Len(s)) = SumOf(r, 1..Len(s)) + 1
      BY <3>4, <3>5, <3>8, OwedOneDayLess
    <3> QED BY <3>1, <3>7, <3>8, <3>9 DEF OwedInAll, OwedTo
  <2> QED BY <2>1, <2>2
<1>5. MemberTyped' BY <1>1, <1>2, <1>3, <1>4 DEF MemberTyped
<1>6. ASSUME serial' PROVE OwedIsCovered' /\ NoneGiven' /\ ReadsHold'
  <2>1. OwedIsCovered /\ NoneGiven BY <1>2, <1>6 DEF MemberInv
  <2>2. \A m \in 1..Len(periods) : periods[m].until \in Nat BY <1>1, PeriodTyped
  <2>3. \A m \in 0..Len(owed) : OwedTo(m) \in Nat /\ OwedTo(m)' \in Nat
    BY <1>3, <1>4, OwedIsNumber DEF OwedTo
  <2>4. OwedInAll \in Nat /\ OwedInAll' \in Nat
    <3>1. Len(owed) \in 0..Len(owed) BY <1>3
    <3> QED BY <1>4, <2>3, <3>1 DEF OwedInAll, OwedTo
  <2>5. OwedIsCovered'
    <3>1. SUFFICES ASSUME NEW m \in 1..Len(owed), owed'[m] > 0
                   PROVE  periods[m].active /\ periods[m].until >= date' + OwedTo(m)'
      BY <1>2, <1>4 DEF OwedIsCovered, OwedTo
    <3>2. owed[m] > 0 /\ OwedTo(m) = OwedTo(m)' + 1 BY <1>4, <3>1
    <3>3. periods[m].active /\ periods[m].until >= date + OwedTo(m) BY <2>1, <3>2 DEF OwedIsCovered
    <3>4. OwedTo(m)' \in Nat /\ periods[m].until \in Nat BY <1>3, <2>2, <2>3
    <3> QED BY <1>2, <1>3, <3>2, <3>3, <3>4
  <2>6. NoneGiven'
    <3>1. SUFFICES ASSUME ~refunded, NEW m \in 1..Len(periods)
                   PROVE  periods[m].until <= date' + OwedInAll'
      BY <1>2 DEF NoneGiven
    <3>2. periods[m].until <= date + OwedInAll BY <2>1, <3>1 DEF NoneGiven
    <3>3. PICK u \in Nat, v \in Nat, w \in Nat : u = periods[m].until /\ v = OwedInAll /\ w = OwedInAll'
      BY <2>2, <2>4
    <3>4. u <= date + v /\ (v = w \/ v = w + 1) BY <1>4, <3>2, <3>3
    <3>5. date' = date + 1 /\ date \in Nat BY <1>2, <1>3
    <3>6. u <= date' + w BY <3>4, <3>5
    <3> QED BY <3>3, <3>6
  <2>7. ReadsHold' BY <1>2, NoMemberRequest DEF ReadsHold
  <2> QED BY <2>5, <2>6, <2>7
<1> QED BY <1>5, <1>6 DEF MemberInv

LEMMA MemberInductive == MemberInv /\ MembershipsNext => MemberInv'
<1> SUFFICES ASSUME MemberInv, MembershipsNext PROVE MemberInv' OBVIOUS
<1>1. MemberTyped BY DEF MemberInv
<1>2. ASSUME NEW o \in MemberOrders, NEW days \in PlanDays, BeginActivate(o, days) PROVE MemberInv'
  <2> DEFINE t == [NoMemberTx EXCEPT !.op = "activate", !.days = days, !.until = StartsAt(Ends)]
  <2>1. StartsAt(Ends) \in Nat
    BY <1>1, EndsIs, MembershipsAssumption DEF StartsAt, MemberTyped
  <2>2. t \in MemberRequest /\ t.op = "activate" /\ t.until = StartsAt(Ends)
    BY <2>1, MembershipsAssumption DEF NoMemberTx, MemberRequest
  <2>3. BeginMember(o, t) BY <1>2 DEF BeginActivate
  <2> HIDE DEF t
  <2> QED BY <2>2, <2>3, MemberBegins
<1>3. ASSUME NEW o \in MemberOrders, BeginRevocation(o) PROVE MemberInv'
  <2> DEFINE t == [NoMemberTx EXCEPT !.op = "revoke",
                     !.rows = {m \in DOMAIN periods : periods[m].order = o}]
  <2>1. {m \in DOMAIN periods : periods[m].order = o} \subseteq Nat BY <1>1, PeriodTyped
  <2>2. /\ t \in MemberRequest /\ t.op = "revoke"
        /\ t.rows = {m \in DOMAIN periods : periods[m].order = o}
    BY <2>1 DEF NoMemberTx, MemberRequest
  <2>3. BeginMember(o, t) BY <1>3 DEF BeginRevocation
  <2> HIDE DEF t
  <2> QED BY <2>2, <2>3, MemberBegins
<1> QED BY <1>2, <1>3, MemberActivates, MemberRevokes, MemberAborts, MemberDayPasses
        DEF MembershipsNext

LEMMA MemberInitially == ASSUME MembershipsInit PROVE MemberInv
<1>1. /\ date = 0 /\ periods = <<>> /\ settled = {} /\ owed = <<>> /\ refunded = FALSE
      /\ memberTx = [o \in MemberOrders |-> NoMemberTx]
  BY DEF MembershipsInit
<1>2. Len(<<>>) = 0 OBVIOUS
<1>3. MemberTyped
  <2>1. <<>> \in Seq(PeriodRow) /\ <<>> \in Seq(Nat) OBVIOUS
  <2>2. memberTx \in [MemberOrders -> MemberRequest] BY <1>1, NoMemberRequest
  <2>3. date \in 0..LastMemberDay BY <1>1, MembershipsAssumption
  <2>4. Len(owed) = Len(periods) /\ settled \subseteq MemberOrders /\ refunded \in BOOLEAN BY <1>1
  <2>5. periods \in Seq(PeriodRow) /\ owed \in Seq(Nat) BY <1>1, <2>1
  <2> QED BY <2>2, <2>3, <2>4, <2>5 DEF MemberTyped
<1>4. OwedIsCovered BY <1>1, <1>2 DEF OwedIsCovered
<1>5. NoneGiven BY <1>1, <1>2 DEF NoneGiven
<1>6. ReadsHold BY <1>1, NoMemberRequest DEF ReadsHold
<1> QED BY <1>3, <1>4, <1>5, <1>6 DEF MemberInv

LEMMA MemberTypes == ASSUME MemberInv PROVE MembershipsTypeOK /\ PaidDaysAreKept
<1>1. MemberTyped BY DEF MemberInv
<1>2. MembershipsTypeOK BY <1>1, PeriodTyped DEF MemberTyped, MembershipsTypeOK
<1>3. DaysOwed = OwedInAll
  <2>1. DOMAIN owed = 1..Len(owed) BY <1>1 DEF MemberTyped
  <2> QED BY <2>1, SumUnfolds DEF DaysOwed, SumFunction, OwedInAll, OwedTo
<1>4. PaidDaysAreKept
  <2>1. SUFFICES ASSUME serial
                 PROVE  /\ OwedInAll > 0 => Ends - date >= OwedInAll
                        /\ ~refunded => Ends = IF OwedInAll = 0 THEN 0 ELSE date + OwedInAll
    BY <1>3 DEF PaidDaysAreKept
  <2>2. /\ OwedInAll \in Nat
        /\ OwedInAll > 0 => Ends >= date + OwedInAll
        /\ ~refunded => Ends <= date + OwedInAll
        /\ ~refunded /\ OwedInAll = 0 => Ends = 0
    BY <1>1, <2>1, EndsCover DEF MemberInv
  <2>3. Ends \in Nat /\ date \in Nat BY <1>1, EndsIs, MembershipsAssumption DEF MemberTyped
  <2> QED BY <2>2, <2>3
<1> QED BY <1>2, <1>4

-----------------------------------------------------------------------------
(***************************************************************************)
(* The scripts can be killed and run again, for any number of titles and   *)
(* days.  What a run of seed_pages has found stays true until it is used:  *)
(* a title without a row has none, a published row is never pending again; *)
(* and each stage leaves behind what the next ones take for granted.       *)
(***************************************************************************)
SeedStatus == {"pending", "published", "gone"}
SeedStages == {"off", "titles", "companion", "friends", "shelf", "done"}

SeedTyped ==
  /\ script \in {"content", "pages"} /\ pc \in SeedStages /\ at \in Nat /\ made \in Nat
  /\ rows \in [1..Titles -> Seq(SeedStatus)]
  /\ listed \in [1..Titles -> [row : Nat, status : SeedStatus \cup {"none"}]]
  /\ \A t \in 1..Titles : Len(rows[t]) <= MaxRows /\ listed[t].row <= Len(rows[t])
  /\ slots \in [1..Days -> Seq({"open", "ours", "taken"})]
  /\ offers \in {0, 1} /\ shelf \in -1..Titles

\* A title that is there, and through its review.
TitleDone(t) == rows[t] # <<>> /\ (rows[t][1] = "pending" => t \in LeftPending)

\* One row each; what was found published has been reviewed.
RowsOnce ==
  \A t \in 1..Titles :
    /\ Len(rows[t]) <= 1
    /\ listed[t].status = "published" => rows[t] # <<>> /\ rows[t][1] # "pending"

\* What the stage of the titles has done so far, and found to do.
TitlesSoFar ==
  pc = "titles" =>
    /\ at = 0 => made = 0
    /\ at > 0 => \A t \in 1..Titles :
         /\ t < at => TitleDone(t)
         /\ t > at /\ listed[t].row = 0 => rows[t] = <<>>
         /\ t = at /\ made = 0 /\ listed[t].row = 0 => rows[t] = <<>>
         /\ t = at /\ made # 0 => made = 1 /\ rows[t] # <<>> /\ listed[t].row = 0

\* What the stages have left behind.
StagesSoFar ==
  /\ pc \in {"companion", "friends", "shelf", "done"} => \A t \in 1..Titles : TitleDone(t)
  /\ pc = "companion" /\ at = 1 => helper = "active" /\ offers = 1
  /\ pc \in {"friends", "shelf", "done"} =>
       helper = "active" /\ offers = 1 /\ booking \in {"none", "completed"}
  /\ pc = "shelf" /\ at > 0 => shelf = at
  /\ pc = "done" => shelf > 0

SeedInv == SeedTyped /\ (script = "pages" => RowsOnce /\ TitlesSoFar /\ StagesSoFar)

\* A stage that is entered has found nothing yet.
LEMMA SeedEnters ==
  ASSUME SeedInv, NEW stage \in SeedStages, Enter(stage),
         script = "pages" =>
           /\ stage \in {"companion", "friends", "shelf", "done"} => \A t \in 1..Titles : TitleDone(t)
           /\ stage \in {"friends", "shelf", "done"} =>
                helper = "active" /\ offers = 1 /\ booking \in {"none", "completed"}
           /\ stage = "done" => shelf > 0
  PROVE  SeedInv'
<1>1. /\ pc' = stage /\ at' = 0 /\ made' = 0
      /\ listed' = [t \in 1..Titles |-> NotFound]
      /\ UNCHANGED <<script, rows, helper, offers, slots, booking, shelf>>
  BY DEF Enter, worldVars
<1>2. \A t \in 1..Titles : listed'[t].row = 0 /\ listed'[t].status = "none"
  BY <1>1 DEF NotFound
<1>3. SeedTyped'
  <2>1. listed' \in [1..Titles -> [row : Nat, status : SeedStatus \cup {"none"}]]
    BY <1>1 DEF NotFound
  <2>2. \A t \in 1..Titles : Len(rows[t]) <= MaxRows /\ listed'[t].row <= Len(rows[t])
    BY <1>2 DEF SeedInv, SeedTyped
  <2> QED BY <1>1, <2>1, <2>2 DEF SeedInv, SeedTyped
<1>4. ASSUME script' = "pages" PROVE RowsOnce' /\ TitlesSoFar' /\ StagesSoFar'
  <2>1. RowsOnce' BY <1>1, <1>2, <1>4 DEF SeedInv, RowsOnce
  <2>2. TitlesSoFar' BY <1>1 DEF TitlesSoFar
  <2>3. \A t \in 1..Titles : TitleDone(t) => TitleDone(t)' BY <1>1 DEF TitleDone
  <2>4. StagesSoFar' BY <1>1, <1>4, <2>3 DEF StagesSoFar
  <2> QED BY <2>1, <2>2, <2>4
<1> QED BY <1>3, <1>4 DEF SeedInv

\* What leaves the rows and the titles alone.
LEMMA SeedKeepsTitles ==
  ASSUME SeedInv, UNCHANGED <<script, pc, made, listed, rows>>,
         pc = "titles" => at' = at,
         at' \in Nat, slots' \in [1..Days -> Seq({"open", "ours", "taken"})],
         offers' \in {0, 1}, shelf' \in -1..Titles,
         script = "pages" =>
           /\ pc = "companion" /\ at' = 1 => helper' = "active" /\ offers' = 1
           /\ pc \in {"friends", "shelf", "done"} =>
                helper' = "active" /\ offers' = 1 /\ booking' \in {"none", "completed"}
           /\ pc = "shelf" /\ at' > 0 => shelf' = at'
           /\ pc = "done" => shelf' > 0
  PROVE  SeedInv'
<1>1. SeedTyped' BY DEF SeedInv, SeedTyped
<1>2. ASSUME script' = "pages" PROVE RowsOnce' /\ TitlesSoFar' /\ StagesSoFar'
  <2>1. RowsOnce /\ TitlesSoFar /\ StagesSoFar BY <1>2 DEF SeedInv
  <2>2. RowsOnce' BY <2>1 DEF RowsOnce
  <2>3. \A t \in 1..Titles : TitleDone(t) => TitleDone(t)' BY DEF TitleDone
  <2>4. TitlesSoFar' BY <2>1, <2>3 DEF TitlesSoFar
  <2>5. StagesSoFar' BY <1>2, <2>1, <2>3 DEF StagesSoFar
  <2> QED BY <2>2, <2>4, <2>5
<1> QED BY <1>1, <1>2 DEF SeedInv

\* A row that is reviewed or taken down is not pending, and never is again.
LEMMA SeedReviews ==
  ASSUME SeedTyped, NEW t \in 1..Titles, NEW r \in Nat, NEW s \in {"published", "gone"},
         rows' = [rows EXCEPT ![t][r] = s]
  PROVE  /\ rows' \in [1..Titles -> Seq(SeedStatus)]
         /\ \A u \in 1..Titles :
              /\ Len(rows'[u]) = Len(rows[u])
              /\ rows[u] # <<>> => rows'[u] # <<>>
              /\ rows[u] = <<>> => rows'[u] = <<>>
              /\ rows[u] # <<>> /\ rows'[u][1] = "pending" => rows[u][1] = "pending"
         /\ r = 1 /\ rows[t] # <<>> => rows'[t][1] = s
<1>1. /\ rows \in [1..Titles -> Seq(SeedStatus)]
      /\ \A u \in 1..Titles : rows'[u] = IF u = t THEN [rows[t] EXCEPT ![r] = s] ELSE rows[u]
      /\ DOMAIN rows' = 1..Titles
  BY DEF SeedTyped
<1>2. ASSUME NEW old \in Seq(SeedStatus), NEW new, new = [old EXCEPT ![r] = s]
      PROVE  /\ new \in Seq(SeedStatus) /\ Len(new) = Len(old)
             /\ old # <<>> => /\ new # <<>> /\ (new[1] = "pending" => old[1] = "pending")
                              /\ r = 1 => new[1] = s
             /\ old = <<>> => new = <<>>
  <2>1. s \in SeedStatus BY DEF SeedStatus
  <2>2. new \in Seq(SeedStatus) /\ Len(new) = Len(old)
    <3>1. DOMAIN old = 1..Len(old) /\ Len(old) \in Nat /\ \A i \in 1..Len(old) : old[i] \in SeedStatus
      OBVIOUS
    <3>2. new \in [1..Len(old) -> SeedStatus] BY <1>2, <2>1, <3>1
    <3> QED BY <3>1, <3>2
  <2>3. ASSUME old # <<>> PROVE 1 \in DOMAIN old /\ Len(old) # 0 BY <2>3
  <2>4. old # <<>> => new # <<>> /\ (new[1] = "pending" => old[1] = "pending") /\ (r = 1 => new[1] = s)
    BY <1>2, <2>2, <2>3
  <2>5. old = <<>> => new = <<>> BY <1>2
  <2> QED BY <2>2, <2>4, <2>5
<1>3. PICK old, new : old \in Seq(SeedStatus) /\ old = rows[t] /\ new = rows'[t] BY <1>1
<1>4. new = [old EXCEPT ![r] = s] BY <1>1, <1>3
<1>5. /\ new \in Seq(SeedStatus) /\ Len(new) = Len(old)
      /\ old # <<>> => /\ new # <<>> /\ (new[1] = "pending" => old[1] = "pending")
                       /\ r = 1 => new[1] = s
      /\ old = <<>> => new = <<>>
  <2>1. old \in Seq(SeedStatus) BY <1>3
  <2> QED BY <2>1, <1>2, <1>4
<1>6. \A u \in 1..Titles : rows'[u] = IF u = t THEN new ELSE rows[u] BY <1>1, <1>3
<1>7. rows' \in [1..Titles -> Seq(SeedStatus)]
  <2>1. rows' = [u \in 1..Titles |-> IF u = t THEN new ELSE rows[u]] BY <1>1, <1>3, <1>4
  <2>2. \A u \in 1..Titles : (IF u = t THEN new ELSE rows[u]) \in Seq(SeedStatus) BY <1>1, <1>5
  <2> QED BY <2>1, <2>2
<1> QED BY <1>3, <1>5, <1>6, <1>7

LEMMA SeedReviewed ==
  ASSUME SeedInv, NEW t \in 1..Titles, NEW r \in Nat, NEW s \in {"published", "gone"},
         rows' = [rows EXCEPT ![t][r] = s],
         UNCHANGED <<script, listed, pc, helper, offers, slots, booking, shelf>>,
         at' \in Nat, made' \in Nat
  PROVE  /\ SeedTyped'
         /\ script = "pages" => RowsOnce'
         /\ \A u \in 1..Titles : TitleDone(u) => TitleDone(u)'
<1>1. SeedTyped BY DEF SeedInv
<1>2. /\ rows' \in [1..Titles -> Seq(SeedStatus)]
      /\ \A u \in 1..Titles :
           /\ Len(rows'[u]) = Len(rows[u])
           /\ rows[u] # <<>> => rows'[u] # <<>>
           /\ rows[u] = <<>> => rows'[u] = <<>>
           /\ rows[u] # <<>> /\ rows'[u][1] = "pending" => rows[u][1] = "pending"
      /\ r = 1 /\ rows[t] # <<>> => rows'[t][1] = s
  BY <1>1, SeedReviews
<1>3. SeedTyped' BY <1>1, <1>2 DEF SeedTyped
<1>4. script = "pages" => RowsOnce' BY <1>2 DEF SeedInv, RowsOnce
<1>5. \A u \in 1..Titles : TitleDone(u) => TitleDone(u)' BY <1>2 DEF TitleDone
<1> QED BY <1>3, <1>4, <1>5

LEMMA SeedModerates ==
  ASSUME SeedInv, NEW t \in 1..Titles, Moderate(t)
  PROVE  SeedInv'
<1>1. /\ UNCHANGED <<script, pc, at, made, listed, helper, offers, slots, booking, shelf>>
      /\ \E r \in DOMAIN rows[t] : \E s \in {"published", "gone"} : rows' = [rows EXCEPT ![t][r] = s]
  BY DEF Moderate, runVars
<1>2. SeedTyped BY DEF SeedInv
<1>3. PICK r \in Nat, s \in {"published", "gone"} : rows' = [rows EXCEPT ![t][r] = s]
  <2>1. rows[t] \in Seq(SeedStatus) BY <1>2 DEF SeedTyped
  <2>2. DOMAIN rows[t] \subseteq Nat BY <2>1
  <2> QED BY <1>1, <2>2
<1>4. /\ SeedTyped'
      /\ script = "pages" => RowsOnce'
      /\ \A u \in 1..Titles : TitleDone(u) => TitleDone(u)'
  BY <1>1, <1>2, <1>3, SeedReviewed DEF SeedTyped
<1>5. \A u \in 1..Titles : /\ rows[u] = <<>> => rows'[u] = <<>>
                           /\ rows[u] # <<>> => rows'[u] # <<>>
  BY <1>2, <1>3, SeedReviews
<1>6. ASSUME script = "pages" PROVE TitlesSoFar' /\ StagesSoFar'
  <2>1. TitlesSoFar /\ StagesSoFar BY <1>6 DEF SeedInv
  <2>2. TitlesSoFar' BY <1>1, <1>4, <1>5, <2>1 DEF TitlesSoFar
  <2>3. StagesSoFar' BY <1>1, <1>4, <2>1 DEF StagesSoFar
  <2> QED BY <2>2, <2>3
<1> QED BY <1>1, <1>4, <1>6 DEF SeedInv

LEMMA SeedApproves ==
  ASSUME SeedInv, NEW t \in 1..Titles, Approve(t)
  PROVE  SeedInv'
<1> DEFINE r == IF made # 0 THEN made ELSE listed[t].row
<1>1. /\ pc = "titles" /\ at = t /\ r # 0 /\ t \notin LeftPending
      /\ rows' = [rows EXCEPT ![t][r] = "published"]
      /\ at' = t + 1 /\ made' = 0
      /\ UNCHANGED <<script, pc, listed, helper, offers, slots, booking, shelf>>
  BY DEF Approve, AtTitle
<1>2. SeedTyped BY DEF SeedInv
<1>3. r \in Nat BY <1>2 DEF SeedTyped
<1>4. r # 0 /\ (made # 0 => r = made) /\ (made = 0 => r = listed[t].row) BY <1>1
<1> HIDE DEF r
<1>5. /\ SeedTyped'
      /\ script = "pages" => RowsOnce'
      /\ \A u \in 1..Titles : TitleDone(u) => TitleDone(u)'
  <2>1. at' \in Nat /\ made' \in Nat BY <1>1
  <2> QED BY <1>1, <1>3, <2>1, SeedReviewed
<1>6. /\ \A u \in 1..Titles : /\ rows[u] = <<>> => rows'[u] = <<>>
                              /\ rows[u] # <<>> => rows'[u] # <<>>
      /\ r = 1 /\ rows[t] # <<>> => rows'[t][1] = "published"
  BY <1>1, <1>2, <1>3, SeedReviews
<1>7. ASSUME script = "pages" PROVE TitlesSoFar' /\ StagesSoFar'
  <2>1. RowsOnce /\ TitlesSoFar BY <1>7 DEF SeedInv
  <2>2. r = 1 /\ rows[t] # <<>>
    <3>1. CASE made # 0 BY <1>1, <1>4, <2>1, <3>1 DEF TitlesSoFar
    <3>2. CASE made = 0
      <4>1. Len(rows[t]) <= 1 /\ listed[t].row <= Len(rows[t]) BY <1>2, <2>1 DEF RowsOnce, SeedTyped
      <4>2. rows[t] \in Seq(SeedStatus) BY <1>2 DEF SeedTyped
      <4>3. Len(rows[t]) \in Nat /\ (rows[t] = <<>> => Len(rows[t]) = 0) BY <4>2
      <4> QED BY <1>3, <1>4, <3>2, <4>1, <4>3
    <3> QED BY <3>1, <3>2
  <2>3. TitleDone(t)' BY <1>6, <2>2 DEF TitleDone
  <2>4. ASSUME NEW u \in 1..Titles
        PROVE  /\ u < t + 1 => TitleDone(u)'
               /\ u > t + 1 /\ listed[u].row = 0 => rows'[u] = <<>>
               /\ u = t + 1 /\ listed[u].row = 0 => rows'[u] = <<>>
    <3>1. u < t => TitleDone(u)' BY <1>1, <1>5, <2>1 DEF TitlesSoFar
    <3>2. u > t /\ listed[u].row = 0 => rows'[u] = <<>> BY <1>1, <1>6, <2>1 DEF TitlesSoFar
    <3> QED BY <2>3, <3>1, <3>2
  <2>5. TitlesSoFar' BY <1>1, <2>4 DEF TitlesSoFar
  <2>6. StagesSoFar' BY <1>1 DEF StagesSoFar
  <2> QED BY <2>5, <2>6
<1> QED BY <1>1, <1>5, <1>7 DEF SeedInv

LEMMA SeedCreates ==
  ASSUME SeedInv, NEW t \in 1..Titles, CreateRow(t)
  PROVE  SeedInv'
<1>1. /\ pc = "titles" /\ at = t /\ made = 0 /\ listed[t].row = 0 /\ Len(rows[t]) < MaxRows
      /\ rows' = [rows EXCEPT ![t] = Append(@, "pending")]
      /\ made' = IF t \in LeftPending THEN 0 ELSE Len(rows[t]) + 1
      /\ at' = IF t \in LeftPending THEN t + 1 ELSE t
      /\ UNCHANGED <<script, pc, listed, helper, offers, slots, booking, shelf>>
  BY DEF CreateRow, AtTitle
<1>2. SeedTyped BY DEF SeedInv
<1>3. PICK old \in Seq(SeedStatus) : old = rows[t] BY <1>2 DEF SeedTyped
<1>4. PICK new : new = Append(old, "pending") OBVIOUS
<1>5. new \in Seq(SeedStatus) /\ Len(new) = Len(old) + 1 /\ new # <<>> /\ Len(old) \in Nat
  BY <1>4 DEF SeedStatus
<1>6. /\ rows' = [rows EXCEPT ![t] = new]
      /\ \A u \in 1..Titles : rows'[u] = IF u = t THEN new ELSE rows[u]
  BY <1>1, <1>2, <1>3, <1>4 DEF SeedTyped
<1>7. SeedTyped'
  <2>1. rows' \in [1..Titles -> Seq(SeedStatus)] BY <1>2, <1>5, <1>6 DEF SeedTyped
  <2>2. made' \in Nat /\ at' \in Nat BY <1>1, <1>3, <1>5
  <2>3. MaxRows \in Nat BY SeedingAssumption
  <2>4. ASSUME NEW u \in 1..Titles PROVE Len(rows'[u]) <= MaxRows /\ listed[u].row <= Len(rows'[u])
    <3>1. CASE u = t
      <4>1. rows'[u] = new BY <1>6, <3>1
      <4>2. listed[u].row <= Len(old) /\ Len(old) < MaxRows /\ listed[u].row \in Nat
        BY <1>1, <1>2, <1>3, <3>1 DEF SeedTyped
      <4> QED BY <1>5, <2>3, <4>1, <4>2
    <3>2. CASE u # t
      <4>1. rows'[u] = rows[u] BY <1>6, <3>2
      <4> QED BY <1>2, <4>1 DEF SeedTyped
    <3> QED BY <3>1, <3>2
  <2> QED BY <1>1, <1>2, <2>1, <2>2, <2>4 DEF SeedTyped
<1>8. ASSUME script = "pages" PROVE RowsOnce' /\ TitlesSoFar' /\ StagesSoFar'
  <2>1. RowsOnce /\ TitlesSoFar BY <1>8 DEF SeedInv
  <2>2. old = <<>> BY <1>1, <1>3, <2>1 DEF TitlesSoFar
  <2>3. Len(new) = 1 /\ new[1] = "pending" BY <1>4, <2>2
  <2>4. listed[t].status # "published" BY <1>3, <2>1, <2>2 DEF RowsOnce
  <2>5. RowsOnce' BY <1>1, <1>6, <2>1, <2>3, <2>4 DEF RowsOnce
  <2>6. \A u \in 1..Titles : u < t => TitleDone(u)'
    BY <1>1, <1>6, <2>1 DEF TitlesSoFar, TitleDone
  <2>7. \A u \in 1..Titles : u > t /\ listed[u].row = 0 => rows'[u] = <<>>
    BY <1>1, <1>6, <2>1 DEF TitlesSoFar
  <2>8. TitlesSoFar'
    <3>1. CASE t \in LeftPending
      <4>1. at' = t + 1 /\ made' = 0 BY <1>1, <3>1
      <4>2. TitleDone(t)' BY <1>5, <1>6, <3>1 DEF TitleDone
      <4>3. ASSUME NEW u \in 1..Titles
            PROVE  /\ u < t + 1 => TitleDone(u)'
                   /\ u >= t + 1 /\ listed[u].row = 0 => rows'[u] = <<>>
        BY <2>6, <2>7, <4>2
      <4> QED BY <1>1, <4>1, <4>3 DEF TitlesSoFar
    <3>2. CASE t \notin LeftPending
      <4>1. at' = t /\ made' = 1 BY <1>1, <1>3, <2>2, <3>2
      <4>2. rows'[t] # <<>> BY <1>5, <1>6
      <4> QED BY <1>1, <2>6, <2>7, <4>1, <4>2 DEF TitlesSoFar
    <3> QED BY <3>1, <3>2
  <2>9. StagesSoFar' BY <1>1 DEF StagesSoFar
  <2> QED BY <2>5, <2>8, <2>9
<1> QED BY <1>1, <1>7, <1>8 DEF SeedInv

LEMMA SeedSkips ==
  ASSUME SeedInv, NEW t \in 1..Titles, SkipRow(t)
  PROVE  SeedInv'
<1>1. /\ pc = "titles" /\ at = t /\ listed[t].row # 0 /\ at' = t + 1
      /\ t \in LeftPending \/ listed[t].status = "published"
      /\ UNCHANGED <<script, pc, made, listed, rows, helper, offers, slots, booking, shelf>>
  BY DEF SkipRow, AtTitle, worldVars
<1>2. SeedTyped /\ SeedTyped' BY <1>1 DEF SeedInv, SeedTyped
<1>3. ASSUME script = "pages" PROVE RowsOnce' /\ TitlesSoFar' /\ StagesSoFar'
  <2>1. RowsOnce /\ TitlesSoFar BY <1>3 DEF SeedInv
  <2>2. RowsOnce' BY <1>1, <2>1 DEF RowsOnce
  <2>3. made = 0 BY <1>1, <2>1 DEF TitlesSoFar
  <2>4. rows[t] # <<>>
    <3>1. rows[t] \in Seq(SeedStatus) /\ listed[t].row <= Len(rows[t]) /\ listed[t].row \in Nat
      BY <1>2 DEF SeedTyped
    <3> QED BY <1>1, <3>1
  <2>5. TitleDone(t) BY <1>1, <2>1, <2>4 DEF TitleDone, RowsOnce
  <2>6. ASSUME NEW u \in 1..Titles
        PROVE  /\ u < t + 1 => TitleDone(u)'
               /\ u >= t + 1 /\ listed[u].row = 0 => rows[u] = <<>>
    <3>1. u < t => TitleDone(u) BY <1>1, <2>1 DEF TitlesSoFar
    <3>2. u > t /\ listed[u].row = 0 => rows[u] = <<>> BY <1>1, <2>1 DEF TitlesSoFar
    <3>3. TitleDone(u)' = TitleDone(u) BY <1>1 DEF TitleDone
    <3> QED BY <2>5, <3>1, <3>2, <3>3
  <2>7. TitlesSoFar' BY <1>1, <2>3, <2>6 DEF TitlesSoFar
  <2>8. StagesSoFar' BY <1>1 DEF StagesSoFar
  <2> QED BY <2>2, <2>7, <2>8
<1> QED BY <1>1, <1>2, <1>3 DEF SeedInv

\* What is listed of a title is a row of it; seed_pages is shown them all.
LEMMA ListingIs ==
  ASSUME SeedTyped, NEW t \in 1..Titles
  PROVE  /\ Listing(t) \in [row : Nat, status : SeedStatus \cup {"none"}]
         /\ Listing(t).row <= Len(rows[t])
         /\ Listing(t).row # 0 =>
              Listing(t).row \in DOMAIN rows[t] /\ Listing(t).status = rows[t][Listing(t).row]
         /\ Listing(t).row = 0 => Listing(t).status = "none"
         /\ script = "pages" /\ Listing(t).row = 0 => rows[t] = <<>>
<1> DEFINE S == ShownRows(t)
           r == CHOOSE r \in S : \A s \in S : r <= s
<1>1. PICK list \in Seq(SeedStatus) : list = rows[t] BY DEF SeedTyped
<1>2. S \subseteq DOMAIN list /\ DOMAIN list = 1..Len(list) /\ Len(list) \in Nat
  BY <1>1 DEF ShownRows
<1>3. script = "pages" => S = DOMAIN list BY <1>1 DEF ShownRows
<1>4. CASE S = {}
  <2>1. Listing(t) = NotFound BY <1>4 DEF Listing
  <2>2. ASSUME script = "pages" PROVE list = <<>>
    <3>1. 1..Len(list) = {} BY <1>2, <1>3, <1>4, <2>2
    <3>2. ~(1 <= Len(list)) BY <1>2, <3>1
    <3>3. Len(list) = 0 BY <1>2, <3>2
    <3> QED BY <3>3
  <2> QED BY <1>1, <1>2, <2>1, <2>2 DEF NotFound
<1>5. CASE S # {}
  <2>1. IsFiniteSet(S) /\ S \in SUBSET Nat
    <3>1. IsFiniteSet(1..Len(list)) BY <1>2, FS_Interval
    <3> QED BY <1>2, <3>1, FS_Subset
  <2>2. r \in S
    <3> HIDE DEF S
    <3>1. \E a \in S : \A s \in S : a <= s
      <4>1. Min(S) \in S /\ \A s \in S : Min(S) <= s BY <1>5, <2>1, Extremes
      <4> QED BY <4>1
    <3> QED BY <3>1
  <2>3. Listing(t) = [row |-> r, status |-> rows[t][r]] BY <1>5 DEF Listing
  <2> HIDE DEF r
  <2>4. r \in 1..Len(list) /\ list[r] \in SeedStatus BY <1>2, <2>2
  <2> QED BY <1>1, <1>2, <2>3, <2>4
<1> QED BY <1>4, <1>5

LEMMA SeedLists == ASSUME SeedInv, ListTitles PROVE SeedInv'
<1>1. /\ pc = "titles" /\ at = 0 /\ at' = 1
      /\ listed' = [t \in 1..Titles |-> Listing(t)]
      /\ UNCHANGED <<script, pc, made, rows, helper, offers, slots, booking, shelf>>
  BY DEF ListTitles, worldVars
<1>2. SeedTyped BY DEF SeedInv
<1>3. ASSUME NEW t \in 1..Titles
      PROVE  /\ listed'[t] \in [row : Nat, status : SeedStatus \cup {"none"}]
             /\ listed'[t].row <= Len(rows[t])
             /\ listed'[t].row # 0 =>
                  listed'[t].row \in DOMAIN rows[t] /\ listed'[t].status = rows[t][listed'[t].row]
             /\ listed'[t].row = 0 => listed'[t].status = "none"
             /\ script = "pages" /\ listed'[t].row = 0 => rows[t] = <<>>
  <2>1. listed'[t] = Listing(t) BY <1>1
  <2> QED BY <1>2, <2>1, ListingIs
<1>4. SeedTyped'
  <2>1. listed' \in [1..Titles -> [row : Nat, status : SeedStatus \cup {"none"}]]
    <3>1. \A t \in 1..Titles : Listing(t) \in [row : Nat, status : SeedStatus \cup {"none"}]
      BY <1>2, ListingIs
    <3> QED BY <1>1, <3>1
  <2>2. at' \in Nat BY <1>1
  <2> QED BY <1>1, <1>2, <1>3, <2>1, <2>2 DEF SeedTyped
<1>5. ASSUME script = "pages" PROVE RowsOnce' /\ TitlesSoFar' /\ StagesSoFar'
  <2>1. RowsOnce /\ TitlesSoFar BY <1>5 DEF SeedInv
  <2>2. RowsOnce'
    <3>1. SUFFICES ASSUME NEW t \in 1..Titles
                   PROVE  /\ Len(rows[t]) <= 1
                          /\ listed'[t].status = "published" =>
                               rows[t] # <<>> /\ rows[t][1] # "pending"
      BY <1>1 DEF RowsOnce
    <3>2. PICK list \in Seq(SeedStatus) : list = rows[t] BY <1>2 DEF SeedTyped
    <3>3. Len(list) <= 1 BY <2>1, <3>2 DEF RowsOnce
    <3>4. ASSUME listed'[t].status = "published" PROVE list # <<>> /\ list[1] # "pending"
      <4>1. listed'[t].row # 0 BY <1>3, <3>4
      <4>2. listed'[t].row \in DOMAIN list /\ list[listed'[t].row] = "published"
        BY <1>3, <3>2, <3>4, <4>1
      <4>3. listed'[t].row = 1 BY <3>3, <4>2
      <4> QED BY <4>2, <4>3
    <3> QED BY <3>2, <3>3, <3>4
  <2>3. made = 0 BY <1>1, <2>1 DEF TitlesSoFar
  <2>4. \A t \in 1..Titles : listed'[t].row = 0 => rows[t] = <<>> BY <1>3, <1>5
  <2>5. TitlesSoFar' BY <1>1, <2>3, <2>4 DEF TitlesSoFar
  <2>6. StagesSoFar' BY <1>1 DEF StagesSoFar
  <2> QED BY <2>2, <2>5, <2>6
<1> QED BY <1>1, <1>4, <1>5 DEF SeedInv

\* A slot that changes is still a slot.
LEMMA SlotSet ==
  ASSUME SeedTyped, NEW d \in 1..Days, NEW k, NEW s \in {"open", "ours", "taken"},
         slots' = [slots EXCEPT ![d][k] = s]
  PROVE  slots' \in [1..Days -> Seq({"open", "ours", "taken"})]
<1> DEFINE T == {"open", "ours", "taken"}
<1>1. slots \in [1..Days -> Seq(T)] BY DEF SeedTyped
<1>2. PICK old \in Seq(T) : old = slots[d] BY <1>1
<1>3. [old EXCEPT ![k] = s] \in Seq(T)
  <2>1. DOMAIN old = 1..Len(old) /\ Len(old) \in Nat /\ \A i \in 1..Len(old) : old[i] \in T
    OBVIOUS
  <2>2. [old EXCEPT ![k] = s] \in [1..Len(old) -> T] BY <2>1
  <2> QED BY <2>1, <2>2
<1>4. slots' = [slots EXCEPT ![d] = [old EXCEPT ![k] = s]] BY <1>2
<1> QED BY <1>1, <1>3, <1>4

\* Each stage, but for the titles.
LEMMA SeedWorks ==
  ASSUME SeedInv,
         \/ Apply \/ ApproveHelper \/ Offer \/ ListSlots \/ BookOne \/ AdvanceBooking
         \/ AskFriend \/ AcceptFriend \/ CreateShelf \/ AddItem \/ LapseBooking
         \/ \E d \in 1..Days : AddSlot(d) \/ Taken(d)
  PROVE  SeedInv'
<1>1. SeedTyped /\ (script = "pages" => StagesSoFar) BY DEF SeedInv
<1>2. CASE Apply
  BY <1>1, <1>2, SeedKeepsTitles DEF Apply, runVars, SeedTyped, StagesSoFar
<1>3. CASE ApproveHelper
  BY <1>1, <1>3, SeedKeepsTitles DEF ApproveHelper, runVars, SeedTyped, StagesSoFar
<1>4. CASE Offer
  BY <1>1, <1>4, SeedKeepsTitles DEF Offer, runVars, SeedTyped, StagesSoFar
<1>5. CASE ListSlots
  <2>1. /\ pc = "companion" /\ helper = "active" /\ offers > 0 /\ at' = 1
        /\ UNCHANGED <<script, pc, made, listed, rows, helper, offers, slots, booking, shelf>>
    BY <1>5 DEF ListSlots, worldVars
  <2>2. offers = 1 BY <1>1, <2>1 DEF SeedTyped
  <2> QED BY <1>1, <2>1, <2>2, SeedKeepsTitles DEF SeedTyped
<1>6. CASE BookOne
  <2>1. /\ pc = "companion"
        /\ UNCHANGED <<script, pc, at, made, listed, rows, helper, offers, shelf>>
        /\ \E d \in 1..Days : \E k : slots' = [slots EXCEPT ![d][k] = "ours"]
    BY <1>6 DEF BookOne, AllSlots, runVars
  <2>2. slots' \in [1..Days -> Seq({"open", "ours", "taken"})] BY <1>1, <2>1, SlotSet
  <2> QED BY <1>1, <2>1, <2>2, SeedKeepsTitles DEF SeedTyped, StagesSoFar
<1>7. CASE AdvanceBooking
  BY <1>1, <1>7, SeedKeepsTitles DEF AdvanceBooking, AllSlots, runVars, SeedTyped, StagesSoFar
<1>8. CASE AskFriend
  BY <1>1, <1>8, SeedKeepsTitles DEF AskFriend, runVars, SeedTyped, StagesSoFar
<1>9. CASE AcceptFriend
  BY <1>1, <1>9, SeedKeepsTitles DEF AcceptFriend, runVars, SeedTyped, StagesSoFar
<1>10. CASE CreateShelf
  <2>1. /\ pc = "shelf" /\ shelf = -1 /\ shelf' = 0
        /\ UNCHANGED <<script, pc, at, made, listed, rows, helper, offers, slots, booking>>
    BY <1>10 DEF CreateShelf, runVars
  <2>2. shelf' \in -1..Titles BY <2>1, SeedingAssumption
  <2>3. script = "pages" => ~(at > 0) BY <1>1, <2>1 DEF StagesSoFar, SeedTyped
  <2> QED BY <1>1, <2>1, <2>2, <2>3, SeedKeepsTitles DEF SeedTyped, StagesSoFar
<1>11. CASE AddItem
  <2>1. /\ pc = "shelf" /\ shelf = at /\ at < Cardinality(OnShelf)
        /\ shelf' = shelf + 1 /\ at' = at + 1
        /\ UNCHANGED <<script, pc, made, listed, rows, helper, offers, slots, booking>>
    BY <1>11 DEF AddItem
  <2>2. Cardinality(OnShelf) \in Nat /\ Cardinality(OnShelf) <= Titles
    <3>1. IsFiniteSet(1..Titles) /\ Cardinality(1..Titles) = Titles
      BY SeedingAssumption, FS_Interval
    <3>2. OnShelf \subseteq 1..Titles BY DEF OnShelf
    <3> QED BY <3>1, <3>2, FS_Subset, FS_CardinalityType
  <2>3. shelf' \in -1..Titles /\ at' \in Nat /\ shelf' = at'
    BY <1>1, <2>1, <2>2, SeedingAssumption DEF SeedTyped
  <2> QED BY <1>1, <2>1, <2>3, SeedKeepsTitles DEF SeedTyped, StagesSoFar
<1>12. CASE LapseBooking
  <2>1. /\ booking = "awaiting_payment"
        /\ slots' = [d \in 1..Days |->
             [k \in DOMAIN slots[d] |-> IF slots[d][k] = "ours" THEN "open" ELSE slots[d][k]]]
        /\ UNCHANGED <<script, pc, at, made, listed, rows, helper, offers, shelf>>
    BY <1>12 DEF LapseBooking, runVars
  <2>2. slots' \in [1..Days -> Seq({"open", "ours", "taken"})]
    <3>1. ASSUME NEW d \in 1..Days
          PROVE  [k \in DOMAIN slots[d] |-> IF slots[d][k] = "ours" THEN "open" ELSE slots[d][k]]
                   \in Seq({"open", "ours", "taken"})
      <4> DEFINE T == {"open", "ours", "taken"}
      <4>1. PICK old \in Seq(T) : old = slots[d] BY <1>1 DEF SeedTyped
      <4>2. DOMAIN old = 1..Len(old) /\ Len(old) \in Nat /\ \A i \in 1..Len(old) : old[i] \in T
        OBVIOUS
      <4>3. [k \in DOMAIN old |-> IF old[k] = "ours" THEN "open" ELSE old[k]] \in [1..Len(old) -> T]
        BY <4>2
      <4> QED BY <4>1, <4>2, <4>3
    <3> QED BY <2>1, <3>1
  <2>3. script = "pages" => pc \notin {"friends", "shelf", "done"} BY <1>1, <2>1 DEF StagesSoFar
  <2> QED BY <1>1, <2>1, <2>2, <2>3, SeedKeepsTitles DEF SeedTyped, StagesSoFar
<1>13. ASSUME NEW d \in 1..Days, AddSlot(d) PROVE SeedInv'
  <2>1. /\ slots' = [slots EXCEPT ![d] = Append(@, "open")]
        /\ UNCHANGED <<script, pc, at, made, listed, rows, helper, offers, booking, shelf>>
    BY <1>13 DEF AddSlot
  <2>2. slots' \in [1..Days -> Seq({"open", "ours", "taken"})]
    <3>1. slots[d] \in Seq({"open", "ours", "taken"}) BY <1>1 DEF SeedTyped
    <3>2. Append(slots[d], "open") \in Seq({"open", "ours", "taken"}) BY <3>1
    <3> QED BY <1>1, <2>1, <3>2 DEF SeedTyped
  <2> QED BY <1>1, <2>1, <2>2, SeedKeepsTitles DEF SeedTyped, StagesSoFar
<1>14. ASSUME NEW d \in 1..Days, Taken(d) PROVE SeedInv'
  <2>1. /\ \E k : slots' = [slots EXCEPT ![d][k] = "taken"]
        /\ UNCHANGED <<script, pc, at, made, listed, rows, helper, offers, booking, shelf>>
    BY <1>14 DEF Taken, runVars
  <2>2. slots' \in [1..Days -> Seq({"open", "ours", "taken"})] BY <1>1, <2>1, SlotSet
  <2> QED BY <1>1, <2>1, <2>2, SeedKeepsTitles DEF SeedTyped, StagesSoFar
<1> QED BY <1>2, <1>3, <1>4, <1>5, <1>6, <1>7, <1>8, <1>9, <1>10, <1>11, <1>12, <1>13, <1>14

LEMMA SeedInductive == SeedInv /\ SeedingNext => SeedInv'
<1> SUFFICES ASSUME SeedInv, SeedingNext PROVE SeedInv' OBVIOUS
<1>1. SeedTyped /\ (script = "pages" => TitlesSoFar /\ StagesSoFar) BY DEF SeedInv
<1>2. CASE StartRun
  <2>1. Enter(First) /\ First \in SeedStages /\ (script = "pages" => First = "titles")
    BY <1>2 DEF StartRun, First, SeedStages
  <2>2. PICK stage \in SeedStages : stage = First BY <2>1
  <2> QED BY <2>1, <2>2, SeedEnters
<1>3. CASE Kill
  <2>1. Enter("off") /\ "off" \in SeedStages BY <1>3 DEF Kill, SeedStages
  <2> QED BY <2>1, SeedEnters
<1>4. CASE LeaveTitles
  <2>1. pc = "titles" /\ at = Titles + 1 /\ Enter(StageAfter("titles"))
    BY <1>4 DEF LeaveTitles, Leave
  <2>2. PICK stage \in {"friends", "companion"} :
          stage = StageAfter("titles") /\ (script = "pages" => stage = "companion")
    BY DEF StageAfter
  <2>3. script = "pages" => \A t \in 1..Titles : TitleDone(t)
    BY <1>1, <2>1, SeedingAssumption DEF TitlesSoFar
  <2>4. stage \in SeedStages BY DEF SeedStages
  <2> QED BY <2>1, <2>2, <2>3, <2>4, SeedEnters
<1>5. CASE LeaveCompanion
  <2>1. /\ pc = "companion" /\ at = 1 /\ Enter(StageAfter("companion"))
        /\ script = "pages" => booking \in {"none", "completed"}
    BY <1>5 DEF LeaveCompanion, AllSlots, Leave
  <2>2. PICK stage \in {"titles", "friends"} : stage = StageAfter("companion")
    BY DEF StageAfter
  <2>3. stage \in SeedStages BY DEF SeedStages
  <2>4. script = "pages" => /\ \A t \in 1..Titles : TitleDone(t)
                            /\ helper = "active" /\ offers = 1
    BY <1>1, <2>1 DEF StagesSoFar
  <2> QED BY <2>1, <2>2, <2>3, <2>4, SeedEnters
<1>6. CASE LeaveFriends
  <2>1. pc = "friends" /\ Enter("shelf") /\ "shelf" \in SeedStages
    BY <1>6 DEF LeaveFriends, Leave, StageAfter, SeedStages
  <2>2. script = "pages" => /\ \A t \in 1..Titles : TitleDone(t)
                            /\ helper = "active" /\ offers = 1 /\ booking \in {"none", "completed"}
    BY <1>1, <2>1 DEF StagesSoFar
  <2> QED BY <2>1, <2>2, SeedEnters
<1>7. CASE LeaveShelf
  <2>1. /\ pc = "shelf" /\ Enter("done") /\ "done" \in SeedStages
        /\ at = Cardinality(OnShelf) \/ (at = 0 /\ shelf > 0)
    BY <1>7 DEF LeaveShelf, Leave, StageAfter, SeedStages
  <2>2. script = "pages" => /\ \A t \in 1..Titles : TitleDone(t)
                            /\ helper = "active" /\ offers = 1 /\ booking \in {"none", "completed"}
    BY <1>1, <2>1 DEF StagesSoFar
  <2>3. ASSUME script = "pages" PROVE shelf > 0
    <3>1. at > 0 => shelf = at BY <1>1, <2>1, <2>3 DEF StagesSoFar
    <3>2. Cardinality(OnShelf) # 0
      <4>1. OnShelf = (1..Titles) \ LeftPending BY <2>3 DEF OnShelf
      <4>2. OnShelf # {} BY <4>1, SeedingAssumption
      <4>3. IsFiniteSet(OnShelf)
        <5>1. IsFiniteSet(1..Titles) BY SeedingAssumption, FS_Interval
        <5> QED BY <4>1, <5>1, FS_Subset
      <4> QED BY <4>2, <4>3, FS_EmptySet
    <3> QED BY <1>1, <2>1, <3>1, <3>2 DEF SeedTyped
  <2> QED BY <2>1, <2>2, <2>3, SeedEnters
<1> QED BY <1>2, <1>3, <1>4, <1>5, <1>6, <1>7, SeedWorks, SeedLists, SeedCreates, SeedSkips,
           SeedApproves, SeedModerates DEF SeedingNext

LEMMA SeedInitially == ASSUME SeedingInit PROVE SeedInv
<1>1. /\ script \in {"content", "pages"} /\ pc = "off" /\ at = 0 /\ made = 0
      /\ listed = [t \in 1..Titles |-> NotFound] /\ rows = [t \in 1..Titles |-> <<>>]
      /\ slots = [d \in 1..Days |-> <<>>] /\ offers = 0 /\ shelf = -1
  BY DEF SeedingInit
<1>2. SeedTyped
  <2>1. rows \in [1..Titles -> Seq(SeedStatus)] /\ slots \in [1..Days -> Seq({"open", "ours", "taken"})]
    BY <1>1
  <2>2. listed \in [1..Titles -> [row : Nat, status : SeedStatus \cup {"none"}]]
    BY <1>1 DEF NotFound
  <2>3. \A t \in 1..Titles : Len(rows[t]) <= MaxRows /\ listed[t].row <= Len(rows[t])
    BY <1>1, SeedingAssumption DEF NotFound
  <2>4. shelf \in -1..Titles BY <1>1, SeedingAssumption
  <2> QED BY <1>1, <2>1, <2>2, <2>3, <2>4 DEF SeedTyped, SeedStages
<1>3. RowsOnce
  <2>1. \A t \in 1..Titles : Len(rows[t]) = 0 /\ listed[t].status = "none" BY <1>1 DEF NotFound
  <2> QED BY <2>1 DEF RowsOnce
<1> QED BY <1>1, <1>2, <1>3 DEF TitlesSoFar, StagesSoFar, SeedInv

LEMMA SeedTypes == ASSUME SeedInv PROVE SeedingTypeOK /\ PagesSeedOnce
<1>1. SeedTyped BY DEF SeedInv
<1>2. SeedingTypeOK
  <2>1. ASSUME NEW t \in 1..Titles
        PROVE  /\ rows[t] \in Seq(SeedStatus) /\ Len(rows[t]) <= MaxRows
               /\ listed[t].row \in 0..Len(rows[t])
    <3>1. rows[t] \in Seq(SeedStatus) /\ listed[t].row \in Nat
          /\ Len(rows[t]) <= MaxRows /\ listed[t].row <= Len(rows[t])
      BY <1>1 DEF SeedTyped
    <3>2. Len(rows[t]) \in Nat BY <3>1
    <3> QED BY <3>1, <3>2
  <2> QED BY <1>1, <2>1 DEF SeedingTypeOK, SeedTyped, SeedStatus
<1>3. PagesSeedOnce
  BY DEF SeedInv, RowsOnce, StagesSoFar, TitleDone, PagesSeedOnce, OneRowPerTitle
<1> QED BY <1>2, <1>3

-----------------------------------------------------------------------------
(***************************************************************************)
(* The demo data can be seeded and reset again, for any number of days.  A *)
(* stage that is kept was committed by a run of the same time of day as    *)
(* the first, so that it finds its own rows; the events lie between the    *)
(* first run and today, near enough to be found or recounted.              *)
(***************************************************************************)
SeededStages == DOMAIN Follows \ {"unlink"}

DemoTyped ==
  /\ now \in 0..LastDemoDay
  /\ run \in [stage : DOMAIN Follows \cup {"off", "clear", "recount", "done", "cleared"},
              evening : BOOLEAN, seeds : BOOLEAN]
  /\ kept \subseteq SeededStages /\ image \in BOOLEAN
  /\ purse \in [exists : BOOLEAN, balance : Int, ledger : Int]
  /\ follow \in {"none", "seeded", "app"} /\ like \in {"none", "seeded"} /\ likeCount \in Int
  /\ slot \in [Slots -> {"none", "open", "booked", "taken"}] /\ booked \in 0..3
  /\ copies \in [Ages -> SUBSET Int]
  /\ first \in [day : Int, evening : BOOLEAN] /\ touched \in BOOLEAN /\ cut \in BOOLEAN

\* The slot that a run of a time of day books.
SlotOf(evening) == IF evening THEN 2 ELSE 1

\* What the stages that are kept wrote, while nobody used the accounts.
SeededAlike ==
  ~touched =>
    /\ IF "commerce" \in kept THEN purse.balance = purse.ledger ELSE purse = NoPurse
    /\ IF "posts" \in kept THEN like = "seeded" /\ likeCount = 1 ELSE like = "none" /\ likeCount = 0
    /\ booked = IF "commerce" \in kept THEN SlotOf(first.evening) ELSE 0
    /\ \A i \in Slots : slot[i] = "booked" <=> booked = i
    /\ \A o \in Ages : \A d, e \in copies[o] : d = e

\* The stages of a run that come after the users, in order.
InOrder(stage) ==
  CASE stage = "trust" -> {"users"}
    [] stage = "social" -> {"users", "trust"}
    [] stage = "activities" -> {"users", "trust", "social"}
    [] stage = "posts" -> {"users", "trust", "social", "activities"}
    [] stage = "clubs" -> {"users", "trust", "social", "activities", "posts"}
    [] stage = "companions" -> {"users", "trust", "social", "activities", "posts", "clubs"}
    [] stage = "commerce" ->
         {"users", "trust", "social", "activities", "posts", "clubs", "companions"}
    [] stage = "ops" ->
         {"users", "trust", "social", "activities", "posts", "clubs", "companions", "commerce"}
    [] stage = "events" -> SeededStages \ {"events", "aggregates"}
    [] stage = "aggregates" -> SeededStages \ {"aggregates"}
    [] stage = "done" -> SeededStages
    [] OTHER -> {}

LaterStages == SeededStages \ {"users"}

\* A run that has seeded the users is like the first one, or counts as use.
RunIsAlike ==
  /\ InOrder(run.stage) \subseteq kept
  /\ kept # {} \/ run.stage \in LaterStages => first # NoRun
  /\ first # NoRun => first.day \in 0..now
  /\ run.stage \in LaterStages /\ ~touched =>
       run.evening = first.evening /\ now - first.day <= Slack

\* When the events happened.
EventsAreRecent ==
  \A o \in Ages : \A t \in copies[o] : first # NoRun /\ 5 * (first.day - o) <= t /\ t <= Moment

\* A reset has left nothing.
ResetIsClean ==
  run.stage \in {"recount", "cleared"} =>
    /\ kept = {} /\ ~purse.exists /\ follow = "none" /\ like = "none"
    /\ \A i \in Slots : slot[i] = "none"
    /\ \A o \in Ages : copies[o] = {}

\* What is counted is there, but for what a reset is about to recount; the image
\* is there, but while a reset deletes its row.
CountedIsThere ==
  ~cut =>
    /\ IF run.stage = "recount" THEN counted \subseteq (Today - RecountDays)..Today
       ELSE \A d \in counted : \E o \in Ages : \E t \in copies[o] : d = ShanghaiDay(t)
    /\ "users" \in kept /\ run.stage # "clear" => image

DemoInv ==
  DemoTyped /\ SeededAlike /\ RunIsAlike /\ EventsAreRecent /\ ResetIsClean /\ CountedIsThere

LEMMA StagesAre ==
  /\ SeededStages = {"users", "trust", "social", "activities", "posts", "clubs", "companions",
                     "commerce", "ops", "events", "aggregates"}
  /\ LaterStages = {"trust", "social", "activities", "posts", "clubs", "companions",
                    "commerce", "ops", "events", "aggregates"}
  /\ DOMAIN Follows = SeededStages \cup {"unlink"}
BY DEF SeededStages, LaterStages, Follows

LEMMA FollowsIs ==
  /\ Follows["unlink"] = "clear" /\ Follows["users"] = "trust"
  /\ \A name \in LaterStages : /\ Follows[name] \in LaterStages \cup {"done"}
                               /\ InOrder(Follows[name]) \subseteq InOrder(name) \cup {name}
<1>1. Follows["unlink"] = "clear" /\ Follows["users"] = "trust" BY DEF Follows
<1>2. ASSUME NEW name \in LaterStages
      PROVE  /\ Follows[name] \in LaterStages \cup {"done"}
             /\ InOrder(Follows[name]) \subseteq InOrder(name) \cup {name}
  <2>1. CASE name \in {"trust", "social", "activities", "posts"}
    BY <2>1, StagesAre DEF Follows, InOrder
  <2>2. CASE name \in {"clubs", "companions", "commerce"}
    BY <2>2, StagesAre DEF Follows, InOrder
  <2>3. CASE name = "ops" BY <2>3, StagesAre DEF Follows, InOrder
  <2>4. CASE name \in {"events", "aggregates"} BY <2>4, StagesAre DEF Follows, InOrder
  <2> QED BY <2>1, <2>2, <2>3, <2>4, StagesAre
<1> QED BY <1>1, <1>2

LEMMA MomentIs ==
  ASSUME now \in Nat, run.evening \in BOOLEAN
  PROVE  Moment \in Nat /\ 5 * now + 1 <= Moment /\ Moment <= 5 * now + 3
<1>1. CASE run.evening BY <1>1 DEF Moment
<1>2. CASE ~run.evening BY <1>2 DEF Moment
<1> QED BY <1>1, <1>2

\* A stage after the users: the rows it writes apart.
LEMMA DemoStage ==
  ASSUME DemoInv, NEW name \in LaterStages, Commits(name), UNCHANGED <<first, touched>>
  PROVE  /\ run' \in [stage : DOMAIN Follows \cup {"off", "clear", "recount", "done", "cleared"},
                      evening : BOOLEAN, seeds : BOOLEAN]
         /\ kept' = kept \cup {name} /\ kept' \subseteq SeededStages
         /\ run.stage = name /\ UNCHANGED <<now, cut>>
         /\ first # NoRun
         /\ ~touched => run.evening = first.evening /\ now - first.day <= Slack
         /\ Moment' = Moment
         /\ RunIsAlike' /\ ResetIsClean'
         /\ UNCHANGED copies => EventsAreRecent'
         /\ UNCHANGED <<copies, counted, image>> => CountedIsThere'
         /\ run'.stage # "recount"
<1>1. /\ run.stage = name /\ run' = [run EXCEPT !.stage = Follows[name]]
      /\ kept' = kept \cup {name} /\ UNCHANGED <<now, cut>>
  BY DEF Commits, Enters
<1>2. PICK next \in LaterStages \cup {"done"} :
        next = Follows[name] /\ InOrder(next) \subseteq InOrder(name) \cup {name}
  BY FollowsIs
<1>3. DemoTyped /\ RunIsAlike /\ EventsAreRecent /\ CountedIsThere BY DEF DemoInv
<1>4. run' \in [stage : DOMAIN Follows \cup {"off", "clear", "recount", "done", "cleared"},
                evening : BOOLEAN, seeds : BOOLEAN]
      /\ run'.stage = next /\ run'.evening = run.evening
  <2>1. next \in DOMAIN Follows \cup {"off", "clear", "recount", "done", "cleared"}
    BY <1>2, StagesAre
  <2> QED BY <1>1, <1>2, <1>3, <2>1 DEF DemoTyped
<1>5. kept' \subseteq SeededStages /\ name # "users" BY <1>1, <1>3, StagesAre DEF DemoTyped
<1>6. first # NoRun /\ (~touched => run.evening = first.evening /\ now - first.day <= Slack)
  BY <1>1, <1>3 DEF RunIsAlike
<1>7. RunIsAlike'
  <2>1. InOrder(name) \subseteq kept BY <1>1, <1>3 DEF RunIsAlike
  <2>2. InOrder(run'.stage) \subseteq kept' BY <1>1, <1>2, <1>4, <2>1
  <2>3. first' # NoRun /\ first'.day \in 0..now' BY <1>1, <1>3, <1>6 DEF RunIsAlike
  <2>4. ~touched' => run'.evening = first'.evening /\ now' - first'.day <= Slack
    BY <1>1, <1>4, <1>6
  <2> QED BY <2>2, <2>3, <2>4 DEF RunIsAlike
<1>8. ResetIsClean' /\ run'.stage # "recount" /\ run'.stage # "clear"
  BY <1>2, <1>4, StagesAre DEF ResetIsClean
<1>11. Moment' = Moment BY <1>1, <1>4 DEF Moment
<1>9. UNCHANGED copies => EventsAreRecent' BY <1>1, <1>3, <1>11 DEF EventsAreRecent
<1>10. UNCHANGED <<copies, counted, image>> => CountedIsThere'
  <2>1. name # "recount" /\ name # "clear" BY StagesAre
  <2> QED BY <1>1, <1>3, <1>5, <1>8, <2>1 DEF CountedIsThere
<1> QED BY <1>1, <1>4, <1>5, <1>6, <1>7, <1>8, <1>9, <1>10, <1>11

\* A stage whose rows nothing else depends on.
LEMMA DemoQuiet ==
  ASSUME DemoInv, NEW name \in LaterStages \ {"posts", "commerce"}, Commits(name),
         UNCHANGED <<image, purse, like, likeCount, slot, booked, copies, counted, first, touched>>,
         follow' \in {"none", "seeded", "app"}
  PROVE  DemoInv'
<1>1. /\ run' \in [stage : DOMAIN Follows \cup {"off", "clear", "recount", "done", "cleared"},
                   evening : BOOLEAN, seeds : BOOLEAN]
      /\ kept' = kept \cup {name} /\ kept' \subseteq SeededStages /\ UNCHANGED <<now, cut>>
      /\ RunIsAlike' /\ ResetIsClean' /\ EventsAreRecent' /\ CountedIsThere'
  BY DemoStage
<1>2. DemoTyped' BY <1>1 DEF DemoInv, DemoTyped
<1>3. SeededAlike' BY <1>1 DEF DemoInv, SeededAlike
<1> QED BY <1>1, <1>2, <1>3 DEF DemoInv

LEMMA DemoQuietStages ==
  ASSUME DemoInv, SeedTrust \/ SeedSocial \/ SeedActivities \/ SeedClubsGuilds \/ SeedOps
  PROVE  DemoInv'
<1>1. {"trust", "social", "activities", "clubs", "ops"} \subseteq LaterStages \ {"posts", "commerce"}
  BY StagesAre
<1>2. follow \in {"none", "seeded", "app"} BY DEF DemoInv, DemoTyped
<1>3. CASE SeedTrust BY <1>1, <1>2, <1>3, DemoQuiet DEF SeedTrust
<1>4. CASE SeedSocial BY <1>1, <1>4, DemoQuiet DEF SeedSocial
<1>5. CASE SeedActivities BY <1>1, <1>2, <1>5, DemoQuiet DEF SeedActivities
<1>6. CASE SeedClubsGuilds BY <1>1, <1>2, <1>6, DemoQuiet DEF SeedClubsGuilds
<1>7. CASE SeedOps BY <1>1, <1>2, <1>7, DemoQuiet DEF SeedOps
<1> QED BY <1>3, <1>4, <1>5, <1>6, <1>7

LEMMA DemoPosts == ASSUME DemoInv, SeedPosts PROVE DemoInv'
<1>1. /\ Commits("posts") /\ like' = "seeded"
      /\ likeCount' = IF "posts" \in kept THEN likeCount ELSE 1
      /\ UNCHANGED <<image, purse, follow, slot, booked, copies, counted, first, touched>>
  BY DEF SeedPosts
<1>2. "posts" \in LaterStages BY StagesAre
<1>3. /\ run' \in [stage : DOMAIN Follows \cup {"off", "clear", "recount", "done", "cleared"},
                   evening : BOOLEAN, seeds : BOOLEAN]
      /\ kept' = kept \cup {"posts"} /\ kept' \subseteq SeededStages /\ UNCHANGED <<now, cut>>
      /\ RunIsAlike' /\ ResetIsClean' /\ EventsAreRecent' /\ CountedIsThere'
  BY <1>1, <1>2, DemoStage
<1>4. DemoTyped' BY <1>1, <1>3 DEF DemoInv, DemoTyped
<1>5. SeededAlike' BY <1>1, <1>3 DEF DemoInv, SeededAlike
<1> QED BY <1>3, <1>4, <1>5 DEF DemoInv

LEMMA DemoCompanions == ASSUME DemoInv, SeedCompanions PROVE DemoInv'
<1>1. /\ Commits("companions")
      /\ slot' = [i \in Slots |-> IF i \in Listed /\ slot[i] = "none" THEN "open" ELSE slot[i]]
      /\ UNCHANGED <<image, purse, follow, like, likeCount, booked, copies, counted, first, touched>>
  BY DEF SeedCompanions
<1>2. "companions" \in LaterStages BY StagesAre
<1>3. /\ run' \in [stage : DOMAIN Follows \cup {"off", "clear", "recount", "done", "cleared"},
                   evening : BOOLEAN, seeds : BOOLEAN]
      /\ kept' = kept \cup {"companions"} /\ kept' \subseteq SeededStages /\ UNCHANGED <<now, cut>>
      /\ RunIsAlike' /\ ResetIsClean' /\ EventsAreRecent' /\ CountedIsThere'
  BY <1>1, <1>2, DemoStage
<1>4. DemoTyped' BY <1>1, <1>3 DEF DemoInv, DemoTyped
<1>5. \A i \in Slots : slot'[i] = "booked" <=> slot[i] = "booked" BY <1>1
<1>6. SeededAlike' BY <1>1, <1>3, <1>5 DEF DemoInv, SeededAlike
<1> QED BY <1>3, <1>4, <1>6 DEF DemoInv

LEMMA DemoCommerce == ASSUME DemoInv, SeedCommerce PROVE DemoInv'
<1> DEFINE slotOf == CHOOSE i \in Listed : \A j \in Listed : i <= j
<1>1. /\ Commits("commerce") /\ purse' = PurseSeeded
      /\ booked' = IF "commerce" \in kept THEN booked ELSE slotOf
      /\ slot' = [slot EXCEPT ![slotOf] = "booked"]
      /\ UNCHANGED <<image, follow, like, likeCount, copies, counted, first, touched>>
  BY DEF SeedCommerce
<1>2. "commerce" \in LaterStages BY StagesAre
<1>3. /\ run' \in [stage : DOMAIN Follows \cup {"off", "clear", "recount", "done", "cleared"},
                   evening : BOOLEAN, seeds : BOOLEAN]
      /\ kept' = kept \cup {"commerce"} /\ kept' \subseteq SeededStages /\ UNCHANGED <<now, cut>>
      /\ RunIsAlike' /\ ResetIsClean' /\ EventsAreRecent' /\ CountedIsThere'
      /\ ~touched => run.evening = first.evening
  BY <1>1, <1>2, DemoStage
<1>4. slotOf = SlotOf(run.evening)
  <2>1. run.evening \in BOOLEAN BY DEF DemoInv, DemoTyped
  <2>2. CASE run.evening
    <3>1. Listed = {2, 3} BY <2>2 DEF Listed
    <3>2. slotOf = 2 BY <3>1
    <3> QED BY <2>2, <3>2 DEF SlotOf
  <2>3. CASE ~run.evening
    <3>1. Listed = {1, 2} BY <2>3 DEF Listed
    <3>2. slotOf = 1 BY <3>1
    <3> QED BY <2>3, <3>2 DEF SlotOf
  <2> QED BY <2>2, <2>3
<1>5. SlotOf(run.evening) \in Slots /\ SlotOf(run.evening) \in 0..3 BY DEF SlotOf, Slots
<1> HIDE DEF slotOf
<1>6. DemoTyped /\ SeededAlike BY DEF DemoInv
<1>7. purse' \in [exists : BOOLEAN, balance : Int, ledger : Int]
  BY <1>1, <1>6 DEF DemoTyped, PurseSeeded
<1>8. slot' \in [Slots -> {"none", "open", "booked", "taken"}]
      /\ \A i \in Slots : slot'[i] = IF i = slotOf THEN "booked" ELSE slot[i]
  BY <1>1, <1>4, <1>5, <1>6 DEF DemoTyped
<1>9. DemoTyped' BY <1>1, <1>3, <1>4, <1>5, <1>6, <1>7, <1>8 DEF DemoTyped
<1>10. SeededAlike'
  <2>1. SUFFICES ASSUME ~touched PROVE SeededAlike' BY <1>1 DEF SeededAlike
  <2>2. purse'.balance = purse'.ledger
    <3>1. CASE "commerce" \in kept BY <1>1, <1>6, <2>1, <3>1 DEF PurseSeeded, SeededAlike
    <3>2. CASE "commerce" \notin kept
      <4>1. purse = NoPurse BY <1>6, <2>1, <3>2 DEF SeededAlike
      <4> QED BY <1>1, <3>2, <4>1 DEF PurseSeeded, NoPurse
    <3> QED BY <3>1, <3>2
  <2>3. booked' = slotOf /\ slotOf = SlotOf(first'.evening)
    BY <1>1, <1>3, <1>4, <1>6, <2>1 DEF SeededAlike
  <2>4. \A i \in Slots : slot'[i] = "booked" <=> booked' = i
    <3>1. \A i \in Slots : slot[i] = "booked" => booked = i BY <1>6, <2>1 DEF SeededAlike
    <3>2. booked = 0 \/ booked = slotOf BY <1>3, <1>4, <1>6, <2>1 DEF SeededAlike
    <3>3. 0 \notin Slots BY DEF Slots
    <3> QED BY <1>8, <2>3, <3>1, <3>2, <3>3
  <2>5. /\ IF "posts" \in kept' THEN like' = "seeded" /\ likeCount' = 1 ELSE like' = "none" /\ likeCount' = 0
        /\ \A o \in Ages : \A d, e \in copies'[o] : d = e
    BY <1>1, <1>3, <1>6, <2>1 DEF SeededAlike
  <2>6. "commerce" \in kept' BY <1>3
  <2> QED BY <2>2, <2>3, <2>4, <2>5, <2>6 DEF SeededAlike
<1> QED BY <1>3, <1>9, <1>10 DEF DemoInv

LEMMA DemoEvents == ASSUME DemoInv, SeedEvents PROVE DemoInv'
<1>1. PICK hour \in [Ages -> {0, 4}] :
        /\ Commits("events")
        /\ copies' = [o \in Ages |-> IF Found(o) THEN copies[o]
                                     ELSE copies[o] \cup {ReceivedAt(o, hour[o])}]
        /\ UNCHANGED <<image, purse, follow, like, likeCount, slot, booked, counted, first, touched>>
  BY DEF SeedEvents
<1>2. "events" \in LaterStages BY StagesAre
<1>3. /\ run' \in [stage : DOMAIN Follows \cup {"off", "clear", "recount", "done", "cleared"},
                   evening : BOOLEAN, seeds : BOOLEAN]
      /\ kept' = kept \cup {"events"} /\ kept' \subseteq SeededStages /\ UNCHANGED <<now, cut>>
      /\ RunIsAlike' /\ ResetIsClean' /\ Moment' = Moment
      /\ run.stage = "events" /\ run'.stage # "recount"
      /\ first # NoRun /\ (~touched => now - first.day <= Slack)
  BY <1>1, <1>2, DemoStage
<1>4. DemoTyped /\ SeededAlike /\ EventsAreRecent /\ CountedIsThere /\ RunIsAlike BY DEF DemoInv
<1>5. now \in Nat /\ first.day \in 0..now /\ EventDays \in Nat /\ Slack \in Nat
      /\ \A o \in Ages : o \in Nat /\ o <= EventDays - 1
  BY <1>3, <1>4, DemoAssumption DEF DemoTyped, RunIsAlike, Ages
<1>12. Moment \in Nat /\ 5 * now + 1 <= Moment /\ Moment <= 5 * now + 3
  BY <1>4, <1>5, MomentIs DEF DemoTyped
<1>13. \A o \in Ages : /\ ReceivedAt(o, hour[o]) \in Int
                       /\ 5 * (now - o) <= ReceivedAt(o, hour[o])
                       /\ ReceivedAt(o, hour[o]) <= Moment
  <2>1. ASSUME NEW o \in Ages
        PROVE  /\ ReceivedAt(o, hour[o]) \in Int
               /\ 5 * (now - o) <= ReceivedAt(o, hour[o])
               /\ ReceivedAt(o, hour[o]) <= Moment
    <3>1. hour[o] \in {0, 4} /\ o \in Nat BY <1>5
    <3>2. PICK h \in {0, 4} : h = hour[o] BY <3>1
    <3> QED BY <1>5, <1>12, <3>1, <3>2 DEF ReceivedAt
  <2> QED BY <2>1
<1>6. \A o \in Ages : copies[o] \subseteq Int BY <1>4 DEF DemoTyped
<1>7. \A o \in Ages : /\ copies[o] \subseteq copies'[o]
                      /\ copies'[o] \subseteq copies[o] \cup {ReceivedAt(o, hour[o])}
  BY <1>1
<1>8. DemoTyped'
  <2>1. copies' \in [Ages -> SUBSET Int]
    <3>1. \A o \in Ages : (IF Found(o) THEN copies[o]
                           ELSE copies[o] \cup {ReceivedAt(o, hour[o])}) \in SUBSET Int
      BY <1>6, <1>13
    <3> QED BY <1>1, <3>1
  <2> QED BY <1>1, <1>3, <1>4, <2>1 DEF DemoTyped
<1>9. EventsAreRecent'
  <2>1. SUFFICES ASSUME NEW o \in Ages, NEW t \in copies'[o]
                 PROVE  5 * (first.day - o) <= t /\ t <= Moment
    BY <1>1, <1>3 DEF EventsAreRecent
  <2>2. CASE t \in copies[o] BY <1>4, <2>2 DEF EventsAreRecent
  <2>3. CASE t = ReceivedAt(o, hour[o])
    <3>1. 5 * (now - o) <= t /\ t <= Moment /\ t \in Int BY <1>13, <2>3
    <3> QED BY <1>5, <3>1
  <2> QED BY <1>7, <2>2, <2>3
<1>10. SeededAlike'
  <2>1. SUFFICES ASSUME ~touched, NEW o \in Ages, NEW d \in copies'[o], NEW e \in copies'[o]
                 PROVE  d = e
    BY <1>1, <1>3, <1>4 DEF SeededAlike
  <2>2. \A c, b \in copies[o] : c = b BY <1>4, <2>1 DEF SeededAlike
  <2>3. CASE copies[o] = {} BY <1>7, <2>3
  <2>4. CASE copies[o] # {}
    <3>1. PICK c \in copies[o] : 5 * (first.day - o) <= c BY <1>4, <2>4 DEF EventsAreRecent
    <3>2. c \in Int /\ o \in Nat /\ o <= EventDays - 1 BY <1>5, <1>6
    <3>3. now - first.day <= Slack BY <1>3, <2>1
    <3>4. c >= Moment - 5 * (EventDays + Slack) BY <1>5, <1>12, <3>1, <3>2, <3>3
    <3>5. Found(o) BY <3>4 DEF Found
    <3>6. copies'[o] = copies[o] BY <1>1, <3>5
    <3> QED BY <2>2, <3>6
  <2> QED BY <2>3, <2>4
<1>11. CountedIsThere' BY <1>1, <1>3, <1>4, <1>7 DEF CountedIsThere
<1> QED BY <1>3, <1>8, <1>9, <1>10, <1>11 DEF DemoInv

LEMMA DemoAggregates == ASSUME DemoInv, SeedAggregates PROVE DemoInv'
<1>1. /\ Commits("aggregates") /\ Rebuilt(EventDays)
      /\ UNCHANGED <<image, purse, follow, like, likeCount, slot, booked, copies, first, touched>>
  BY DEF SeedAggregates
<1>2. "aggregates" \in LaterStages BY StagesAre
<1>3. /\ run' \in [stage : DOMAIN Follows \cup {"off", "clear", "recount", "done", "cleared"},
                   evening : BOOLEAN, seeds : BOOLEAN]
      /\ kept' = kept \cup {"aggregates"} /\ kept' \subseteq SeededStages /\ UNCHANGED <<now, cut>>
      /\ RunIsAlike' /\ ResetIsClean' /\ EventsAreRecent'
      /\ run.stage = "aggregates" /\ run'.stage # "recount"
  BY <1>1, <1>2, DemoStage
<1>4. DemoTyped' BY <1>1, <1>3 DEF DemoInv, DemoTyped
<1>5. SeededAlike' BY <1>1, <1>3 DEF DemoInv, SeededAlike
<1>6. \A d \in counted' : d \in counted \/ d \in DaysWithEvents BY <1>1 DEF Rebuilt
<1>7. \A d \in DaysWithEvents : \E o \in Ages : \E t \in copies[o] : d = ShanghaiDay(t)
  BY DEF DaysWithEvents
<1>8. CountedIsThere' BY <1>1, <1>3, <1>6, <1>7 DEF DemoInv, CountedIsThere
<1> QED BY <1>3, <1>4, <1>5, <1>8 DEF DemoInv

LEMMA DemoUsers == ASSUME DemoInv, SeedUsers PROVE DemoInv'
<1>1. /\ Commits("users") /\ image' = TRUE
      /\ IF first = NoRun
         THEN first' = [day |-> now, evening |-> run.evening] /\ UNCHANGED touched
         ELSE /\ touched' = (touched \/ run.evening # first.evening \/ now - first.day > Slack)
              /\ UNCHANGED first
      /\ UNCHANGED <<purse, follow, like, likeCount, slot, booked, copies, counted>>
  BY DEF SeedUsers
<1>2. DemoTyped /\ SeededAlike /\ RunIsAlike /\ EventsAreRecent /\ CountedIsThere BY DEF DemoInv
<1>3. /\ run.stage = "users" /\ run' = [run EXCEPT !.stage = "trust"]
      /\ kept' = kept \cup {"users"} /\ UNCHANGED <<now, cut>>
  BY <1>1, FollowsIs DEF Commits, Enters
<1>4. /\ run' \in [stage : DOMAIN Follows \cup {"off", "clear", "recount", "done", "cleared"},
                   evening : BOOLEAN, seeds : BOOLEAN]
      /\ run'.stage = "trust" /\ run'.evening = run.evening /\ run.evening \in BOOLEAN
      /\ kept' \subseteq SeededStages
  BY <1>2, <1>3, StagesAre DEF DemoTyped
<1>5. now \in Nat /\ Slack \in Nat BY <1>2, DemoAssumption DEF DemoTyped
<1>6. CASE first = NoRun
  <2>1. first' = [day |-> now, evening |-> run.evening] /\ UNCHANGED touched BY <1>1, <1>6
  <2>2. kept = {} /\ \A o \in Ages : copies[o] = {} BY <1>2, <1>6 DEF RunIsAlike, EventsAreRecent
  <2>3. first'.day = now /\ first'.evening = run.evening /\ first' # NoRun
        /\ first' \in [day : Int, evening : BOOLEAN]
    BY <1>4, <1>5, <2>1 DEF NoRun
  <2>4. DemoTyped' BY <1>1, <1>2, <1>3, <1>4, <2>1, <2>3 DEF DemoTyped
  <2>5. SeededAlike' BY <1>1, <1>2, <1>3, <2>1, <2>2 DEF SeededAlike
  <2>6. RunIsAlike'
    <3>1. InOrder("trust") = {"users"} BY DEF InOrder
    <3>2. now - now <= Slack /\ now \in 0..now BY <1>5
    <3> QED BY <1>3, <1>4, <2>3, <3>1, <3>2 DEF RunIsAlike
  <2>7. EventsAreRecent' BY <1>1, <2>2 DEF EventsAreRecent
  <2>8. ResetIsClean' BY <1>4 DEF ResetIsClean
  <2>9. CountedIsThere' BY <1>1, <1>2, <1>3, <1>4 DEF CountedIsThere
  <2> QED BY <2>4, <2>5, <2>6, <2>7, <2>8, <2>9 DEF DemoInv
<1>7. CASE first # NoRun
  <2>1. /\ first' = first
        /\ touched' = (touched \/ run.evening # first.evening \/ now - first.day > Slack)
    BY <1>1, <1>7
  <2>2. first.day \in 0..now BY <1>2, <1>7 DEF RunIsAlike
  <2>3. touched' \in BOOLEAN /\ (~touched' => ~touched /\ run.evening = first.evening
                                              /\ ~(now - first.day > Slack))
    BY <2>1, Zenon
  <2>4. DemoTyped' BY <1>1, <1>2, <1>3, <1>4, <2>1, <2>3 DEF DemoTyped
  <2>5. SeededAlike' BY <1>1, <1>2, <1>3, <2>1, <2>3 DEF SeededAlike
  <2>6. RunIsAlike'
    <3>1. InOrder("trust") = {"users"} BY DEF InOrder
    <3>2. ~touched' => now - first.day <= Slack BY <1>5, <2>2, <2>3
    <3> QED BY <1>3, <1>4, <1>7, <2>1, <2>2, <2>3, <3>1, <3>2 DEF RunIsAlike
  <2>7. EventsAreRecent'
    <3>1. Moment' = Moment BY <1>3, <1>4 DEF Moment
    <3> QED BY <1>1, <1>2, <1>3, <2>1, <3>1 DEF EventsAreRecent
  <2>8. ResetIsClean' BY <1>4 DEF ResetIsClean
  <2>9. CountedIsThere' BY <1>1, <1>2, <1>3, <1>4 DEF CountedIsThere
  <2> QED BY <2>4, <2>5, <2>6, <2>7, <2>8, <2>9 DEF DemoInv
<1> QED BY <1>6, <1>7

\* A run begins, is killed, or the files go.
LEMMA DemoMoves ==
  ASSUME DemoInv, NEW stage \in {"off", "unlink", "users", "clear"}, NEW evening \in BOOLEAN,
         NEW seeds \in BOOLEAN, run' = [stage |-> stage, evening |-> evening, seeds |-> seeds],
         run.stage # "recount" \/ cut', run.evening => evening,
         UNCHANGED <<now, kept, purse, follow, like, likeCount, slot, booked, copies, counted,
                     first, touched>>,
         cut' \in BOOLEAN, cut => cut', image' \in BOOLEAN,
         stage # "clear" => image' = image /\ (run.stage # "clear" \/ cut')
  PROVE  DemoInv'
<1>1. DemoTyped /\ SeededAlike /\ RunIsAlike /\ EventsAreRecent /\ CountedIsThere BY DEF DemoInv
<1>2. run'.stage = stage /\ stage \notin LaterStages BY StagesAre
<1>3. DemoTyped'
  <2>1. stage \in DOMAIN Follows \cup {"off", "clear", "recount", "done", "cleared"} BY StagesAre
  <2> QED BY <1>1, <2>1 DEF DemoTyped
<1>4. SeededAlike' BY <1>1 DEF SeededAlike
<1>5. RunIsAlike'
  <2>1. InOrder(stage) = {} BY DEF InOrder
  <2> QED BY <1>1, <1>2, <2>1 DEF RunIsAlike
<1>6. EventsAreRecent'
  <2>1. now \in Nat /\ run.evening \in BOOLEAN BY <1>1, DemoAssumption DEF DemoTyped
  <2>2. Moment \in Nat /\ Moment' \in Nat /\ Moment <= Moment'
    <3>1. CASE run.evening BY <2>1, <3>1 DEF Moment
    <3>2. CASE ~run.evening /\ evening BY <2>1, <3>2 DEF Moment
    <3>3. CASE ~run.evening /\ ~evening BY <2>1, <3>3 DEF Moment
    <3> QED BY <2>1, <3>1, <3>2, <3>3
  <2>3. \A o \in Ages : copies[o] \subseteq Int BY <1>1 DEF DemoTyped
  <2>4. \A o \in Ages : \A t \in copies[o] : t <= Moment' BY <1>1, <2>2, <2>3 DEF EventsAreRecent
  <2> QED BY <1>1, <2>4 DEF EventsAreRecent
<1>7. ResetIsClean' BY <1>2 DEF ResetIsClean
<1>8. CountedIsThere' BY <1>1, <1>2 DEF CountedIsThere
<1> QED BY <1>3, <1>4, <1>5, <1>6, <1>7, <1>8 DEF DemoInv

LEMMA DemoStarts ==
  ASSUME DemoInv, NEW evening \in BOOLEAN, NEW resets \in BOOLEAN, NEW seeds \in BOOLEAN,
         StartDemo(evening, resets, seeds)
  PROVE  DemoInv'
<1>1. PICK stage \in {"unlink", "users"} :
        run' = [stage |-> stage, evening |-> evening, seeds |-> seeds]
  BY DEF StartDemo
<1>2. AtRest /\ (run.evening => evening) /\ UNCHANGED <<now, rowVars, first, touched, cut>>
  BY DEF StartDemo
<1>3. image \in BOOLEAN /\ cut \in BOOLEAN BY DEF DemoInv, DemoTyped
<1> QED BY <1>1, <1>2, <1>3, DemoMoves DEF AtRest, rowVars

LEMMA DemoKilled == ASSUME DemoInv, KillDemo PROVE DemoInv'
<1>1. /\ run' = [run EXCEPT !.stage = "off"] /\ UNCHANGED <<now, rowVars, first, touched>>
      /\ cut' = (cut \/ run.stage \in {"clear", "recount"})
  BY DEF KillDemo, Enters
<1>2. DemoTyped BY DEF DemoInv
<1>3. PICK evening \in BOOLEAN, seeds \in BOOLEAN :
        /\ run' = [stage |-> "off", evening |-> evening, seeds |-> seeds]
        /\ run.evening = evening
  BY <1>1, <1>2 DEF DemoTyped
<1>4. cut' \in BOOLEAN /\ (cut => cut') /\ (run.stage \in {"clear", "recount"} => cut')
  BY <1>1, Zenon
<1>5. image \in BOOLEAN BY <1>2 DEF DemoTyped
<1> QED BY <1>1, <1>3, <1>4, <1>5, DemoMoves DEF rowVars

LEMMA DemoUnlinks == ASSUME DemoInv, UnlinkImages PROVE DemoInv'
<1>1. /\ run.stage = "unlink" /\ run' = [run EXCEPT !.stage = "clear"] /\ image' = FALSE
      /\ UNCHANGED <<now, kept, purse, follow, like, likeCount, slot, booked, copies, counted,
                     first, touched, cut>>
  BY DEF UnlinkImages, Enters
<1>2. DemoTyped BY DEF DemoInv
<1>3. PICK evening \in BOOLEAN, seeds \in BOOLEAN :
        /\ run' = [stage |-> "clear", evening |-> evening, seeds |-> seeds]
        /\ run.evening = evening
  BY <1>1, <1>2 DEF DemoTyped
<1>4. cut \in BOOLEAN BY <1>2 DEF DemoTyped
<1> QED BY <1>1, <1>3, <1>4, DemoMoves

LEMMA DemoDay == ASSUME DemoInv, DayPasses PROVE DemoInv'
<1>1. /\ AtRest /\ now < LastDemoDay /\ now' = now + 1
      /\ run' = [run EXCEPT !.evening = FALSE]
      /\ UNCHANGED <<kept, image, purse, follow, like, likeCount, slot, booked, copies,
                     counted, first, touched, cut>>
  BY DEF DayPasses, rowVars
<1>2. DemoTyped /\ SeededAlike /\ RunIsAlike /\ EventsAreRecent /\ ResetIsClean /\ CountedIsThere
  BY DEF DemoInv
<1>3. run.stage \notin LaterStages /\ run.stage # "recount" BY <1>1, StagesAre DEF AtRest
<1>4. now \in Nat /\ now' \in 0..LastDemoDay BY <1>1, <1>2, DemoAssumption DEF DemoTyped
<1>11. /\ run' \in [stage : DOMAIN Follows \cup {"off", "clear", "recount", "done", "cleared"},
                    evening : BOOLEAN, seeds : BOOLEAN]
       /\ run'.stage = run.stage /\ ~run'.evening /\ run.evening \in BOOLEAN
  BY <1>1, <1>2 DEF DemoTyped
<1>5. DemoTyped' BY <1>1, <1>2, <1>4, <1>11 DEF DemoTyped
<1>6. SeededAlike' BY <1>1, <1>2 DEF SeededAlike
<1>7. RunIsAlike'
  <2>1. InOrder(run'.stage) \subseteq kept' BY <1>1, <1>2, <1>11 DEF RunIsAlike
  <2>2. first' # NoRun => first'.day \in 0..now' BY <1>1, <1>2, <1>4 DEF RunIsAlike
  <2>3. run'.stage \notin LaterStages /\ (kept' # {} => first' # NoRun)
    BY <1>1, <1>2, <1>3, <1>11 DEF RunIsAlike
  <2> QED BY <2>1, <2>2, <2>3 DEF RunIsAlike
<1>8. EventsAreRecent'
  <2>1. \A o \in Ages : copies[o] \subseteq Int BY <1>2 DEF DemoTyped
  <2>2. Moment \in Nat /\ Moment <= 5 * now + 3 BY <1>4, <1>11, MomentIs
  <2>3. Moment' = 5 * now + 6 BY <1>1, <1>4, <1>11 DEF Moment
  <2>4. \A o \in Ages : \A t \in copies[o] : t <= Moment'
    BY <1>2, <1>4, <2>1, <2>2, <2>3 DEF EventsAreRecent
  <2> QED BY <1>1, <1>2, <2>4 DEF EventsAreRecent
<1>9. ResetIsClean' BY <1>1, <1>2, <1>11 DEF ResetIsClean
<1>10. CountedIsThere' BY <1>1, <1>2, <1>3, <1>11 DEF CountedIsThere
<1> QED BY <1>5, <1>6, <1>7, <1>8, <1>9, <1>10 DEF DemoInv

LEMMA DemoClears == ASSUME DemoInv, ClearRows PROVE DemoInv'
<1>1. /\ run.stage = "clear" /\ run' = [run EXCEPT !.stage = AfterClear]
      /\ kept' = {} /\ purse' = NoPurse /\ follow' = "none" /\ like' = "none" /\ likeCount' = 0
      /\ slot' = [i \in Slots |-> "none"] /\ booked' = 0 /\ copies' = [o \in Ages |-> {}]
      /\ first' = NoRun /\ touched' = FALSE
      /\ cut' = (cut \/ (first # NoRun /\ Today - first.day > RecountDays - EventDays + 1))
      /\ UNCHANGED <<now, image, counted>>
  BY DEF ClearRows, Enters
<1>2. DemoTyped /\ RunIsAlike /\ EventsAreRecent /\ CountedIsThere BY DEF DemoInv
<1>3. PICK stage \in {"users", "cleared", "recount"} :
        /\ stage = AfterClear
        /\ stage # "recount" => DaysWithEvents = {}
  BY DEF AfterClear, AfterReset
<1>4. /\ run' \in [stage : DOMAIN Follows \cup {"off", "clear", "recount", "done", "cleared"},
                   evening : BOOLEAN, seeds : BOOLEAN]
      /\ run'.stage = stage /\ stage \notin LaterStages
  <2>1. stage \in DOMAIN Follows \cup {"off", "clear", "recount", "done", "cleared"} BY StagesAre
  <2>2. stage \notin LaterStages BY StagesAre
  <2> QED BY <1>1, <1>2, <1>3, <2>1, <2>2 DEF DemoTyped
<1>5. cut' \in BOOLEAN /\ (~cut' => ~cut /\ (first = NoRun \/ ~(Today - first.day > RecountDays - EventDays + 1)))
  BY <1>1, Zenon
<1>6. DemoTyped'
  <2>1. purse' \in [exists : BOOLEAN, balance : Int, ledger : Int]
        /\ first' \in [day : Int, evening : BOOLEAN]
    BY <1>1 DEF NoPurse, NoRun
  <2>2. copies' \in [Ages -> SUBSET Int] /\ slot' \in [Slots -> {"none", "open", "booked", "taken"}]
    BY <1>1
  <2>3. now' \in 0..LastDemoDay /\ image' \in BOOLEAN BY <1>1, <1>2 DEF DemoTyped
  <2>4. kept' \subseteq SeededStages /\ follow' \in {"none", "seeded", "app"}
        /\ like' \in {"none", "seeded"} /\ likeCount' \in Int
    BY <1>1
  <2>5. booked' \in 0..3 BY <1>1
  <2>6. touched' \in BOOLEAN /\ cut' \in BOOLEAN BY <1>1, <1>5, Zenon
  <2>7. run' \in [stage : DOMAIN Follows \cup {"off", "clear", "recount", "done", "cleared"},
                  evening : BOOLEAN, seeds : BOOLEAN]
    BY <1>4
  <2> QED BY <2>1, <2>2, <2>3, <2>4, <2>5, <2>6, <2>7 DEF DemoTyped
<1>7. SeededAlike'
  <2>1. \A i \in Slots : slot'[i] = "none" /\ i # 0 BY <1>1 DEF Slots
  <2> QED BY <1>1, <2>1 DEF SeededAlike, NoPurse
<1>8. RunIsAlike'
  <2>1. InOrder(stage) = {} BY <1>3 DEF InOrder
  <2> QED BY <1>1, <1>4, <2>1 DEF RunIsAlike
<1>9. EventsAreRecent' BY <1>1 DEF EventsAreRecent
<1>10. ResetIsClean' BY <1>1 DEF ResetIsClean, NoPurse
<1>11. ASSUME ~cut'
       PROVE  /\ stage = "recount" => counted \subseteq (Today - RecountDays)..Today
              /\ stage # "recount" => counted = {}
  <2>1. \A d \in counted : \E o \in Ages : \E t \in copies[o] : d = ShanghaiDay(t)
    BY <1>1, <1>2, <1>5, <1>11 DEF CountedIsThere
  <2>2. ASSUME NEW d \in counted PROVE d \in (Today - RecountDays)..Today
    <3>1. PICK o \in Ages : \E t \in copies[o] : d = ShanghaiDay(t) BY <2>1
    <3>2. PICK t \in copies[o] : d = ShanghaiDay(t) BY <3>1
    <3>3. t \in Int /\ now \in Nat /\ run.evening \in BOOLEAN
      BY <1>2, <3>2, DemoAssumption DEF DemoTyped
    <3>4. first # NoRun /\ 5 * (first.day - o) <= t /\ t <= Moment
      BY <1>2, <3>2 DEF EventsAreRecent
    <3>5. first.day \in 0..now BY <1>2, <3>4 DEF RunIsAlike
    <3>6. ~(Today - first.day > RecountDays - EventDays + 1) BY <1>5, <1>11, <3>4
    <3>7. o \in Nat /\ o <= EventDays - 1 /\ EventDays \in Nat /\ RecountDays \in Nat
      BY DemoAssumption DEF Ages
    <3>8. Moment \in Nat BY <3>3, MomentIs
    <3>9. Today \in Int /\ d \in Int /\ d <= Today
      BY <3>2, <3>3, <3>4, <3>8 DEF Today, ShanghaiDay
    <3>10. first.day - o <= d BY <3>2, <3>3, <3>4, <3>5, <3>7 DEF ShanghaiDay
    <3> QED BY <3>5, <3>6, <3>7, <3>9, <3>10
  <2>3. DaysWithEvents = {} => counted = {} BY <2>1 DEF DaysWithEvents
  <2> QED BY <1>3, <2>2, <2>3
<1>13. Today' = Today
  <2>1. run'.evening = run.evening BY <1>1, <1>2 DEF DemoTyped
  <2> QED BY <1>1, <2>1 DEF Today, Moment
<1>12. CountedIsThere' BY <1>1, <1>4, <1>11, <1>13 DEF CountedIsThere
<1> QED BY <1>6, <1>7, <1>8, <1>9, <1>10, <1>12 DEF DemoInv

LEMMA DemoRecounts == ASSUME DemoInv, Recount PROVE DemoInv'
<1>1. /\ run.stage = "recount" /\ run' = [run EXCEPT !.stage = AfterReset] /\ Rebuilt(RecountDays)
      /\ UNCHANGED <<now, kept, image, purse, follow, like, likeCount, slot, booked, copies,
                     first, touched, cut>>
  BY DEF Recount, Enters
<1>2. DemoTyped /\ SeededAlike /\ RunIsAlike /\ EventsAreRecent /\ ResetIsClean /\ CountedIsThere
  BY DEF DemoInv
<1>3. PICK stage \in {"users", "cleared"} : stage = AfterReset BY DEF AfterReset
<1>4. /\ run' \in [stage : DOMAIN Follows \cup {"off", "clear", "recount", "done", "cleared"},
                   evening : BOOLEAN, seeds : BOOLEAN]
      /\ run'.stage = stage /\ stage \notin LaterStages
  <2>1. stage \in DOMAIN Follows \cup {"off", "clear", "recount", "done", "cleared"} BY StagesAre
  <2>2. stage \notin LaterStages BY StagesAre
  <2> QED BY <1>1, <1>2, <1>3, <2>1, <2>2 DEF DemoTyped
<1>5. DemoTyped' BY <1>1, <1>2, <1>4 DEF DemoTyped
<1>6. SeededAlike' BY <1>1, <1>2 DEF SeededAlike
<1>7. RunIsAlike'
  <2>1. InOrder(stage) = {} BY <1>3 DEF InOrder
  <2> QED BY <1>1, <1>2, <1>4, <2>1 DEF RunIsAlike
<1>8. EventsAreRecent'
  <2>1. run'.evening = run.evening BY <1>1, <1>2 DEF DemoTyped
  <2>2. Moment' = Moment BY <1>1, <2>1 DEF Moment
  <2> QED BY <1>1, <1>2, <2>2 DEF EventsAreRecent
<1>9. ResetIsClean' BY <1>1, <1>2 DEF ResetIsClean
<1>10. CountedIsThere'
  <2>1. DaysWithEvents = {} BY <1>1, <1>2 DEF ResetIsClean, DaysWithEvents
  <2>2. \A d \in counted' : d \in counted /\ d \notin (Today - RecountDays)..Today
    BY <1>1, <2>1 DEF Rebuilt
  <2>3. ~cut => counted' = {} BY <1>1, <1>2, <2>2 DEF CountedIsThere
  <2> QED BY <1>1, <1>2, <1>4, <2>3 DEF CountedIsThere, ResetIsClean
<1> QED BY <1>5, <1>6, <1>7, <1>8, <1>9, <1>10 DEF DemoInv

\* The accounts in use.
LEMMA DemoUsed ==
  ASSUME DemoInv, Use, UNCHANGED <<now, run, kept, image, booked, copies, counted, first, cut>>,
         purse' \in [exists : BOOLEAN, balance : Int, ledger : Int],
         follow' \in {"none", "seeded", "app"}, like' \in {"none", "seeded"}, likeCount' \in Int,
         slot' \in [Slots -> {"none", "open", "booked", "taken"}]
  PROVE  DemoInv'
<1>1. "users" \in kept /\ touched' = TRUE BY DEF Use
<1>2. DemoTyped /\ RunIsAlike /\ EventsAreRecent /\ ResetIsClean /\ CountedIsThere BY DEF DemoInv
<1>3. DemoTyped' BY <1>1, <1>2 DEF DemoTyped
<1>4. SeededAlike' BY <1>1 DEF SeededAlike
<1>5. RunIsAlike' BY <1>1, <1>2 DEF RunIsAlike
<1>9. Moment' = Moment /\ Today' = Today BY DEF Today, Moment
<1>6. EventsAreRecent' BY <1>2, <1>9 DEF EventsAreRecent
<1>7. ResetIsClean' BY <1>1, <1>2 DEF ResetIsClean
<1>8. CountedIsThere' BY <1>2, <1>9 DEF CountedIsThere
<1> QED BY <1>3, <1>4, <1>5, <1>6, <1>7, <1>8 DEF DemoInv

LEMMA DemoInductive == DemoInv /\ DemoNext => DemoInv'
<1> SUFFICES ASSUME DemoInv, DemoNext PROVE DemoInv' OBVIOUS
<1>1. /\ purse \in [exists : BOOLEAN, balance : Int, ledger : Int]
      /\ follow \in {"none", "seeded", "app"} /\ like \in {"none", "seeded"} /\ likeCount \in Int
      /\ slot \in [Slots -> {"none", "open", "booked", "taken"}]
  BY DEF DemoInv, DemoTyped
<1>2. CASE OpenPurse
  <2>1. purse' \in [exists : BOOLEAN, balance : Int, ledger : Int] BY <1>1, <1>2 DEF OpenPurse
  <2> QED BY <1>1, <1>2, <2>1, DemoUsed DEF OpenPurse
<1>3. CASE TurnFollow BY <1>1, <1>3, DemoUsed DEF TurnFollow
<1>4. CASE TakeBackLike BY <1>1, <1>4, DemoUsed DEF TakeBackLike
<1>5. ASSUME NEW i \in Slots, TakeSlot(i) PROVE DemoInv'
  <2>1. slot' \in [Slots -> {"none", "open", "booked", "taken"}] BY <1>1, <1>5 DEF TakeSlot
  <2> QED BY <1>1, <1>5, <2>1, DemoUsed DEF TakeSlot
<1> QED BY <1>2, <1>3, <1>4, <1>5, DemoStarts, DemoKilled, DemoDay, DemoUsers, DemoQuietStages,
           DemoPosts, DemoCompanions, DemoCommerce, DemoEvents, DemoAggregates, DemoUnlinks,
           DemoClears, DemoRecounts DEF DemoNext

LEMMA DemoInitially == ASSUME DemoInit PROVE DemoInv
<1>1. /\ now = 0 /\ run = [stage |-> "off", evening |-> FALSE, seeds |-> FALSE]
      /\ kept = {} /\ image = FALSE /\ purse = NoPurse
      /\ follow = "none" /\ like = "none" /\ likeCount = 0
      /\ slot = [i \in Slots |-> "none"] /\ booked = 0
      /\ copies = [o \in Ages |-> {}] /\ counted = {}
      /\ first = NoRun /\ touched = FALSE /\ cut = FALSE
  BY DEF DemoInit
<1>2. DemoTyped
  <2>1. purse \in [exists : BOOLEAN, balance : Int, ledger : Int]
        /\ first \in [day : Int, evening : BOOLEAN]
    BY <1>1 DEF NoPurse, NoRun
  <2>2. copies \in [Ages -> SUBSET Int] /\ slot \in [Slots -> {"none", "open", "booked", "taken"}]
    BY <1>1
  <2>3. now \in 0..LastDemoDay BY <1>1, DemoAssumption
  <2>4. kept \subseteq SeededStages /\ follow \in {"none", "seeded", "app"}
        /\ like \in {"none", "seeded"} /\ likeCount \in Int
    BY <1>1
  <2>5. booked \in 0..3 BY <1>1
  <2>6. image \in BOOLEAN /\ touched \in BOOLEAN /\ cut \in BOOLEAN BY <1>1, Zenon
  <2>7. run \in [stage : DOMAIN Follows \cup {"off", "clear", "recount", "done", "cleared"},
                 evening : BOOLEAN, seeds : BOOLEAN]
    BY <1>1
  <2> QED BY <2>1, <2>2, <2>3, <2>4, <2>5, <2>6, <2>7 DEF DemoTyped
<1>3. SeededAlike
  <2>1. \A i \in Slots : slot[i] = "none" /\ i # 0 BY <1>1 DEF Slots
  <2> QED BY <1>1, <2>1 DEF SeededAlike
<1>4. RunIsAlike BY <1>1, StagesAre DEF RunIsAlike, InOrder
<1> QED BY <1>1, <1>2, <1>3, <1>4 DEF EventsAreRecent, ResetIsClean, CountedIsThere, DemoInv

LEMMA DemoTypes == ASSUME DemoInv PROVE DemoTypeOK /\ DemoDataRepeats
<1>1. DemoTyped /\ SeededAlike /\ RunIsAlike /\ ResetIsClean /\ CountedIsThere BY DEF DemoInv
<1>2. DemoTypeOK BY <1>1 DEF DemoTyped, DemoTypeOK, SeededStages
<1>3. ASSUME ~touched, NEW o \in Ages PROVE Cardinality(copies[o]) <= 1
  <2>1. \A d, e \in copies[o] : d = e BY <1>1, <1>3 DEF SeededAlike
  <2>2. CASE copies[o] = {} BY <2>2, FS_EmptySet
  <2>3. CASE copies[o] # {}
    <3>1. PICK d : copies[o] = {d} BY <2>1, <2>3
    <3>2. Cardinality({d}) = 1 BY FS_Singleton
    <3> QED BY <3>1, <3>2
  <2> QED BY <2>2, <2>3
<1>4. ~touched => /\ purse.balance = purse.ledger
                  /\ likeCount = (IF like = "none" THEN 0 ELSE 1)
                  /\ \A i \in Slots : slot[i] = "booked" <=> booked = i
  BY <1>1 DEF SeededAlike, NoPurse
<1>5. run.stage = "done" => kept = SeededStages
  <2>1. InOrder("done") = SeededStages BY DEF InOrder
  <2> QED BY <1>1, <2>1 DEF RunIsAlike, DemoTyped
<1>6. run.stage = "cleared" =>
        /\ kept = {} /\ ~purse.exists /\ follow = "none" /\ like = "none"
        /\ \A i \in Slots : slot[i] = "none"
        /\ DaysWithEvents = {}
  BY <1>1 DEF ResetIsClean, DaysWithEvents
<1>7. ~cut => /\ run.stage # "recount" => counted \subseteq DaysWithEvents
              /\ "users" \in kept /\ run.stage # "clear" => image
  BY <1>1 DEF CountedIsThere, DaysWithEvents
<1>8. DemoDataRepeats BY <1>3, <1>4, <1>5, <1>6, <1>7 DEF DemoDataRepeats, SeededStages
<1> QED BY <1>2, <1>8

-----------------------------------------------------------------------------
(***************************************************************************)
(* All parts together.  The part that moves keeps its invariant; the other *)
(* parts are at rest.                                                      *)
(***************************************************************************)
OfficeInv ==
  /\ part = "accounts" => AccountInv
  /\ part = "sessions" => AuthInv /\ FamiliesOld
  /\ part = "trust" => TrustInv
  /\ part # "trust" => TrustInit
  /\ part = "outreach" => OutreachInv
  /\ part = "analytics" => AnalyticsInv
  /\ part = "staff" => StaffInv
  /\ part = "companions" => CompanionInv
  /\ part = "memberships" => MemberInv
  /\ part = "seeding" => SeedInv
  /\ part = "demo" => DemoInv

LEMMA FamiliesInitially == ASSUME SessionsInit PROVE FamiliesOld
<1>1. tokens = <<>> /\ sentToday = 0 /\ sent = 0 /\ recent = FALSE BY DEF SessionsInit
<1>2. DOMAIN <<>> = {} OBVIOUS
<1> QED BY <1>1, <1>2 DEF FamiliesOld

LEMMA OfficeInitially == BackofficeInit => OfficeInv
BY AccountInitially, AuthInitially, FamiliesInitially, TrustInitially, OutreachInitially,
   AnalyticsInitially, StaffInitially, CompanionInitially, MemberInitially,
   SeedInitially, DemoInitially
   DEF BackofficeInit, OfficeInv

\* Where nothing changes.
LEMMA OfficeStands ==
  ASSUME OfficeInv, UNCHANGED officeVars
  PROVE  OfficeInv'
<1>1. /\ UNCHANGED <<serial, blocks, part>>
      /\ UNCHANGED accountVars /\ UNCHANGED authVars /\ UNCHANGED trustVars
      /\ UNCHANGED outreachVars /\ UNCHANGED analyticsVars /\ UNCHANGED staffVars
      /\ UNCHANGED companionVars /\ UNCHANGED membershipVars
      /\ UNCHANGED seedVars /\ UNCHANGED demoVars
  BY DEF officeVars
<1>2. AccountInv => AccountInv'
  BY <1>1 DEF accountVars, AccountInv, AccountHasItsReason, AcctFresh, AcctTyped, Admitted,
              Others, OthersLeft, Standing, Unrevoked
<1>3. AuthInv /\ FamiliesOld => AuthInv' /\ FamiliesOld'
  BY <1>1 DEF authVars, AuthInv, AuthTyped, CodesOnce, Rests, SerialInv, TokensOnce, Unused,
              FamiliesOld
<1>4. TrustInv => TrustInv' BY <1>1, TrustInductive
<1>5. TrustInit => TrustInit' BY <1>1 DEF trustVars, TrustInit
<1>6. OutreachInv => OutreachInv'
  BY <1>1 DEF outreachVars, OutreachInv, OutTyped, UnreadCounted, SentAsAnnounced, SendsFirst,
              Delivered
<1>7. AnalyticsInv => AnalyticsInv'
  <2>1. UNCHANGED analyticsVars BY <1>1
  <2>2. \A d : ReceivedOn(d)' = ReceivedOn(d) BY <2>1 DEF analyticsVars, ReceivedOn
  <2>3. AnalyticsTyped => AnalyticsTyped' BY <2>1 DEF analyticsVars, AnalyticsTyped
  <2>4. Accepted => Accepted' BY <2>1 DEF analyticsVars, Accepted, Expired
  <2>5. RawWasAccepted => RawWasAccepted' BY <2>1, <2>2 DEF analyticsVars, RawWasAccepted, Expired
  <2>6. ClosedCount => ClosedCount' BY <2>1, <2>2 DEF analyticsVars, ClosedCount
  <2> QED BY <2>3, <2>4, <2>5, <2>6 DEF AnalyticsInv
<1>8. StaffInv => StaffInv' BY <1>1, StaffInductive
<1>9. CompanionInv => CompanionInv' BY <1>1, CompanionInductive
<1>10. MemberInv => MemberInv'
  <2>1. UNCHANGED <<serial, date, periods, settled, owed, refunded, memberTx>>
    BY <1>1 DEF membershipVars
  <2>2. Ends' = Ends BY <2>1 DEF Ends, Good
  <2>3. \A m : OwedTo(m)' = OwedTo(m) BY <2>1 DEF OwedTo
  <2>4. MemberTyped => MemberTyped' BY <2>1 DEF MemberTyped
  <2>5. OwedIsCovered => OwedIsCovered' BY <2>1, <2>3 DEF OwedIsCovered
  <2>6. NoneGiven => NoneGiven' BY <2>1 DEF NoneGiven, OwedInAll, OwedTo
  <2>7. ReadsHold => ReadsHold'
    <3>1. StartsAt(Ends)' = StartsAt(Ends) BY <2>1, <2>2 DEF StartsAt
    <3> QED BY <2>1, <3>1 DEF ReadsHold
  <2> QED BY <2>1, <2>4, <2>5, <2>6, <2>7 DEF MemberInv
<1>11. part' = part BY <1>1
<1>12. SeedInv => SeedInv'
  <2>1. UNCHANGED <<script, pc, at, made, listed, rows, helper, offers, slots, booking, shelf>>
    BY <1>1 DEF seedVars, runVars, worldVars
  <2>2. \A t : TitleDone(t)' = TitleDone(t) BY <2>1 DEF TitleDone
  <2>3. SeedTyped => SeedTyped' BY <2>1 DEF SeedTyped
  <2>4. RowsOnce => RowsOnce' BY <2>1 DEF RowsOnce
  <2>5. TitlesSoFar => TitlesSoFar' BY <2>1, <2>2 DEF TitlesSoFar
  <2>6. StagesSoFar => StagesSoFar' BY <2>1, <2>2 DEF StagesSoFar
  <2> QED BY <2>1, <2>3, <2>4, <2>5, <2>6 DEF SeedInv
<1>13. DemoInv => DemoInv'
  <2>1. UNCHANGED <<now, run, kept, image, purse, follow, like, likeCount, slot, booked, copies,
                    counted, first, touched, cut>>
    BY <1>1 DEF demoVars, rowVars
  <2>2. DemoTyped => DemoTyped' BY <2>1 DEF DemoTyped
  <2>3. SeededAlike => SeededAlike' BY <2>1 DEF SeededAlike
  <2>4. RunIsAlike => RunIsAlike' BY <2>1 DEF RunIsAlike
  <2>5. EventsAreRecent => EventsAreRecent' BY <2>1 DEF EventsAreRecent, Moment
  <2>6. ResetIsClean => ResetIsClean' BY <2>1 DEF ResetIsClean
  <2>7. CountedIsThere => CountedIsThere'
    BY <2>1 DEF CountedIsThere, Today, Moment, ShanghaiDay
  <2> QED BY <2>2, <2>3, <2>4, <2>5, <2>6, <2>7 DEF DemoInv
<1> QED BY <1>2, <1>3, <1>4, <1>5, <1>6, <1>7, <1>8, <1>9, <1>10, <1>11, <1>12,
           <1>13 DEF OfficeInv

LEMMA OfficeInductive ==
  ASSUME OfficeInv, [BackofficeNext]_officeVars
  PROVE  OfficeInv'
<1>1. CASE BackofficeNext
  <2>1. part' = part BY <1>1 DEF BackofficeNext, RestingBut
  <2>2. /\ part = "accounts" => AccountsNext
        /\ part = "sessions" => SessionsNext
        /\ part = "trust" => TrustNext
        /\ part # "trust" => UNCHANGED trustVars
        /\ part = "outreach" => OutreachNext
        /\ part = "analytics" => AnalyticsNext
        /\ part = "staff" => StaffNext
        /\ part = "companions" => CompanionsNext
        /\ part = "memberships" => MembershipsNext
        /\ part = "seeding" => SeedingNext
        /\ part = "demo" => DemoNext
    BY <1>1 DEF BackofficeNext, RestingBut
  <2>3. part # "trust" => TrustInit' BY <2>2 DEF OfficeInv, TrustInit, trustVars
  <2>4. part = "accounts" => AccountInv' BY <2>2, AccountInductive DEF OfficeInv
  <2>5. part = "sessions" => AuthInv' /\ FamiliesOld'
    BY <2>2, AuthInductive, FamiliesInductive DEF OfficeInv
  <2>6. part = "trust" => TrustInv' BY <2>2, TrustInductive DEF OfficeInv
  <2>7. part = "outreach" => OutreachInv' BY <2>2, OutreachInductive DEF OfficeInv
  <2>8. part = "analytics" => AnalyticsInv' BY <2>2, AnalyticsInductive DEF OfficeInv
  <2>9. part = "staff" => StaffInv' BY <2>2, StaffInductive DEF OfficeInv
  <2>10. part = "companions" => CompanionInv' BY <2>2, CompanionInductive DEF OfficeInv
  <2>11. part = "memberships" => MemberInv' BY <2>2, MemberInductive DEF OfficeInv
  <2>12. part = "seeding" => SeedInv' BY <2>2, SeedInductive DEF OfficeInv
  <2>13. part = "demo" => DemoInv' BY <2>2, DemoInductive DEF OfficeInv
  <2> QED BY <2>1, <2>3, <2>4, <2>5, <2>6, <2>7, <2>8, <2>9, <2>10, <2>11, <2>12, <2>13
          DEF OfficeInv
<1> QED BY <1>1, OfficeStands

LEMMA OfficeAlways == BackofficeSpec => []OfficeInv
<1>1. OfficeInv /\ [BackofficeNext]_officeVars => OfficeInv' BY OfficeInductive
<1> QED BY <1>1, OfficeInitially, PTL DEF BackofficeSpec

\* resolve, sanctions, delete_account, admin_review_companion: the status of an
\* account and of a companion is the one that was decided last.
THEOREM StatusIsRight == BackofficeSpec => []StatusHasItsReason
<1>1. OfficeInv => StatusHasItsReason
  BY AccountTypes, CompanionTypes DEF OfficeInv, StatusHasItsReason
<1> QED BY <1>1, OfficeAlways, PTL

\* record_trust_event and the verification: the level, the samples and the badge
\* are those of what was recorded.
THEOREM ScoreIsRight == BackofficeSpec => []ScoreIsEarned
<1>1. OfficeInv => ScoreIsEarned BY TrustTypes, TrustInitially DEF OfficeInv
<1> QED BY <1>1, OfficeAlways, PTL

\* send_campaign, ingest and _activate_membership: a campaign goes out once, an
\* event counts once, a paid day is given once.
THEOREM OnceEachHolds == BackofficeSpec => []OnceEach
<1>1. OfficeInv => OnceEach
  BY OutreachTypes, AnalyticsTypes, MemberTypes DEF OfficeInv, OnceEach
<1> QED BY <1>1, OfficeAlways, PTL

\* seed_pages and seed_demo_data: a second run after one that was killed, or after
\* one that ended, writes what is not there and nothing twice.
THEOREM RunsAgainHolds == BackofficeSpec => []RunsAgain
<1>1. OfficeInv => RunsAgain BY SeedTypes, DemoTypes DEF OfficeInv, RunsAgain
<1> QED BY <1>1, OfficeAlways, PTL

\* Each part of the back office keeps its types.
THEOREM BackofficeIsTyped == BackofficeSpec => []BackofficeTypeOK
<1>1. OfficeInv => BackofficeTypeOK
  BY AccountTypes, SessionTypes, TrustTypes, OutreachTypes, AnalyticsTypes, SeedTypes, DemoTypes,
     CompanionTypes, MemberTypes
     DEF OfficeInv, BackofficeTypeOK, StaffInv
<1> QED BY <1>1, OfficeAlways, PTL

\* build_shelves, diversify, pick_featured and funnel_sql: a page offers what it
\* may, once, and what is left; a funnel counts who did its steps in order.
THEOREM ListsHold == BackofficeSpec => []ListsAsMeant
<1> DEFINE Inv == part = "rankings" => RankingsInv
<1>1. BackofficeInit => Inv BY RankingsInitially DEF BackofficeInit
<1>2. Inv /\ [BackofficeNext]_officeVars => Inv'
  <2> SUFFICES ASSUME Inv, [BackofficeNext]_officeVars PROVE Inv' OBVIOUS
  <2>1. UNCHANGED <<part, acts, log>>
    <3>1. CASE BackofficeNext BY <3>1 DEF BackofficeNext, RestingBut, rankingVars
    <3>2. CASE UNCHANGED officeVars BY <3>2 DEF officeVars, rankingVars
    <3> QED BY <3>1, <3>2
  <2> QED BY <2>1 DEF RankingsInv, Page
<1>3. Inv => ListsAsMeant BY RankingsAreRight DEF ListsAsMeant
<1> QED BY <1>1, <1>2, <1>3, PTL DEF BackofficeSpec

\* login, refresh, logout and admin_force_logout, as in TokensRotate: whatever else
\* moves, no login has two good refresh tokens.
THEOREM OneTokenHolds == BackofficeSpec => []OneTokenPerLogin
<1> DEFINE Inv == part # "sessions" => tokens = <<>> /\ used = <<>> /\ sentToday = 0
<1>1. BackofficeInit => Inv BY DEF BackofficeInit, SessionsInit
<1>2. Inv /\ [BackofficeNext]_officeVars => Inv'
  <2> SUFFICES ASSUME Inv, [BackofficeNext]_officeVars PROVE Inv' OBVIOUS
  <2>1. part' = part /\ (part # "sessions" => UNCHANGED authVars)
    <3>1. CASE BackofficeNext BY <3>1 DEF BackofficeNext, RestingBut
    <3>2. CASE UNCHANGED officeVars BY <3>2 DEF officeVars
    <3> QED BY <3>1, <3>2
  <2> QED BY <2>1 DEF authVars
<1>3. OfficeInv /\ Inv => OneTokenPerLogin
  <2>1. CASE part = "sessions" BY <2>1, OnceIsOne DEF OfficeInv
  <2>2. CASE part # "sessions" /\ Inv
    <3>1. DOMAIN tokens = {} /\ DOMAIN used = {} /\ sentToday = 0 BY <2>2
    <3> QED BY <3>1, SessionsAssumption DEF OneTokenPerLogin
  <2> QED BY <2>1, <2>2
<1> QED BY <1>1, <1>2, <1>3, OfficeAlways, PTL DEF BackofficeSpec

\* update_admin, as in StaffManaged: whatever else moves, somebody manages the
\* accounts of the admins.
THEOREM SomebodyStays == BackofficeSpec => []SomebodyManages
<1> DEFINE Inv == part # "staff" => Manages(FirstAdmin)
<1>1. BackofficeInit => Inv BY StaffAssumption DEF BackofficeInit, StaffInit, Manages
<1>2. Inv /\ [BackofficeNext]_officeVars => Inv'
  <2> SUFFICES ASSUME Inv, [BackofficeNext]_officeVars PROVE Inv' OBVIOUS
  <2>1. part' = part /\ (part # "staff" => UNCHANGED staffVars)
    <3>1. CASE BackofficeNext BY <3>1 DEF BackofficeNext, RestingBut
    <3>2. CASE UNCHANGED officeVars BY <3>2 DEF officeVars
    <3> QED BY <3>1, <3>2
  <2> QED BY <2>1 DEF staffVars, Manages
<1>3. OfficeInv /\ Inv => SomebodyManages
  BY StaffAssumption DEF OfficeInv, StaffInv, SomebodyManages
<1> QED BY <1>1, <1>2, <1>3, OfficeAlways, PTL DEF BackofficeSpec
===============================================================================

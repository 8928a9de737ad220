---------------------------- MODULE AccountsProofs ----------------------------
(***************************************************************************)
(* Theorems about the accounts: for any number of handlers, users and      *)
(* requests.                                                               *)
(***************************************************************************)
EXTENDS Accounts, TLAPS

(* A local row keeps the address that it was made for and has a password; the row
   of a subject has none *)
Rows(us) ==
    /\ us \in [Ids -> Maybe(Users)]
    /\ \A e \in Emails : us[e] # None => us[e].email = e /\ us[e].password # None
    /\ \A s \in Subjects : us[s] # None => us[s].password = None

(* No two accounts have one e-mail address *)
Accts(ac) ==
    /\ ac \in [Subjects -> Maybe(Users)]
    /\ \A s, t \in Subjects : ac[s] # None /\ ac[t] # None /\ ac[s].email = ac[t].email => s = t

(* What a handler's session is about, when it is there *)
SessionOK(c, us, ac) ==
    /\ c \in Sessions /\ Claimed(c)
    /\ c.at = "change" => us[c.s] # None /\ c.old.email = c.s
    /\ c.at = "setPassword" =>
         ac[c.s] # None /\ ac[c.s].email = c.e /\ ac[c.s].password = None
    /\ c.at \in {"lookup", "bySubject", "update", "byEmail", "insert"} =>
         \E s \in Subjects :
           /\ ac[s] # None /\ ac[s].email = c.e /\ ac[s].password # None
           /\ c.w # None => ac[s].password = c.w
    /\ c.at \in {"bySubject", "update", "byEmail", "insert"} =>
         ac[c.s] # None /\ ac[c.s].email = c.e

SessionsOK ==
    /\ \A h \in Handlers : SessionOK(session[h], user, account)
    /\ \A g, h \in Handlers :
         SignsIn(g, "setPassword") /\ SignsIn(h, "setPassword") /\ session[g].s = session[h].s
         => g = h

Links ==
    /\ rowOf \in [Subjects -> Maybe(Ids)]
    /\ changed \in [Subjects -> Maybe(Passwords)]

ConfirmedHere ==
    /\ here \in [Emails -> Maybe(Passwords)]
    /\ \A e \in Emails : here[e] # None => user[e] # None /\ user[e].password = here[e]

ConfirmedThere ==
    /\ there \in [Subjects -> Maybe(Passwords)]
    /\ \A s \in Subjects :
         there[s] # None => account[s] # None /\ account[s].password = there[s]

AcctInv ==
    /\ mode \in Modes /\ left \in 0..MaxRequests
    /\ session \in [Handlers -> Sessions]
    /\ Rows(user) /\ \A i \in Ids : user[i] # None => EmailFree(user[i].email, i)
    /\ Accts(account)
    /\ SessionsOK /\ Links /\ ConfirmedHere /\ ConfirmedThere

-----------------------------------------------------------------------------

(* A handler without a request has nothing to answer for. *)
LEMMA AwayOK ==
    Away \in Sessions /\ Away.at = "idle" /\ \A us, ac : SessionOK(Away, us, ac)
BY DEF Away, Sessions, Stages, Maybe, SessionOK, Claimed

(* What the invariant says is what the properties say, and more. *)
LEMMA AcctInvImplies == AcctInv => AcctTypeOK /\ AnsweredCanSignIn
<1> SUFFICES ASSUME AcctInv PROVE AcctTypeOK /\ AnsweredCanSignIn
  OBVIOUS
<1>1. AcctTypeOK
  BY DEF AcctInv, AcctTypeOK, SessionsOK, SessionOK, Rows, Accts, Links, ConfirmedHere,
         ConfirmedThere
<1>2. ASSUME NEW e \in Emails, here[e] # None
      PROVE  \E i \in RowAt(e) : user[i].password = here[e]
  BY <1>2 DEF AcctInv, ConfirmedHere, RowAt, Ids, Rows
<1>3. ASSUME NEW s \in Subjects, there[s] # None
      PROVE  account[s] # None /\ PasswordAccepted(account[s].email, there[s])
  BY <1>3 DEF AcctInv, ConfirmedThere, PasswordAccepted, AccountAt
<1> QED BY <1>1, <1>2, <1>3 DEF AnsweredCanSignIn

(* At the start there are rows of this program only. *)
LEMMA AcctInitInv == AcctInit => AcctInv
<1> SUFFICES ASSUME AcctInit PROVE AcctInv
  OBVIOUS
<1>1. PICK old \in SUBSET Emails, w \in {CHOOSE w \in Passwords : TRUE} :
        user = [i \in Ids |-> IF i \in old THEN [email |-> i, password |-> w] ELSE None]
  BY DEF AcctInit
<1>2. w \in Passwords /\ w # None
  BY AccountsAssumption
<1>3. Rows(user)
  <2>1. \A i \in Ids : user[i] \in Maybe(Users)
    BY <1>1, <1>2 DEF Ids, Maybe, Users
  <2> QED BY <1>1, <1>2, <2>1, AccountsAssumption DEF Rows, Ids
<1>4. \A i \in Ids : user[i] # None => EmailFree(user[i].email, i)
  BY <1>1 DEF EmailFree
<1>5. SessionsOK /\ session \in [Handlers -> Sessions]
  BY AwayOK DEF AcctInit, SessionsOK, SignsIn
<1>6. Accts(account) /\ Links
  BY AccountsAssumption DEF AcctInit, Accts, Links, Maybe
<1>7. ConfirmedHere /\ ConfirmedThere
  BY DEF AcctInit, ConfirmedHere, ConfirmedThere, Maybe
<1>8. mode \in Modes /\ left \in 0..MaxRequests
  BY RequestsAssumption DEF AcctInit
<1> QED BY <1>3, <1>4, <1>5, <1>6, <1>7, <1>8 DEF AcctInv

-----------------------------------------------------------------------------

(* One request fewer *)
LEMMA LeftOK == AcctInv /\ NextRequest => left' \in 0..MaxRequests
BY RequestsAssumption DEF AcctInv, NextRequest

(* A row that is there stays there for every session. *)
LEMMA SessionStays ==
    ASSUME NEW c, NEW us, NEW vs, NEW ac, SessionOK(c, us, ac),
           \A i \in Ids : us[i] # None => vs[i] # None
    PROVE  SessionOK(c, vs, ac)
BY DEF SessionOK, Claimed, Ids

(* One session turns to c while the others keep what they rely on. *)
LEMMA OneSession ==
    ASSUME AcctInv, NEW h \in Handlers, NEW c, Turns(h, c),
           SessionOK(c, user', account'),
           \A g \in Handlers \ {h} : SessionOK(session[g], user', account'),
           c.at = "setPassword" =>
             \A g \in Handlers \ {h} : SignsIn(g, "setPassword") => session[g].s # c.s
    PROVE  session' \in [Handlers -> Sessions] /\ SessionsOK'
<1>1. c \in Sessions
  BY DEF SessionOK
<1>2. session' \in [Handlers -> Sessions]
  BY <1>1 DEF AcctInv, Turns
<1>3. session'[h] = c /\ \A g \in Handlers \ {h} : session'[g] = session[g]
  BY DEF AcctInv, Turns
<1>4. \A g \in Handlers : SessionOK(session'[g], user', account')
  BY <1>3
<1>5. ASSUME NEW f \in Handlers, NEW g \in Handlers,
             session'[f].at = "setPassword", session'[g].at = "setPassword",
             session'[f].s = session'[g].s
      PROVE  f = g
  BY <1>3, <1>5 DEF AcctInv, SessionsOK, SignsIn
<1> QED BY <1>2, <1>4, <1>5 DEF SessionsOK, SignsIn

(* A step that moves nothing but one session, which is not about to set a
   password after it *)
LEMMA QuietStep ==
    ASSUME AcctInv, NEW h \in Handlers, NEW c, Turns(h, c),
           SessionOK(c, user, account), c.at # "setPassword",
           left' \in 0..MaxRequests,
           UNCHANGED <<mode, user, account, rowOf, here, there, changed>>
    PROVE  AcctInv'
<1>1. session' \in [Handlers -> Sessions] /\ SessionsOK'
  <2>1. SessionOK(c, user', account')
    BY DEF SessionOK, Claimed
  <2>2. \A g \in Handlers \ {h} : SessionOK(session[g], user', account')
    BY DEF AcctInv, SessionsOK
  <2> QED BY <2>1, <2>2, OneSession
<1>2. (mode \in Modes)' /\ Rows(user)' /\ Accts(account)'
  BY DEF AcctInv
<1>3. Links' /\ ConfirmedHere' /\ ConfirmedThere'
  BY DEF AcctInv, Links, ConfirmedHere, ConfirmedThere
<1>4. \A i \in Ids : user'[i] # None => EmailFree(user[i].email, i)'
  BY DEF AcctInv, EmailFree
<1> QED BY <1>1, <1>2, <1>3, <1>4 DEF AcctInv

(* One row is written with an address that no other row has. *)
LEMMA RowWritten ==
    ASSUME AcctInv, NEW i \in Ids, NEW row \in Users, EmailFree(row.email, i),
           user' = [user EXCEPT ![i] = row],
           IF i \in Emails THEN row.email = i /\ row.password # None ELSE row.password = None,
           UNCHANGED account
    PROVE  /\ Rows(user)' /\ \A j \in Ids : user'[j] # None => EmailFree(user[j].email, j)'
           /\ Accts(account)'
           /\ \A j \in Ids : user[j] # None => user'[j] # None
           /\ \A j \in Ids \ {i} : user'[j] = user[j]
           /\ user'[i] = row
<1>1. user \in [Ids -> Maybe(Users)] /\ row # None
  BY AccountsAssumption DEF AcctInv, Rows
<1>2. user'[i] = row /\ \A j \in Ids \ {i} : user'[j] = user[j]
  BY <1>1
<1>3. Rows(user)'
  <2>1. user' \in [Ids -> Maybe(Users)]
    BY <1>1 DEF Maybe
  <2> QED BY <2>1, <1>2, AccountsAssumption DEF AcctInv, Rows, Ids
<1>4. ASSUME NEW j \in Ids, user'[j] # None, NEW k \in Ids \ {j}, user'[k] # None
      PROVE  user'[k].email # user'[j].email
  BY <1>2, <1>4 DEF AcctInv, EmailFree
<1>5. \A j \in Ids : user'[j] # None => EmailFree(user[j].email, j)'
  BY <1>4 DEF EmailFree
<1>6. Accts(account)'
  BY DEF AcctInv
<1> QED BY <1>1, <1>2, <1>3, <1>5, <1>6

(* The rows that are there stay: the others' sessions are as good as before. *)
LEMMA OthersStay ==
    ASSUME AcctInv, \A i \in Ids : user[i] # None => user'[i] # None,
           UNCHANGED account
    PROVE  \A g \in Handlers : SessionOK(session[g], user', account')
<1> TAKE g \in Handlers
<1>1. SessionOK(session[g], user, account)
  BY DEF AcctInv, SessionsOK
<1>2. SessionOK(session[g], user', account)
  BY <1>1, SessionStays
<1> QED BY <1>2

(* A row of this program's own is written, and its password confirmed. *)
LEMMA LocalWritten ==
    ASSUME AcctInv, NEW e \in Emails, NEW w \in Passwords,
           EmailFree(e, e), user' = [user EXCEPT ![e] = [email |-> e, password |-> w]],
           here' = [here EXCEPT ![e] = w], changed' \in [Subjects -> Maybe(Passwords)],
           NEW h \in Handlers, NEW c, Turns(h, c), c = Away \/ c = session[h], c.at = "idle",
           left' \in 0..MaxRequests,
           UNCHANGED <<mode, account, rowOf, there>>
    PROVE  AcctInv'
<1> DEFINE row == [email |-> e, password |-> w]
<1>1. row \in Users /\ e \in Ids /\ e \notin Subjects /\ w # None
  BY AccountsAssumption DEF Users, Ids, Maybe
<1>2. /\ Rows(user)' /\ \A j \in Ids : user'[j] # None => EmailFree(user[j].email, j)'
      /\ Accts(account)'
      /\ \A j \in Ids : user[j] # None => user'[j] # None
      /\ \A j \in Ids \ {e} : user'[j] = user[j]
      /\ user'[e] = row
  <2> HIDE DEF row
  <2>1. row.email = e /\ row.password = w
    BY DEF row
  <2>2. user' = [user EXCEPT ![e] = row]
    BY DEF row
  <2> QED BY <1>1, <2>1, <2>2, RowWritten
<1>3. session' \in [Handlers -> Sessions] /\ SessionsOK'
  <2>1. SessionOK(c, user', account') /\ c.at # "setPassword"
    BY AwayOK, OthersStay, <1>2
  <2> QED BY <2>1, <1>2, OthersStay, OneSession
<1>4. here' \in [Emails -> Maybe(Passwords)] /\ here'[e] = w
      /\ \A d \in Emails \ {e} : here'[d] = here[d]
  BY DEF AcctInv, ConfirmedHere, Maybe
<1>5. ConfirmedHere'
  <2>1. ASSUME NEW d \in Emails, here'[d] # None
        PROVE  user'[d] # None /\ user'[d].password = here'[d]
    <3>1. CASE d = e
      BY <3>1, <1>1, <1>2, <1>4, AccountsAssumption
    <3>2. CASE d # e
      BY <3>2, <2>1, <1>2, <1>4 DEF AcctInv, ConfirmedHere, Ids
    <3> QED BY <3>1, <3>2
  <2> QED BY <2>1, <1>4 DEF ConfirmedHere
<1>6. Links' /\ ConfirmedThere' /\ mode' \in Modes
  BY DEF AcctInv, Links, ConfirmedThere
<1> QED BY <1>2, <1>3, <1>5, <1>6 DEF AcctInv

(* The answer to a sign-in confirms a password that the account has. *)
LEMMA AnswerOK ==
    ASSUME AcctInv, NEW h \in Handlers,
           session[h].at \in {"bySubject", "update", "byEmail", "insert"},
           NEW i \in Ids, Answer(h, i),
           \A j \in Ids : user[j] # None => user'[j] # None,
           \A e \in Emails : user[e] # None => user'[e] = user[e],
           UNCHANGED <<account, here, changed>>
    PROVE  /\ session' \in [Handlers -> Sessions] /\ SessionsOK'
           /\ Links' /\ ConfirmedHere' /\ ConfirmedThere'
<1> DEFINE c == session[h]
<1>1. SessionOK(c, user, account) /\ c \in Sessions
  BY DEF AcctInv, SessionsOK
<1>2. c.e \in Emails /\ c.s \in Subjects /\ c.w \in Maybe(Passwords)
  BY <1>1 DEF SessionOK, Claimed, Sessions
<1>3. account[c.s] # None /\ (c.w # None => account[c.s].password = c.w)
  <2>1. account[c.s] # None /\ account[c.s].email = c.e
    BY <1>1 DEF SessionOK
  <2>2. PICK t \in Subjects : /\ account[t] # None /\ account[t].email = c.e
                              /\ c.w # None => account[t].password = c.w
    BY <1>1 DEF SessionOK
  <2>3. \A x, y \in Subjects :
          account[x] # None /\ account[y] # None /\ account[x].email = account[y].email => x = y
    BY DEF AcctInv, Accts
  <2> HIDE DEF c
  <2>4. t = c.s
    BY <1>2, <2>1, <2>2, <2>3
  <2> QED BY <2>1, <2>2, <2>4
<1>4. session' \in [Handlers -> Sessions] /\ SessionsOK'
  BY AwayOK, OthersStay, OneSession DEF Answer
<1>5. Links'
  BY <1>2 DEF AcctInv, Links, Answer, Maybe
<1>6. ConfirmedHere'
  BY DEF AcctInv, ConfirmedHere
<1>7. there' \in [Subjects -> Maybe(Passwords)]
  BY <1>2 DEF AcctInv, ConfirmedThere, Answer
<1>8. \A s \in Subjects :
        there'[s] = there[s] \/ (s = c.s /\ there'[s] = c.w /\ c.w # None)
  BY <1>2 DEF AcctInv, ConfirmedThere, Answer
<1> HIDE DEF c
<1>9. ConfirmedThere'
  BY <1>3, <1>7, <1>8 DEF AcctInv, ConfirmedThere
<1> QED BY <1>4, <1>5, <1>6, <1>9

(* An account that is written keeps the invariant if its address is still the
   only one and nobody was told another password. *)
LEMMA AccountWritten ==
    ASSUME AcctInv, NEW s \in Subjects, NEW row \in Users,
           \A t \in Subjects \ {s} : account[t] # None => account[t].email # row.email,
           account' = [account EXCEPT ![s] = row],
           account[s] = None \/ account[s].password \in {None, row.password},
           UNCHANGED <<user, rowOf, here, there, changed>>
    PROVE  /\ Rows(user)' /\ \A j \in Ids : user'[j] # None => EmailFree(user[j].email, j)'
           /\ Accts(account)' /\ Links' /\ ConfirmedHere' /\ ConfirmedThere'
           /\ account'[s] = row /\ \A t \in Subjects \ {s} : account'[t] = account[t]
<1>1. account \in [Subjects -> Maybe(Users)] /\ row # None
  BY AccountsAssumption DEF AcctInv, Accts
<1>2. account'[s] = row /\ \A t \in Subjects \ {s} : account'[t] = account[t]
  BY <1>1
<1>3. Accts(account)'
  <2>1. account' \in [Subjects -> Maybe(Users)]
    BY <1>1 DEF Maybe
  <2> QED BY <2>1, <1>2 DEF AcctInv, Accts
<1>4. Links' /\ ConfirmedHere'
  BY DEF AcctInv, Links, ConfirmedHere
<1>5. ConfirmedThere'
  BY <1>1, <1>2 DEF AcctInv, ConfirmedThere
<1>6. Rows(user)' /\ \A j \in Ids : user'[j] # None => EmailFree(user[j].email, j)'
  BY DEF AcctInv, EmailFree
<1> QED BY <1>2, <1>3, <1>4, <1>5, <1>6

(* A session whose account is not touched is as good as before. *)
LEMMA SessionKeepsAccount ==
    ASSUME AcctInv, NEW g \in Handlers, NEW ac,
           \A t \in Subjects : account[t] # None /\ account[t].email = session[g].e =>
             /\ ac[t] # None /\ ac[t].email = account[t].email
             /\ account[t].password # None => ac[t].password = account[t].password
             /\ SignsIn(g, "setPassword") => ac[t].password = account[t].password
    PROVE  SessionOK(session[g], user, ac)
<1> DEFINE c == session[g]
<1>1. SessionOK(c, user, account)
  BY DEF AcctInv, SessionsOK
<1>2. c.at = "setPassword" => ac[c.s] # None /\ ac[c.s].email = c.e /\ ac[c.s].password = None
  BY <1>1 DEF SessionOK, Claimed, SignsIn
<1>3. c.at \in {"bySubject", "update", "byEmail", "insert"} =>
        ac[c.s] # None /\ ac[c.s].email = c.e
  BY <1>1 DEF SessionOK, Claimed
<1>4. c.at \in {"lookup", "bySubject", "update", "byEmail", "insert"} =>
        \E s \in Subjects :
           /\ ac[s] # None /\ ac[s].email = c.e /\ ac[s].password # None
           /\ c.w # None => ac[s].password = c.w
  BY <1>1 DEF SessionOK
<1> QED BY <1>1, <1>2, <1>3, <1>4 DEF SessionOK

-----------------------------------------------------------------------------

(* A new row of this program's own *)
LEMMA RegisterLocallyInv ==
    ASSUME AcctInv, NEW h \in Handlers, NEW e \in Emails, NEW w \in Passwords,
           RegisterLocally(h, e, w)
    PROVE  AcctInv'
<1>1. Turns(h, session[h])
  BY DEF RegisterLocally, Turns, AcctInv
<1>2. changed' \in [Subjects -> Maybe(Passwords)]
  BY DEF RegisterLocally, AcctInv, Links
<1> QED BY <1>1, <1>2, LeftOK, LocalWritten DEF RegisterLocally, SignsIn

(* The first half of a password change *)
LEMMA ChangeReadInv ==
    ASSUME AcctInv, NEW h \in Handlers, NEW i \in Ids, NEW w \in Passwords, ChangeRead(h, i, w)
    PROVE  AcctInv'
<1> DEFINE c == [Away EXCEPT !.at = "change", !.s = i, !.w = w, !.old = user[i]]
<1>1. i \in Emails /\ user[i] \in Users /\ user[i].email = i
  BY DEF AcctInv, Rows, ChangeRead, Ids, Maybe
<1>2. /\ c \in Sessions /\ c.at = "change" /\ c.e = None
      /\ c.s = i /\ c.w = w /\ c.old = user[i]
  BY <1>1 DEF Away, Sessions, Stages, Maybe, Ids
<1> HIDE DEF c
<1>3. SessionOK(c, user, account)
  BY <1>1, <1>2 DEF SessionOK, Claimed, ChangeRead
<1>4. Turns(h, c)
  BY DEF c, ChangeRead
<1> QED BY <1>2, <1>3, <1>4, LeftOK, QuietStep DEF ChangeRead

(* The second half: the row as it was read, with another password *)
LEMMA ChangeSaveInv ==
    ASSUME AcctInv, NEW h \in Handlers, ChangeSave(h)
    PROVE  AcctInv'
<1> DEFINE c == session[h]
<1>1. SessionOK(c, user, account) /\ c.at = "change"
  BY DEF AcctInv, SessionsOK, ChangeSave, SignsIn
<1>2. c.s \in Emails /\ c.w \in Passwords /\ c.old \in Users /\ c.old.email = c.s
      /\ user[c.s] # None
  BY <1>1 DEF SessionOK, Claimed
<1>3. EmailFree(c.s, c.s)
  BY <1>2 DEF AcctInv, Rows, Ids
<1>4. [c.old EXCEPT !.password = c.w] = [email |-> c.s, password |-> c.w]
  BY <1>2 DEF Users
<1>5. left' \in 0..MaxRequests
  BY DEF AcctInv, ChangeSave
<1>6. changed' \in [Subjects -> Maybe(Passwords)]
  BY <1>2 DEF AcctInv, Links, ChangeSave, Maybe
<1>7. /\ user' = [user EXCEPT ![c.s] = [email |-> c.s, password |-> c.w]]
      /\ here' = [here EXCEPT ![c.s] = c.w]
      /\ Turns(h, Away) /\ UNCHANGED <<mode, account, rowOf, there>>
  BY <1>2, <1>4 DEF ChangeSave
<1> HIDE DEF c
<1> QED BY <1>2, <1>3, <1>5, <1>6, <1>7, AwayOK, LocalWritten

(* A registration at the provider begins *)
LEMMA RegisterInv ==
    ASSUME AcctInv, NEW h \in Handlers, NEW e \in Emails, NEW w \in Passwords, Register(h, e, w)
    PROVE  AcctInv'
<1> DEFINE c == [Away EXCEPT !.at = "create", !.e = e, !.w = w]
<1>1. c \in Sessions /\ c.at = "create" /\ c.e = e /\ c.w = w
  BY DEF Away, Sessions, Stages, Maybe
<1> HIDE DEF c
<1>2. SessionOK(c, user, account)
  BY <1>1 DEF SessionOK, Claimed, Register
<1>3. Turns(h, c)
  BY DEF c, Register
<1> QED BY <1>1, <1>2, <1>3, LeftOK, QuietStep DEF Register

(* The provider makes the account, without a password yet *)
LEMMA CreateAccountInv ==
    ASSUME AcctInv, NEW h \in Handlers, CreateAccount(h)
    PROVE  AcctInv'
<1> DEFINE e == session[h].e
<1>1. PICK s \in Subjects :
        /\ account[s] = None
        /\ account' = [account EXCEPT ![s] = [email |-> e, password |-> None]]
        /\ Turns(h, [session[h] EXCEPT !.at = "setPassword", !.s = s])
  BY DEF CreateAccount
<1> DEFINE row == [email |-> e, password |-> None]
           c == [session[h] EXCEPT !.at = "setPassword", !.s = s]
<1>2. SessionOK(session[h], user, account) /\ session[h].at = "create"
  BY DEF AcctInv, SessionsOK, CreateAccount, SignsIn
<1>3. e \in Emails /\ e # None /\ session[h].w \in Passwords
  BY <1>2, AccountsAssumption DEF SessionOK, Claimed, Ids
<1>4. row \in Users /\ row.email = e /\ row.password = None
  BY <1>3 DEF Users, Maybe
<1>5. c \in Sessions /\ c.at = "setPassword" /\ c.s = s /\ c.e = e /\ c.w = session[h].w
  BY <1>2 DEF SessionOK, Sessions, Stages, Maybe, Ids
<1>6. \A t \in Subjects : account[t] # None => account[t].email # e
  BY DEF CreateAccount, AccountAt
<1>7. account' = [account EXCEPT ![s] = row] /\ Turns(h, c)
  BY <1>1
<1> HIDE DEF row, c, e
<1>8. UNCHANGED <<mode, user, rowOf, here, there, changed, left>>
  BY DEF CreateAccount
<1>9. /\ Rows(user)' /\ \A j \in Ids : user'[j] # None => EmailFree(user[j].email, j)'
      /\ Accts(account)' /\ Links' /\ ConfirmedHere' /\ ConfirmedThere'
      /\ account'[s] = row /\ \A t \in Subjects \ {s} : account'[t] = account[t]
  BY <1>1, <1>4, <1>6, <1>7, <1>8, AccountWritten
<1>10. \A t \in Subjects : account[t] # None => account'[t] = account[t]
  BY <1>1, <1>9
<1>11. session' \in [Handlers -> Sessions] /\ SessionsOK'
  <2>1. SessionOK(c, user', account')
    BY <1>3, <1>4, <1>5, <1>8, <1>9, AccountsAssumption DEF SessionOK, Claimed, Ids
  <2>2. ASSUME NEW g \in Handlers PROVE SessionOK(session[g], user', account')
    <3>1. SessionOK(session[g], user, account')
      BY <1>10, SessionKeepsAccount
    <3> QED BY <3>1, <1>8
  <2>3. \A g \in Handlers : SignsIn(g, "setPassword") => session[g].s # s
    BY <1>1 DEF AcctInv, SessionsOK, SessionOK, SignsIn
  <2> QED BY <2>1, <2>2, <2>3, <1>5, <1>7, OneSession
<1> QED BY <1>8, <1>9, <1>11 DEF AcctInv

(* The provider sets the password of an account that had none *)
LEMMA SetPasswordInv ==
    ASSUME AcctInv, NEW h \in Handlers, SetPassword(h)
    PROVE  AcctInv'
<1> DEFINE s == session[h].s
           w == session[h].w
           row == [account[s] EXCEPT !.password = w]
           c == [session[h] EXCEPT !.at = "lookup"]
<1>1. SessionOK(session[h], user, account) /\ session[h].at = "setPassword"
  BY DEF AcctInv, SessionsOK, SetPassword, SignsIn
<1>2. /\ s \in Subjects /\ w \in Passwords /\ w # None /\ session[h].e \in Emails
      /\ session[h].e # None
      /\ account[s] # None /\ account[s].email = session[h].e /\ account[s].password = None
  BY <1>1, AccountsAssumption DEF SessionOK, Claimed, Ids
<1>3. account[s] \in Users
  BY <1>2 DEF AcctInv, Accts, Maybe
<1>4. row \in Users /\ row.email = account[s].email /\ row.password = w /\ row # None
  BY <1>2, <1>3, AccountsAssumption DEF Users, Maybe
<1>5. c \in Sessions /\ c.at = "lookup" /\ c.e = session[h].e /\ c.w = w
  BY <1>1 DEF SessionOK, Sessions, Stages
<1>6. account' = [account EXCEPT ![s] = row] /\ Turns(h, c)
  BY DEF SetPassword
<1>7. UNCHANGED <<mode, user, rowOf, here, there, changed, left>>
  BY DEF SetPassword
<1>8. \A g \in Handlers \ {h} : SignsIn(g, "setPassword") => session[g].s # s
  BY <1>1 DEF AcctInv, SessionsOK, SignsIn
<1> HIDE DEF row, c, w, s
<1>9. \A t \in Subjects \ {s} : account[t] # None =>
        account[t].email # row.email
  BY <1>2, <1>4, <1>7 DEF AcctInv, Accts
<1>10. /\ Rows(user)' /\ \A j \in Ids : user'[j] # None => EmailFree(user[j].email, j)'
      /\ Accts(account)' /\ Links' /\ ConfirmedHere' /\ ConfirmedThere'
      /\ account'[s] = row /\ \A t \in Subjects \ {s} : account'[t] = account[t]
  BY <1>2, <1>4, <1>6, <1>7, <1>9, AccountWritten
<1>11. session' \in [Handlers -> Sessions] /\ SessionsOK'
  <2>1. SessionOK(c, user', account')
    BY <1>2, <1>4, <1>5, <1>7, <1>10 DEF SessionOK, Claimed
  <2>2. ASSUME NEW g \in Handlers \ {h} PROVE SessionOK(session[g], user', account')
    <3>1. SignsIn(g, "setPassword") => session[g].e # account[s].email
      <4> SUFFICES ASSUME SignsIn(g, "setPassword") PROVE session[g].e # account[s].email
        OBVIOUS
      <4>1. SessionOK(session[g], user, account)
        BY DEF AcctInv, SessionsOK
      <4>2. /\ session[g].s \in Subjects /\ account[session[g].s] # None
            /\ account[session[g].s].email = session[g].e
        BY <4>1 DEF SessionOK, Claimed, SignsIn
      <4> QED BY <4>2, <1>2, <1>8 DEF AcctInv, Accts
    <3>2. \A t \in Subjects : account[t] # None /\ account[t].email = session[g].e =>
             /\ account'[t] # None /\ account'[t].email = account[t].email
             /\ account[t].password # None => account'[t].password = account[t].password
             /\ SignsIn(g, "setPassword") => account'[t].password = account[t].password
      BY <3>1, <1>2, <1>4, <1>10
    <3>3. SessionOK(session[g], user, account')
      BY <3>2, SessionKeepsAccount
    <3> QED BY <3>3, <1>7
  <2> QED BY <2>1, <2>2, <1>5, <1>6, OneSession
<1> QED BY <1>7, <1>10, <1>11 DEF AcctInv

(* The provider accepts the password: an account has it *)
LEMMA LoginInv ==
    ASSUME AcctInv, NEW h \in Handlers, NEW e \in Emails, NEW w \in Passwords, Login(h, e, w)
    PROVE  AcctInv'
<1> DEFINE c == [Away EXCEPT !.at = "lookup", !.e = e]
<1>1. c \in Sessions /\ c.at = "lookup" /\ c.e = e /\ c.w = None
  BY DEF Away, Sessions, Stages, Maybe
<1>2. PICK s \in Subjects : account[s] # None /\ account[s].email = e /\ account[s].password = w
  BY DEF Login, PasswordAccepted, AccountAt
<1>3. w # None
  BY AccountsAssumption
<1> HIDE DEF c
<1>4. SessionOK(c, user, account)
  BY <1>1, <1>2, <1>3 DEF SessionOK, Claimed
<1>5. Turns(h, c)
  BY DEF c, Login
<1> QED BY <1>1, <1>4, <1>5, LeftOK, QuietStep DEF Login

(* A session goes on with the claims it has, to a stage that asks for no more *)
LEMMA GoesOn ==
    ASSUME AcctInv, NEW h \in Handlers, NEW c, Turns(h, c), SessionOK(c, user, account),
           c.at # "setPassword", UNCHANGED <<mode, user, account, rowOf, here, there, changed, left>>
    PROVE  AcctInv'
<1>1. left' \in 0..MaxRequests
  BY DEF AcctInv
<1> QED BY <1>1, QuietStep

(* The claims are those of an account with the e-mail address *)
LEMMA LookupInv ==
    ASSUME AcctInv, NEW h \in Handlers, LookupUserByEmail(h)
    PROVE  AcctInv'
<1>1. PICK s \in AccountAt(session[h].e) :
        Turns(h, [session[h] EXCEPT !.at = "bySubject", !.s = s])
  BY DEF LookupUserByEmail
<1> DEFINE c == [session[h] EXCEPT !.at = "bySubject", !.s = s]
<1>2. SessionOK(session[h], user, account) /\ session[h].at = "lookup"
  BY DEF AcctInv, SessionsOK, LookupUserByEmail, SignsIn
<1>3. s \in Subjects /\ account[s] # None /\ account[s].email = session[h].e
  BY <1>1 DEF AccountAt
<1>4. /\ c \in Sessions /\ c.at = "bySubject" /\ c.s = s
      /\ c.e = session[h].e /\ c.w = session[h].w
  BY <1>2, <1>3 DEF SessionOK, Sessions, Stages, Maybe, Ids
<1>5. Turns(h, c)
  BY <1>1
<1> HIDE DEF c
<1>6. SessionOK(c, user, account)
  BY <1>2, <1>3, <1>4 DEF SessionOK, Claimed
<1> QED BY <1>4, <1>5, <1>6, GoesOn DEF LookupUserByEmail

(* The steps of UpsertUserFromOIDC that only turn to the next lookup *)
LEMMA UpsertTurns ==
    ASSUME AcctInv, NEW h \in Handlers, UpsertMissing(h) \/ UpsertUnknown(h)
    PROVE  AcctInv'
<1>1. ASSUME NEW x \in {"byEmail", "insert"}, session[h].at \in {"bySubject", "byEmail"},
             Turns(h, [session[h] EXCEPT !.at = x]),
             UNCHANGED <<mode, user, account, rowOf, here, there, changed, left>>
      PROVE  AcctInv'
  <2> DEFINE c == [session[h] EXCEPT !.at = x]
  <2>1. SessionOK(session[h], user, account)
    BY DEF AcctInv, SessionsOK
  <2>2. /\ c \in Sessions /\ c.at = x /\ c.s = session[h].s
        /\ c.e = session[h].e /\ c.w = session[h].w
    BY <2>1 DEF SessionOK, Sessions, Stages
  <2>3. Turns(h, c)
    BY <1>1
  <2> HIDE DEF c
  <2>4. SessionOK(c, user, account)
    BY <1>1, <2>1, <2>2 DEF SessionOK, Claimed
  <2> QED BY <1>1, <2>2, <2>3, <2>4, GoesOn
<1> QED BY <1>1 DEF UpsertMissing, UpsertUnknown, SignsIn

(* The row of the subject is there *)
LEMMA UpsertFoundInv ==
    ASSUME AcctInv, NEW h \in Handlers, UpsertFound(h)
    PROVE  AcctInv'
<1> DEFINE c == session[h]
<1>1. SessionOK(c, user, account) /\ c.at = "bySubject"
  BY DEF AcctInv, SessionsOK, UpsertFound, SignsIn
<1>2. c.s \in Subjects /\ c.s \in Ids /\ user[c.s] # None
  BY <1>1 DEF SessionOK, Claimed, UpsertFound, Ids
<1>3. UNCHANGED <<mode, user, account, here, changed, left>>
  BY DEF UpsertFound
<1>4. CASE user[c.s].email = c.e
  <2>1. Answer(h, c.s)
    BY <1>4 DEF UpsertFound
  <2>2. /\ session' \in [Handlers -> Sessions] /\ SessionsOK'
        /\ Links' /\ ConfirmedHere' /\ ConfirmedThere'
    BY <1>1, <1>2, <1>3, <2>1, AnswerOK
  <2> QED BY <1>3, <2>2 DEF AcctInv, EmailFree
<1>5. CASE user[c.s].email # c.e
  <2> DEFINE d == [c EXCEPT !.at = "update", !.old = user[c.s]]
  <2>1. user[c.s] \in Users /\ user[c.s].password = None
    BY <1>2 DEF AcctInv, Rows, Maybe
  <2>2. /\ d \in Sessions /\ d.at = "update" /\ d.s = c.s /\ d.old = user[c.s]
        /\ d.e = c.e /\ d.w = c.w
    BY <1>1, <2>1 DEF SessionOK, Sessions, Stages, Maybe
  <2>3. Turns(h, d) /\ UNCHANGED <<rowOf, there>>
    BY <1>5 DEF UpsertFound
  <2> HIDE DEF d
  <2>4. SessionOK(d, user, account)
    BY <1>1, <2>1, <2>2 DEF SessionOK, Claimed
  <2> QED BY <1>3, <2>2, <2>3, <2>4, GoesOn
<1> QED BY <1>4, <1>5

(* A subject's row is written, and the sign-in answered *)
LEMMA SubjectWritten ==
    ASSUME AcctInv, NEW h \in Handlers, session[h].at \in {"update", "insert"},
           EmailFree(session[h].e, session[h].s),
           user' = [user EXCEPT ![session[h].s] = [email |-> session[h].e, password |-> None]],
           Answer(h, session[h].s), UNCHANGED <<mode, account, here, changed, left>>
    PROVE  AcctInv'
<1> DEFINE c == session[h]
           row == [email |-> c.e, password |-> None]
<1>1. SessionOK(c, user, account)
  BY DEF AcctInv, SessionsOK
<1>2. /\ c.s \in Subjects /\ c.s \in Ids /\ session[h].s \in Ids /\ c.s \notin Emails /\ c.e \in Emails
      /\ account[c.s] # None /\ account[c.s].email = c.e
  BY <1>1, AccountsAssumption DEF SessionOK, Claimed, Ids
<1>3. row \in Users /\ row.email = c.e /\ row.password = None
  BY <1>2 DEF Users, Maybe
<1>4. user' = [user EXCEPT ![c.s] = row] /\ EmailFree(row.email, c.s)
  BY DEF EmailFree
<1> HIDE DEF c, row
<1>5. /\ Rows(user)' /\ \A j \in Ids : user'[j] # None => EmailFree(user[j].email, j)'
      /\ Accts(account)'
      /\ \A j \in Ids : user[j] # None => user'[j] # None
      /\ \A j \in Ids \ {c.s} : user'[j] = user[j]
  <2>1. /\ c.s \in Emails => row.email = c.s /\ row.password # None
        /\ c.s \notin Emails => row.password = None
    BY <1>2, <1>3
  <2>2. c.s \in Ids /\ UNCHANGED account
    BY <1>2
  <2> QED BY <2>1, <2>2, <1>3, <1>4, RowWritten
<1>6. \A e \in Emails : user[e] # None => user'[e] = user[e]
  BY <1>2, <1>5 DEF Ids
<1>7. /\ session' \in [Handlers -> Sessions] /\ SessionsOK'
      /\ Links' /\ ConfirmedHere' /\ ConfirmedThere'
  BY <1>2, <1>5, <1>6, AnswerOK
<1> QED BY <1>5, <1>7 DEF AcctInv

(* The row takes over the address, as it was read otherwise *)
LEMMA UpsertUpdateInv ==
    ASSUME AcctInv, NEW h \in Handlers, UpsertUpdate(h)
    PROVE  AcctInv'
<1> DEFINE c == session[h]
<1>1. SessionOK(c, user, account) /\ c.at = "update"
  BY DEF AcctInv, SessionsOK, UpsertUpdate, SignsIn
<1>2. [c.old EXCEPT !.email = c.e] = [email |-> c.e, password |-> None]
  BY <1>1 DEF SessionOK, Claimed, Users
<1> QED BY <1>1, <1>2, SubjectWritten DEF UpsertUpdate

(* A new row with the subject for an id *)
LEMMA UpsertCreateInv ==
    ASSUME AcctInv, NEW h \in Handlers, UpsertCreate(h)
    PROVE  AcctInv'
BY SubjectWritten DEF UpsertCreate, SignsIn

(* The row with the account's address answers the sign-in *)
LEMMA UpsertLegacyInv ==
    ASSUME AcctInv, NEW h \in Handlers, UpsertLegacy(h)
    PROVE  AcctInv'
<1> DEFINE c == session[h]
<1>1. SessionOK(c, user, account) /\ c.at = "byEmail"
  BY DEF AcctInv, SessionsOK, UpsertLegacy, SignsIn
<1>2. PICK i \in RowAt(c.e) : Answer(h, i)
  BY DEF UpsertLegacy
<1>3. i \in Ids
  BY <1>2 DEF RowAt
<1>4. UNCHANGED <<mode, user, account, here, changed, left>>
  BY DEF UpsertLegacy
<1>5. /\ session' \in [Handlers -> Sessions] /\ SessionsOK'
      /\ Links' /\ ConfirmedHere' /\ ConfirmedThere'
  BY <1>1, <1>2, <1>3, <1>4, AnswerOK
<1> QED BY <1>4, <1>5 DEF AcctInv, EmailFree

(* A request that fails leaves what it has done *)
LEMMA GiveUpInv ==
    ASSUME AcctInv, NEW h \in Handlers, GiveUp(h)
    PROVE  AcctInv'
BY AwayOK, GoesOn DEF GiveUp

(* Nobody has a request any more *)
LEMMA RestartInv ==
    ASSUME AcctInv, NEW m \in Modes, RestartIn(m)
    PROVE  AcctInv'
<1>1. session' \in [Handlers -> Sessions] /\ SessionsOK'
  BY AwayOK DEF RestartIn, SessionsOK, SignsIn
<1>2. left' \in 0..MaxRequests /\ mode' \in Modes
  BY LeftOK DEF RestartIn
<1>3. UNCHANGED <<user, account, rowOf, here, there, changed>>
  BY DEF RestartIn
<1>4. \A i \in Ids : user'[i] # None => EmailFree(user[i].email, i)'
  BY <1>3 DEF AcctInv, EmailFree
<1> QED BY <1>1, <1>2, <1>3, <1>4 DEF AcctInv, Links, ConfirmedHere, ConfirmedThere

(* The provider makes an account for an address that has none *)
LEMMA EnrollInv ==
    ASSUME AcctInv, NEW s \in Subjects, NEW e \in Emails, NEW w \in Passwords, Enroll(s, e, w)
    PROVE  AcctInv'
<1> DEFINE row == [email |-> e, password |-> w]
<1>1. row \in Users /\ row.email = e
  BY DEF Users, Maybe
<1>2. \A t \in Subjects : account[t] # None => account[t].email # e
  BY DEF Enroll, AccountAt
<1>3. /\ account[s] = None /\ account' = [account EXCEPT ![s] = row]
      /\ UNCHANGED <<mode, user, session, rowOf, here, there, changed>>
  BY DEF Enroll
<1> HIDE DEF row
<1>4. /\ Rows(user)' /\ \A j \in Ids : user'[j] # None => EmailFree(user[j].email, j)'
      /\ Accts(account)' /\ Links' /\ ConfirmedHere' /\ ConfirmedThere'
      /\ account'[s] = row /\ \A t \in Subjects \ {s} : account'[t] = account[t]
  BY <1>1, <1>2, <1>3, AccountWritten
<1>5. \A t \in Subjects : account[t] # None => account'[t] = account[t]
  BY <1>3, <1>4
<1>6. ASSUME NEW g \in Handlers PROVE SessionOK(session[g], user, account')
  BY <1>5, SessionKeepsAccount
<1>7. SessionsOK'
  BY <1>3, <1>6 DEF AcctInv, SessionsOK, SignsIn
<1>8. left' \in 0..MaxRequests
  BY LeftOK DEF Enroll
<1> QED BY <1>3, <1>4, <1>7, <1>8 DEF AcctInv

(* An account takes another address *)
LEMMA ChangeEmailInv ==
    ASSUME AcctInv, NEW s \in Subjects, NEW e \in Emails, ChangeEmail(s, e)
    PROVE  AcctInv'
<1> DEFINE row == [account[s] EXCEPT !.email = e]
<1>1. account[s] \in Users /\ account[s] # None
  BY DEF AcctInv, Accts, ChangeEmail, Maybe
<1>2. row \in Users /\ row.email = e /\ row.password = account[s].password
  BY <1>1 DEF Users
<1>3. \A t \in Subjects : account[t] # None => account[t].email # e
  BY DEF ChangeEmail, AccountAt
<1>4. /\ account' = [account EXCEPT ![s] = row]
      /\ \A g \in Handlers : session[g].e # account[s].email
      /\ UNCHANGED <<mode, user, session, rowOf, here, there, changed>>
  BY DEF ChangeEmail
<1> HIDE DEF row
<1>5. /\ Rows(user)' /\ \A j \in Ids : user'[j] # None => EmailFree(user[j].email, j)'
      /\ Accts(account)' /\ Links' /\ ConfirmedHere' /\ ConfirmedThere'
      /\ account'[s] = row /\ \A t \in Subjects \ {s} : account'[t] = account[t]
  BY <1>2, <1>3, <1>4, AccountWritten
<1>6. ASSUME NEW g \in Handlers PROVE SessionOK(session[g], user, account')
  <2>1. \A t \in Subjects : account[t] # None /\ account[t].email = session[g].e =>
          account'[t] = account[t]
    BY <1>4, <1>5
  <2> QED BY <2>1, SessionKeepsAccount
<1>7. SessionsOK'
  BY <1>4, <1>6 DEF AcctInv, SessionsOK, SignsIn
<1>8. left' \in 0..MaxRequests
  BY LeftOK DEF ChangeEmail
<1> QED BY <1>4, <1>5, <1>7, <1>8 DEF AcctInv

(* Every step keeps the invariant *)
LEMMA AcctStepInv == AcctInv /\ [AcctNext]_acctVars => AcctInv'
<1> SUFFICES ASSUME AcctInv, [AcctNext]_acctVars PROVE AcctInv'
  OBVIOUS
<1>1. ASSUME NEW h \in Handlers, UserRequest(h) PROVE AcctInv'
  BY <1>1, RegisterLocallyInv, RegisterInv, LoginInv, ChangeReadInv DEF UserRequest
<1>2. ASSUME NEW h \in Handlers,
             ChangeSave(h) \/ CreateAccount(h) \/ SetPassword(h) \/ LookupUserByEmail(h)
      PROVE  AcctInv'
  BY <1>2, ChangeSaveInv, CreateAccountInv, SetPasswordInv, LookupInv
<1>3. ASSUME NEW h \in Handlers, Upsert(h) PROVE AcctInv'
  BY <1>3, UpsertFoundInv, UpsertUpdateInv, UpsertTurns, UpsertLegacyInv, UpsertCreateInv
  DEF Upsert
<1>4. ASSUME NEW h \in Handlers, GiveUp(h) PROVE AcctInv'
  BY <1>4, GiveUpInv
<1>5. ASSUME ProviderNext PROVE AcctInv'
  BY <1>5, ChangeEmailInv, EnrollInv DEF ProviderNext
<1>6. ASSUME NEW m \in Modes, RestartIn(m) PROVE AcctInv'
  BY <1>6, RestartInv
<1>7. CASE UNCHANGED acctVars
  BY <1>7 DEF acctVars, AcctInv, EmailFree, SessionsOK, SignsIn, Links,
     ConfirmedHere, ConfirmedThere
<1> QED BY <1>1, <1>2, <1>3, <1>4, <1>5, <1>6, <1>7 DEF AcctNext

(* Accounts, rows and sessions fit together in every state. *)
LEMMA AcctInvAlways == AcctSpec => []AcctInv
<1>1. AcctInit => AcctInv
  BY AcctInitInv
<1>2. AcctInv /\ [AcctNext]_acctVars => AcctInv'
  BY AcctStepInv
<1> QED BY <1>1, <1>2, PTL DEF AcctSpec

(* The state of the accounts has its type; no two rows have one e-mail address;
   and the row of a provider account never has a password of its own *)
THEOREM AccountsTyped == AcctSpec => []AcctTypeOK
<1>1. AcctInv => AcctTypeOK
  BY AcctInvImplies
<1> QED BY <1>1, AcctInvAlways, PTL

(* Whoever was answered that a registration succeeded can sign in with that
   password where they registered, with this program (where a password changed
   later counts) or with the provider, for any number of requests that overlap,
   fail at any call and are cut off by restarts in either mode *)
THEOREM AnswersHold == AcctSpec => []AnsweredCanSignIn
<1>1. AcctInv => AnsweredCanSignIn
  BY AcctInvImplies
<1> QED BY <1>1, AcctInvAlways, PTL

-----------------------------------------------------------------------------

(* Only an answer moves a link, and only the link of the account that signs in,
   which has a password *)
LEMMA LinksMove ==
    ASSUME AcctInv, AcctNext, NEW s \in Subjects, rowOf'[s] # rowOf[s]
    PROVE  /\ account[s] # None /\ account[s].password # None
           /\ rowOf'[s] = s \/ (rowOf'[s] \in RowAt(account[s].email) /\ rowOf'[s] \in Ids)
<1>1. ASSUME NEW h \in Handlers, NEW i,
             session[h].at \in {"bySubject", "update", "byEmail", "insert"}, Answer(h, i)
      PROVE  /\ session[h].s = s /\ rowOf'[s] = i /\ account[s] # None
             /\ account[s].password # None /\ account[s].email = session[h].e
  <2>1. SessionOK(session[h], user, account)
    BY DEF AcctInv, SessionsOK
  <2>2. /\ session[h].s \in Subjects /\ account[session[h].s] # None
        /\ account[session[h].s].email = session[h].e
    BY <1>1, <2>1 DEF SessionOK, Claimed
  <2>3. session[h].s = s /\ rowOf'[s] = i
    BY <1>1 DEF AcctInv, Answer
  <2>4. PICK t \in Subjects :
          account[t] # None /\ account[t].email = session[h].e /\ account[t].password # None
    BY <1>1, <2>1 DEF SessionOK
  <2>5. t = s
    BY <2>2, <2>3, <2>4 DEF AcctInv, Accts
  <2> QED BY <2>2, <2>3, <2>4, <2>5
<1>2. PICK h \in Handlers : Upsert(h)
  BY DEF AcctNext, ProviderNext, UserRequest, RegisterLocally, ChangeRead, Register, Login,
         ChangeSave, CreateAccount, SetPassword, LookupUserByEmail, GiveUp, RestartIn, Enroll,
         ChangeEmail
<1>3. CASE UpsertFound(h) \/ UpsertUpdate(h) \/ UpsertCreate(h)
  <2>1. Answer(h, session[h].s) /\ session[h].at \in {"bySubject", "update", "insert"}
    BY <1>3 DEF UpsertFound, UpsertUpdate, UpsertCreate, SignsIn
  <2> QED BY <2>1, <1>1
<1>4. CASE UpsertLegacy(h)
  <2>1. PICK i \in RowAt(session[h].e) : Answer(h, i)
    BY <1>4 DEF UpsertLegacy
  <2>2. session[h].at = "byEmail"
    BY <1>4 DEF UpsertLegacy, SignsIn
  <2> QED BY <2>1, <2>2, <1>1 DEF RowAt
<1>5. CASE UpsertMissing(h) \/ UpsertUnknown(h)
  BY <1>5 DEF UpsertMissing, UpsertUnknown
<1> QED BY <1>2, <1>3, <1>4, <1>5 DEF Upsert

(* An account that signs in again gets the row that bears its subject, whatever
   became of its e-mail address, unless another row has that address *)
THEOREM LinkStable == AcctSpec => LinkIsStable
<1>1. AcctInv /\ [AcctNext]_acctVars =>
        [\A s \in Subjects : rowOf[s] = s /\ ~ Contested(s) => rowOf'[s] = s]_acctVars
  <2> SUFFICES ASSUME AcctInv, AcctNext, NEW s \in Subjects,
                      rowOf[s] = s, ~ Contested(s), rowOf'[s] # s
               PROVE  FALSE
    BY DEF acctVars
  <2>1. account[s] # None /\ rowOf'[s] \in RowAt(account[s].email)
    BY LinksMove
  <2> QED BY <2>1 DEF Contested
<1> QED BY <1>1, AcctInvAlways, PTL DEF AcctSpec, LinkIsStable

(* The password of an account that has none is set by the registration that made
   the account only *)
LEMMA HalfAccount ==
    ASSUME AcctInv, AcctNext, NEW s \in Subjects, account[s] # None, account[s].password = None,
           \A h \in Handlers : ~ (session[h].at = "setPassword" /\ session[h].s = s)
    PROVE  account'[s] # None /\ account'[s].password = None
<1>1. account[s] \in Users /\ account \in [Subjects -> Maybe(Users)]
  BY DEF AcctInv, Accts, Maybe
<1>2. CASE account' = account
  BY <1>2
<1>3. ASSUME NEW h \in Handlers, CreateAccount(h) PROVE account'[s] = account[s]
  BY <1>3 DEF CreateAccount
<1>4. ASSUME NEW h \in Handlers, SetPassword(h) PROVE account'[s] = account[s]
  <2>1. session[h].at = "setPassword" /\ session[h].s # s
    BY <1>4 DEF SetPassword, SignsIn
  <2> QED BY <1>1, <1>4, <2>1 DEF SetPassword
<1>5. ASSUME NEW t \in Subjects, NEW e \in Emails, NEW w \in Passwords, Enroll(t, e, w)
      PROVE  account'[s] = account[s]
  BY <1>1, <1>5 DEF Enroll
<1>6. ASSUME NEW t \in Subjects, NEW e \in Emails, ChangeEmail(t, e)
      PROVE  account'[s] # None /\ account'[s].password = None
  <2>1. CASE t = s
    <3>1. account'[s] = [account[s] EXCEPT !.email = e]
      BY <1>1, <1>6, <2>1 DEF ChangeEmail
    <3>2. account'[s] \in Users /\ account'[s].password = None
      BY <1>1, <3>1 DEF Users
    <3> QED BY <3>2, AccountsAssumption
  <2>2. CASE t # s
    BY <1>1, <1>6, <2>2 DEF ChangeEmail
  <2> QED BY <2>1, <2>2
<1>7. CASE \E h \in Handlers :
        UserRequest(h) \/ ChangeSave(h) \/ LookupUserByEmail(h) \/ Upsert(h) \/ GiveUp(h)
  <2>1. account' = account
    BY <1>7 DEF UserRequest, RegisterLocally, Register, Login, ChangeRead, ChangeSave,
         LookupUserByEmail, Upsert, UpsertFound, UpsertUpdate, UpsertMissing, UpsertLegacy,
         UpsertUnknown, UpsertCreate, GiveUp
  <2> QED BY <2>1
<1>8. CASE \E m \in Modes : RestartIn(m)
  BY <1>8 DEF RestartIn
<1> QED BY <1>3, <1>4, <1>5, <1>6, <1>7, <1>8 DEF AcctNext, ProviderNext

(* Only a registration that makes an account comes to set its password. *)
LEMMA NobodyReturns ==
    ASSUME AcctInv, AcctNext, NEW s \in Subjects, account[s] # None,
           \A h \in Handlers : ~ (session[h].at = "setPassword" /\ session[h].s = s),
           NEW h \in Handlers
    PROVE  ~ (session'[h].at = "setPassword" /\ session'[h].s = s)
<1>1. session \in [Handlers -> Sessions]
  BY DEF AcctInv
<1>2. CASE session'[h] = session[h]
  BY <1>2
<1>3. ASSUME NEW g \in Handlers, CreateAccount(g), g = h
      PROVE  session'[h].s # s
  <2>1. PICK t \in Subjects : account[t] = None /\
          Turns(h, [session[h] EXCEPT !.at = "setPassword", !.s = t])
    BY <1>3 DEF CreateAccount
  <2> QED BY <1>1, <2>1 DEF Turns, Sessions
<1>4. ASSUME NEW g \in Handlers, NEW c, Turns(g, c), c.at # "setPassword"
      PROVE  ~ (session'[h].at = "setPassword" /\ session'[h].s = s)
  BY <1>1, <1>4 DEF Turns
<1>5. Away.at = "idle"
  BY DEF Away
<1>6. ASSUME NEW g \in Handlers, CreateAccount(g), g # h PROVE session'[h] = session[h]
  BY <1>1, <1>6 DEF CreateAccount, Turns
<1>7. ASSUME NEW g \in Handlers, NEW x \in Stages \ {"setPassword"},
             Turns(g, [session[g] EXCEPT !.at = x])
      PROVE  ~ (session'[h].at = "setPassword" /\ session'[h].s = s)
  <2>1. [session[g] EXCEPT !.at = x].at = x
    BY <1>1 DEF Sessions
  <2> QED BY <1>4, <1>7, <2>1
<1>8. ASSUME NEW g \in Handlers, UserRequest(g)
      PROVE  ~ (session'[h].at = "setPassword" /\ session'[h].s = s)
  <2>1. CASE session' = session
    BY <2>1
  <2>2. ASSUME NEW e \in Emails, NEW w \in Passwords, Register(g, e, w)
        PROVE  ~ (session'[h].at = "setPassword" /\ session'[h].s = s)
    <3>1. [Away EXCEPT !.at = "create", !.e = e, !.w = w].at = "create"
      BY DEF Away
    <3> QED BY <2>2, <3>1, <1>4 DEF Register
  <2>3. ASSUME NEW e \in Emails, NEW w \in Passwords, Login(g, e, w)
        PROVE  ~ (session'[h].at = "setPassword" /\ session'[h].s = s)
    <3>1. [Away EXCEPT !.at = "lookup", !.e = e].at = "lookup"
      BY DEF Away
    <3> QED BY <2>3, <3>1, <1>4 DEF Login
  <2>4. ASSUME NEW i \in Ids, NEW w \in Passwords, ChangeRead(g, i, w)
        PROVE  ~ (session'[h].at = "setPassword" /\ session'[h].s = s)
    <3>1. [Away EXCEPT !.at = "change", !.s = i, !.w = w, !.old = user[i]].at = "change"
      BY DEF Away
    <3> QED BY <2>4, <3>1, <1>4 DEF ChangeRead
  <2> QED BY <1>8, <2>1, <2>2, <2>3, <2>4 DEF UserRequest, RegisterLocally
<1>9. ASSUME NEW g \in Handlers, ChangeSave(g) \/ GiveUp(g)
      PROVE  ~ (session'[h].at = "setPassword" /\ session'[h].s = s)
  BY <1>9, <1>4, <1>5 DEF ChangeSave, GiveUp
<1>10. ASSUME NEW g \in Handlers, SetPassword(g)
       PROVE  ~ (session'[h].at = "setPassword" /\ session'[h].s = s)
  BY <1>10, <1>7 DEF SetPassword, Stages
<1>11. ASSUME NEW g \in Handlers, LookupUserByEmail(g)
       PROVE  ~ (session'[h].at = "setPassword" /\ session'[h].s = s)
  <2>1. PICK t \in AccountAt(session[g].e) :
          Turns(g, [session[g] EXCEPT !.at = "bySubject", !.s = t])
    BY <1>11 DEF LookupUserByEmail
  <2>2. [session[g] EXCEPT !.at = "bySubject", !.s = t].at = "bySubject"
    BY <1>1 DEF Sessions
  <2> QED BY <2>1, <2>2, <1>4
<1>12. ASSUME NEW g \in Handlers, Upsert(g)
       PROVE  ~ (session'[h].at = "setPassword" /\ session'[h].s = s)
  <2>1. ASSUME NEW i, Answer(g, i)
        PROVE  ~ (session'[h].at = "setPassword" /\ session'[h].s = s)
    BY <2>1, <1>4, <1>5 DEF Answer
  <2>2. CASE UpsertFound(g) /\ user[session[g].s].email # session[g].e
    <3>1. [session[g] EXCEPT !.at = "update", !.old = user[session[g].s]].at = "update"
      BY <1>1 DEF Sessions
    <3> QED BY <2>2, <3>1, <1>4 DEF UpsertFound
  <2>3. CASE UpsertMissing(g) \/ UpsertUnknown(g)
    BY <2>3, <1>7 DEF UpsertMissing, UpsertUnknown, Stages
  <2>4. CASE UpsertUpdate(g) \/ UpsertCreate(g) \/ UpsertLegacy(g)
    BY <2>4, <2>1 DEF UpsertUpdate, UpsertCreate, UpsertLegacy
  <2>5. CASE UpsertFound(g) /\ user[session[g].s].email = session[g].e
    BY <2>5, <2>1 DEF UpsertFound
  <2> QED BY <1>12, <2>2, <2>3, <2>4, <2>5 DEF Upsert
<1>13. CASE ProviderNext
  BY <1>13 DEF ProviderNext, ChangeEmail, Enroll
<1>14. CASE \E m \in Modes : RestartIn(m)
  BY <1>14, <1>5 DEF RestartIn
<1> QED BY <1>3, <1>6, <1>8, <1>9, <1>10, <1>11, <1>12, <1>13, <1>14 DEF AcctNext

(* A registration that was cut off between its two calls to the provider leaves
   an account that nobody can use, whatever comes after *)
THEOREM HalfStays == AcctSpec => HalfRegistrationsStay
<1>1. AcctInv /\ [AcctNext]_acctVars =>
        [\A s \in Subjects :
           HalfRegistered(s) => HalfRegistered(s)' /\ rowOf'[s] = rowOf[s]]_acctVars
  <2> SUFFICES ASSUME AcctInv, AcctNext, NEW s \in Subjects, HalfRegistered(s)
               PROVE  HalfRegistered(s)' /\ rowOf'[s] = rowOf[s]
    BY DEF acctVars
  <2>1. account[s] # None /\ account[s].password = None
        /\ \A h \in Handlers : ~ (session[h].at = "setPassword" /\ session[h].s = s)
    BY DEF HalfRegistered, SignsIn
  <2>2. rowOf'[s] = rowOf[s]
    BY <2>1, LinksMove
  <2>3. account'[s] # None /\ account'[s].password = None
    BY <2>1, HalfAccount
  <2>4. \A h \in Handlers : ~ (session'[h].at = "setPassword" /\ session'[h].s = s)
    BY <2>1, NobodyReturns
  <2> QED BY <2>2, <2>3, <2>4 DEF HalfRegistered, SignsIn
<1> QED BY <1>1, AcctInvAlways, PTL DEF AcctSpec, HalfRegistrationsStay
=============================================================================

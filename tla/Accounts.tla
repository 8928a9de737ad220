------------------------------- MODULE Accounts -------------------------------
(***************************************************************************)
(* internal/user/service/user.go with pkg/authentik: users sign up and     *)
(* sign in by a password that this program keeps, in their row of the      *)
(* table users, or that an identity provider keeps, where every user has   *)
(* such a row as well.  The gRPC server always does the former.  REST does *)
(* it in mode "jwt" and goes to the provider in mode "oidc".  The mode is  *)
(* set when the process starts.                                            *)
(*                                                                         *)
(* A row's id is the subject of a provider account or, for a row made by   *)
(* this program, stands for the uuid that was made for its first e-mail    *)
(* address.  REST tokens carry the id of a row; signing in by a local      *)
(* password and refreshing a token change nothing and are left out.        *)
(*                                                                         *)
(* The provider is taken to keep the addresses of its accounts apart, and  *)
(* not to change that of one while somebody signs in or up with it; an     *)
(* address may be given up and taken over by another account.              *)
(***************************************************************************)
EXTENDS Requests

CONSTANTS Emails, Subjects, Passwords

Ids == Emails \cup Subjects

Users == [email : Emails, password : Maybe(Passwords)]

ASSUME AccountsAssumption ==
    /\ Emails \cap Subjects = {} /\ Passwords # {}
    /\ None \notin Ids \cup Passwords \cup Users

VARIABLES mode,     \* "jwt" or "oidc"
          user,     \* table users, by id
          account,  \* accounts at the provider, by subject
          session,  \* the request a handler works on
          rowOf,    \* the row that an account last signed in to
          here,     \* by e-mail: the password last confirmed for the local sign-in
          there,    \* by account: the password that its registration confirmed
          changed   \* by account: the password last confirmed by a change over
                    \* REST, made while that account signs in by the provider

acctVars == <<mode, user, account, session, rowOf, here, there, changed, left>>

Away == [at |-> "idle", e |-> None, w |-> None, s |-> None, old |-> None]

Modes == {"jwt", "oidc"}

(* Some users are there already, from a time when the mode was "jwt"; which of
   the passwords is theirs makes no difference *)
AcctInit ==
    /\ mode \in Modes
    /\ \E old \in SUBSET Emails, w \in {CHOOSE w \in Passwords : TRUE} :
         user = [i \in Ids |-> IF i \in old THEN [email |-> i, password |-> w] ELSE None]
    /\ account = [s \in Subjects |-> None]
    /\ session = [h \in Handlers |-> Away]
    /\ rowOf = [s \in Subjects |-> None]
    /\ here = [e \in Emails |-> None]
    /\ there = [s \in Subjects |-> None]
    /\ changed = [s \in Subjects |-> None]
    /\ left = MaxRequests

-----------------------------------------------------------------------------

SignsIn(h, step) == session[h].at = step

Turns(h, c) == session' = [session EXCEPT ![h] = c]

(* Unique index on users.email *)
EmailFree(e, i) == \A j \in Ids \ {i} : user[j] # None => user[j].email # e

AccountAt(e) == {s \in Subjects : account[s] # None /\ account[s].email = e}

RowAt(e) == {i \in Ids : user[i] # None /\ user[i].email = e}

(* Over gRPC, whose service has no client of the provider, and over REST in mode
   "jwt": the row is made with a hash of the password *)
RegisterLocally(h, e, w) ==
    /\ SignsIn(h, "idle")
    /\ NextRequest
    /\ user[e] = None
    /\ EmailFree(e, e)
    /\ user' = [user EXCEPT ![e] = [email |-> e, password |-> w]]
    /\ here' = [here EXCEPT ![e] = w]
    /\ UNCHANGED <<mode, account, session, rowOf, there, changed>>

(* ChangePassword reads the row, compares, and saves the whole row, in either
   mode.  A row without a password is refused, like one with another; so is
   every request over gRPC in mode "oidc", where the id is a subject. *)
ChangeRead(h, i, w) ==
    /\ SignsIn(h, "idle")
    /\ NextRequest
    /\ user[i] # None
    /\ user[i].password # None
    /\ Turns(h, [Away EXCEPT !.at = "change", !.s = i, !.w = w, !.old = user[i]])
    /\ UNCHANGED <<mode, user, account, rowOf, here, there, changed>>

ChangeSave(h) ==
    /\ SignsIn(h, "change")
    /\ LET c == session[h] IN
         /\ user' = [user EXCEPT ![c.s] = [c.old EXCEPT !.password = c.w]]
         /\ here' = [here EXCEPT ![c.old.email] = c.w]
         /\ changed' = [s \in Subjects |->
              IF rowOf[s] # c.s THEN changed[s] ELSE IF mode = "oidc" THEN c.w ELSE None]
    /\ Turns(h, Away)
    /\ UNCHANGED <<mode, account, rowOf, there, left>>

(* REST in mode "oidc": Register and Login begin at the provider *)
Register(h, e, w) ==
    /\ SignsIn(h, "idle") /\ mode = "oidc"
    /\ NextRequest
    /\ Turns(h, [Away EXCEPT !.at = "create", !.e = e, !.w = w])
    /\ UNCHANGED <<mode, user, account, rowOf, here, there, changed>>

(* [variant] an account that exists already counts as created *)
CreateOrAdopt(h) ==
    /\ SignsIn(h, "create")
    /\ LET e == session[h].e IN
       \E s \in IF AccountAt(e) = {} THEN {t \in Subjects : account[t] = None} ELSE AccountAt(e) :
         /\ account' = [account EXCEPT ![s] = [email |-> e, password |-> None]]
         /\ Turns(h, [session[h] EXCEPT !.at = "setPassword", !.s = s])
    /\ UNCHANGED <<mode, user, rowOf, here, there, changed, left>>

(* POST core/users: the e-mail address is also the user name, which is unique *)
CreateAccount(h) ==
    /\ SignsIn(h, "create")
    /\ LET e == session[h].e IN
       /\ AccountAt(e) = {}
       /\ \E s \in {t \in Subjects : account[t] = None} :
            /\ account' = [account EXCEPT ![s] = [email |-> e, password |-> None]]
            /\ Turns(h, [session[h] EXCEPT !.at = "setPassword", !.s = s])
    /\ UNCHANGED <<mode, user, rowOf, here, there, changed, left>>

(* [variant] set_password is not waited for *)
SetPasswordUnchecked(h) ==
    /\ SignsIn(h, "setPassword")
    /\ account' \in {account, [account EXCEPT ![session[h].s].password = session[h].w]}
    /\ Turns(h, [session[h] EXCEPT !.at = "lookup"])
    /\ UNCHANGED <<mode, user, rowOf, here, there, changed, left>>

(* POST set_password: a second call *)
SetPassword(h) ==
    /\ SignsIn(h, "setPassword")
    /\ account' = [account EXCEPT ![session[h].s].password = session[h].w]
    /\ Turns(h, [session[h] EXCEPT !.at = "lookup"])
    /\ UNCHANGED <<mode, user, rowOf, here, there, changed, left>>

(* PasswordLogin: the provider's flow asks for the e-mail, then for the password,
   and must end there *)
PasswordAccepted(e, w) == \E s \in AccountAt(e) : account[s].password = w

Login(h, e, w) ==
    /\ SignsIn(h, "idle") /\ mode = "oidc"
    /\ NextRequest
    /\ PasswordAccepted(e, w)
    /\ Turns(h, [Away EXCEPT !.at = "lookup", !.e = e])
    /\ UNCHANGED <<mode, user, account, rowOf, here, there, changed>>

(* LookupUserByEmail gives the claims: subject and e-mail.  From here on s and
   e are the claims. *)
LookupUserByEmail(h) ==
    /\ SignsIn(h, "lookup")
    /\ \E s \in AccountAt(session[h].e) :
         Turns(h, [session[h] EXCEPT !.at = "bySubject", !.s = s])
    /\ UNCHANGED <<mode, user, account, rowOf, here, there, changed, left>>

(* The answer: a session on row i.  One that a registration asked for also
   confirms its password. *)
Answer(h, i) ==
    LET c == session[h] IN
    /\ rowOf' = [rowOf EXCEPT ![c.s] = i]
    /\ there' = IF c.w = None THEN there ELSE [there EXCEPT ![c.s] = c.w]
    /\ Turns(h, Away)

(* UpsertUserFromOIDC: the row of the subject ... *)
UpsertFound(h) ==
    /\ SignsIn(h, "bySubject")
    /\ LET c == session[h] IN
       /\ user[c.s] # None
       /\ IF user[c.s].email = c.e THEN Answer(h, c.s)
          ELSE /\ Turns(h, [c EXCEPT !.at = "update", !.old = user[c.s]])
               /\ UNCHANGED <<rowOf, there>>
    /\ UNCHANGED <<mode, user, account, here, changed, left>>

(* [variant] an account whose e-mail has changed gets a new row *)
UpsertUpdateAsNew(h) ==
    /\ SignsIn(h, "update")
    /\ LET c == session[h] IN
       /\ user[c.e] = None
       /\ EmailFree(c.e, c.e)
       /\ user' = [user EXCEPT ![c.e] = [email |-> c.e, password |-> None]]
       /\ Answer(h, c.e)
    /\ UNCHANGED <<mode, account, here, changed, left>>

(* ... takes over an e-mail that has changed, ... *)
UpsertUpdate(h) ==
    /\ SignsIn(h, "update")
    /\ LET c == session[h] IN
       /\ EmailFree(c.e, c.s)
       /\ user' = [user EXCEPT ![c.s] = [c.old EXCEPT !.email = c.e]]
       /\ Answer(h, c.s)
    /\ UNCHANGED <<mode, account, here, changed, left>>

(* any error counts as a missing row *)
UpsertMissing(h) ==
    /\ SignsIn(h, "bySubject")
    /\ Turns(h, [session[h] EXCEPT !.at = "byEmail"])
    /\ UNCHANGED <<mode, user, account, rowOf, here, there, changed, left>>

(* ... or else the row with that e-mail, a local one as a rule, ... *)
UpsertLegacy(h) ==
    /\ SignsIn(h, "byEmail")
    /\ \E i \in RowAt(session[h].e) : Answer(h, i)
    /\ UNCHANGED <<mode, user, account, here, changed, left>>

UpsertUnknown(h) ==
    /\ SignsIn(h, "byEmail")
    /\ Turns(h, [session[h] EXCEPT !.at = "insert"])
    /\ UNCHANGED <<mode, user, account, rowOf, here, there, changed, left>>

(* [variant] a new row is made although one has the e-mail *)
UpsertCreateTwice(h) ==
    /\ SignsIn(h, "insert")
    /\ LET c == session[h] IN
       /\ user' = [user EXCEPT ![c.s] = [email |-> c.e, password |-> None]]
       /\ Answer(h, c.s)
    /\ UNCHANGED <<mode, account, here, changed, left>>

(* ... or a new one, with the subject for an id and no password *)
UpsertCreate(h) ==
    /\ SignsIn(h, "insert")
    /\ LET c == session[h] IN
       /\ user[c.s] = None
       /\ EmailFree(c.e, c.s)
       /\ user' = [user EXCEPT ![c.s] = [email |-> c.e, password |-> None]]
       /\ Answer(h, c.s)
    /\ UNCHANGED <<mode, account, here, changed, left>>

(* A call or a statement fails; what was done before it stays *)
GiveUp(h) ==
    /\ ~ SignsIn(h, "idle")
    /\ Turns(h, Away)
    /\ UNCHANGED <<mode, user, account, rowOf, here, there, changed, left>>

(* The process starts again, in the other mode perhaps *)
RestartIn(m) ==
    /\ NextRequest
    /\ mode' = m
    /\ session' = [h \in Handlers |-> Away]
    /\ UNCHANGED <<user, account, rowOf, here, there, changed>>

(* At the provider, an account is made for somebody, or takes another e-mail
   address (not while somebody signs in or up with the one it has) *)
Enroll(s, e, w) ==
    /\ NextRequest
    /\ account[s] = None /\ AccountAt(e) = {}
    /\ account' = [account EXCEPT ![s] = [email |-> e, password |-> w]]
    /\ UNCHANGED <<mode, user, session, rowOf, here, there, changed>>

ChangeEmail(s, e) ==
    /\ NextRequest
    /\ account[s] # None /\ AccountAt(e) = {}
    /\ \A h \in Handlers : session[h].e # account[s].email
    /\ account' = [account EXCEPT ![s].email = e]
    /\ UNCHANGED <<mode, user, session, rowOf, here, there, changed>>

ProviderNext ==
    \E s \in Subjects, e \in Emails :
      ChangeEmail(s, e) \/ \E w \in Passwords : Enroll(s, e, w)

UserRequest(h) ==
    \/ \E e \in Emails, w \in Passwords :
         RegisterLocally(h, e, w) \/ Register(h, e, w) \/ Login(h, e, w)
    \/ \E i \in Ids, w \in Passwords : ChangeRead(h, i, w)

Upsert(h) ==
    \/ UpsertFound(h) \/ UpsertUpdate(h) \/ UpsertMissing(h) \/ UpsertLegacy(h)
    \/ UpsertUnknown(h) \/ UpsertCreate(h)

AcctNext ==
    \/ \E h \in Handlers :
         \/ UserRequest(h) \/ ChangeSave(h)
         \/ CreateAccount(h) \/ SetPassword(h) \/ LookupUserByEmail(h) \/ Upsert(h)
         \/ GiveUp(h)
    \/ ProviderNext
    \/ \E m \in Modes : RestartIn(m)

AcctSpec == AcctInit /\ [][AcctNext]_acctVars

-----------------------------------------------------------------------------

Stages == {"idle", "change", "create", "setPassword", "lookup", "bySubject", "update",
           "byEmail", "insert"}

Sessions == [at : Stages, e : Maybe(Emails), w : Maybe(Passwords), s : Maybe(Ids),
             old : Maybe(Users)]

Claimed(c) ==
    /\ c.at \in {"create", "setPassword", "lookup", "bySubject", "update", "byEmail", "insert"}
       => c.e \in Emails
    /\ c.at \in {"create", "setPassword"} => c.w \in Passwords
    /\ c.at \in {"setPassword", "bySubject", "update", "byEmail", "insert"} => c.s \in Subjects
    /\ c.at = "change" => c.s \in Emails /\ c.w \in Passwords /\ c.old \in Users
    /\ c.at = "update" => c.old \in Users /\ c.old.password = None

(* The state has its type; no two rows have one e-mail address; and the row of
   a provider account never has a password of its own, which is how a row says
   where its password is kept (internal/user/model/user.go:25) *)
AcctTypeOK ==
    /\ mode \in Modes
    /\ user \in [Ids -> Maybe(Users)]
    /\ account \in [Subjects -> Maybe(Users)]
    /\ session \in [Handlers -> Sessions]
    /\ \A h \in Handlers : Claimed(session[h])
    /\ rowOf \in [Subjects -> Maybe(Ids)]
    /\ here \in [Emails -> Maybe(Passwords)]
    /\ there \in [Subjects -> Maybe(Passwords)]
    /\ changed \in [Subjects -> Maybe(Passwords)]
    /\ left \in 0..MaxRequests
    /\ \A i \in Ids : user[i] # None => EmailFree(user[i].email, i)
    /\ \A s \in Subjects : user[s] # None => user[s].password = None

(* Another row has the address that the account has by now *)
Contested(s) == account[s] # None /\ RowAt(account[s].email) \ {s} # {}

(* An account that last signed in to the row that bears its subject gets that
   row again, whatever became of its e-mail address and whatever fails, unless
   another row has its address: any error of the read by subject counts as a
   missing row, and the address decides then.  It says nothing of an account
   that signs in to a row found by its address, a local one as a rule: that
   link ends with the address (internal/user/service/user.go:195-217) *)
LinkIsStable ==
    [][\A s \in Subjects : rowOf[s] = s /\ ~ Contested(s) => rowOf'[s] = s]_acctVars

(* Whoever was answered that a registration succeeded can sign in with that
   password where they registered: with this program by the address, or with
   the provider by the address that the account has by now.  With this program
   a password that was changed later counts instead.  That requests overlap,
   fail at any call, or meet a restart in the other mode makes no difference
   (internal/user/service/user.go:105-192).  Where the sign-in over REST is the
   provider's, a changed password does not sign in: see ChangedCanSignIn. *)
AnsweredCanSignIn ==
    /\ \A e \in Emails :
         here[e] # None => \E i \in RowAt(e) : user[i].password = here[e]
    /\ \A s \in Subjects :
         there[s] # None => account[s] # None /\ PasswordAccepted(account[s].email, there[s])

(* Whoever signed in over REST by the provider and was then answered there that
   the password was changed signs in with the new one: the route, mounted in both
   modes, "changes the password" (internal/user/port/http/handlers.go:132).  Does
   not hold: only the hash in the row is changed, and the provider goes on with
   its own (internal/user/service/user.go:184). *)
ChangedCanSignIn ==
    \A s \in Subjects :
      mode = "oidc" /\ changed[s] # None => PasswordAccepted(account[s].email, changed[s])

HalfRegistered(s) ==
    /\ account[s] # None /\ account[s].password = None
    /\ \A h \in Handlers : ~ (SignsIn(h, "setPassword") /\ session[h].s = s)

(* A registration that was cut off between its two calls to the provider leaves
   an account that nobody can use: registering again over REST is refused, over
   gRPC it makes a local row at most, and nothing in this program sets the
   account's password or lets it sign in to a row (pkg/authentik/client.go:192-217) *)
HalfRegistrationsStay ==
    [][\A s \in Subjects :
         HalfRegistered(s) => HalfRegistered(s)' /\ rowOf'[s] = rowOf[s]]_acctVars

=============================================================================

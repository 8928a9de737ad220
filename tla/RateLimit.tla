------------------------------ MODULE RateLimit ------------------------------
(***************************************************************************)
(* The rate limiter (pkg/middleware/ratelimit.go) on Redis: a counter per  *)
(* client whose first hit gives it an expiry, in a second command.         *)
(***************************************************************************)
EXTENDS Requests, Integers

CONSTANTS Clients, \* IP addresses
          Limits   \* values of RATE_LIMIT_REQUESTS to check

ASSUME RateLimitAssumption == Limits \subseteq Int /\ None \notin Clients

VARIABLES
  limit,   \* configured when the process starts
  hits,    \* the counter of a client, 0 when there is no key
  expires, \* clients whose key has an expiry
  lost,    \* clients whose key never got one: the second command failed
  passing, \* the client whose request a handler lets through the limiter
  refused  \* clients whose last request was answered 429

rateVars == <<limit, hits, expires, lost, passing, refused, left>>

RateInit ==
    /\ limit \in Limits
    /\ hits = [c \in Clients |-> 0]
    /\ expires = {} /\ lost = {}
    /\ passing = [h \in Handlers |-> None]
    /\ refused = {}
    /\ left = MaxRequests

-----------------------------------------------------------------------------

Answers(c, n) == refused' = IF n > limit THEN refused \cup {c} ELSE refused \ {c}

(* Not counted: the limiter is off, the path is one of a webhook, or Redis
   does not answer *)
Exempt(c) ==
    /\ NextRequest
    /\ refused' = refused \ {c}
    /\ UNCHANGED <<limit, hits, expires, lost, passing>>

(* [variant] the expiry is set before the key is there *)
HitExpiresFirst(h, c) ==
    /\ passing[h] = None
    /\ NextRequest
    /\ limit > 0
    /\ hits' = [hits EXCEPT ![c] = @ + 1]
    /\ Answers(c, hits[c] + 1)
    /\ UNCHANGED <<limit, expires, lost, passing>>

(* INCR; the first hit goes on to EXPIRE before it is answered *)
Hit(h, c) ==
    /\ passing[h] = None
    /\ NextRequest
    /\ limit > 0
    /\ hits' = [hits EXCEPT ![c] = @ + 1]
    /\ IF hits[c] = 0 THEN /\ passing' = [passing EXCEPT ![h] = c]
                           /\ UNCHANGED refused
       ELSE /\ Answers(c, hits[c] + 1)
            /\ UNCHANGED passing
    /\ UNCHANGED <<limit, expires, lost>>

SetExpiry(h) ==
    /\ passing[h] # None
    /\ expires' = expires \cup {passing[h]}
    /\ Answers(passing[h], 1)
    /\ passing' = [passing EXCEPT ![h] = None]
    /\ UNCHANGED <<limit, hits, lost, left>>

(* The error of EXPIRE is ignored; or the process ends before it *)
ExpiryLost(h) ==
    /\ passing[h] # None
    /\ lost' = lost \cup {passing[h]}
    /\ Answers(passing[h], 1)
    /\ passing' = [passing EXCEPT ![h] = None]
    /\ UNCHANGED <<limit, hits, expires, left>>

(* The window of a client ends *)
WindowEnds(c) ==
    /\ c \in expires
    /\ hits' = [hits EXCEPT ![c] = 0]
    /\ expires' = expires \ {c}
    /\ UNCHANGED <<limit, lost, passing, refused, left>>

RateNext ==
    \/ \E c \in Clients : Exempt(c) \/ WindowEnds(c)
    \/ \E h \in Handlers : SetExpiry(h) \/ ExpiryLost(h) \/ \E c \in Clients : Hit(h, c)

(* A handler that counted a hit goes on, and time passes *)
RateFairness ==
    /\ \A h \in Handlers : WF_rateVars(SetExpiry(h))
    /\ \A c \in Clients : WF_rateVars(WindowEnds(c))

RateSpec == RateInit /\ [][RateNext]_rateVars /\ RateFairness

-----------------------------------------------------------------------------

(* A client that is refused is counted from zero again later, even if other
   requests came between the INCR and the EXPIRE of its first one, unless that
   EXPIRE never happened (pkg/redis/redis.go:166-177) *)
BlocksEnd ==
    \A c \in Clients : c \in refused ~> hits[c] = 0 \/ c \in lost

=============================================================================

---------------------------- MODULE Credentials ----------------------------
(***************************************************************************)
(* What the gateway caches of other people's truth before it trusts a      *)
(* caller: verified Google ID tokens (gateway/auth.py, five minutes each)  *)
(* and the Bot Framework's signing keys (connectors/teams.py, one day, all *)
(* of them at once).                                                       *)
(*                                                                         *)
(* Time is a clock in coarse units.  An answer is fixed when the remote    *)
(* service forms it and lands up to the HTTP timeout later; requests for   *)
(* the same token or for the keys overlap, for nothing makes one wait for  *)
(* another, and land in any order.                                         *)
(***************************************************************************)
EXTENDS Naturals, FiniteSets

CONSTANTS
  Tokens,
  Expiry,     \* Expiry[t]: when token t expires
  TokenTtl,   \* TTLCache(ttl=300)
  KeysTtl,    \* _JWKS_TTL
  Timeout,    \* timeout of either HTTP client
  MaxNow,     \* bound: the clock
  MaxKey,     \* bound: rotations of the signing key
  MaxAsked    \* bound: requests in flight at once, of either kind

ASSUME CredentialsAssumption ==
  /\ Expiry \in [Tokens -> Nat]
  /\ TokenTtl \in Nat \ {0} /\ KeysTtl \in Nat \ {0} /\ Timeout \in Nat
  /\ MaxNow \in Nat /\ MaxKey \in Nat /\ MaxAsked \in Nat

Times == 0 .. MaxNow
Keys == 0 .. MaxKey
Never == MaxNow + 1

VARIABLES
  now,
  asked,      \* asked[t]: tokeninfo answers under way, by when they were formed
  verified,   \* _token_cache: when the claims of t were stored, Never if not
  accepted,   \* history: accepted[t]: when t last let a request in, Never if not
  key,        \* the key the Bot Framework signs with
  since,      \* history: since[k]: when k became that key
  opening,    \* OpenID documents under way, by when they were asked for
  fetching,   \* key sets under way: [key, at]
  keys,       \* _jwks_cache and _jwks_fetched_at: the key in it, and when it came
  trusted,    \* history: trusted[k]: when a signature by k last passed
  unknown     \* history: unknown[k]: when k, in use, was last not found

tokenVars == <<asked, verified, accepted>>
keyVars == <<key, since, opening, fetching, keys, trusted, unknown>>
credVars == <<now, tokenVars, keyVars>>

NoKeys == [key |-> 0, at |-> Never]

CredInit ==
  /\ now = 0
  /\ asked = [t \in Tokens |-> {}]
  /\ verified = [t \in Tokens |-> Never]
  /\ accepted = [t \in Tokens |-> Never]
  /\ key = 0
  /\ since = [k \in Keys |-> IF k = 0 THEN 0 ELSE Never]
  /\ opening = {} /\ fetching = {}
  /\ keys = NoKeys
  /\ trusted = [k \in Keys |-> Never]
  /\ unknown = [k \in Keys |-> Never]

-----------------------------------------------------------------------------
(* verify_google_token                                                     *)

Cached(t) == verified[t] # Never /\ now < verified[t] + TokenTtl

(* Mutant: a hit prolongs the entry.                                       *)
AcceptSliding(t) ==
  /\ Cached(t)
  /\ accepted' = [accepted EXCEPT ![t] = now]
  /\ verified' = [verified EXCEPT ![t] = now]
  /\ UNCHANGED <<now, asked, keyVars>>

AcceptCached(t) ==
  /\ Cached(t)
  /\ accepted' = [accepted EXCEPT ![t] = now]
  /\ UNCHANGED <<now, asked, verified, keyVars>>

(* Google checks the token; for an expired one the answer is a 401 that    *)
(* changes nothing, like one for a wrong audience or issuer.               *)
AskGoogle(t) ==
  /\ ~Cached(t)
  /\ now < Expiry[t]
  /\ Cardinality(asked[t] \cup {now}) <= MaxAsked
  /\ asked' = [asked EXCEPT ![t] = @ \cup {now}]
  /\ UNCHANGED <<now, verified, accepted, keyVars>>

(* The claims are stored under the hash of the token.                      *)
Verified(t) ==
  /\ \E at \in asked[t] : asked' = [asked EXCEPT ![t] = @ \ {at}]
  /\ verified' = [verified EXCEPT ![t] = now]
  /\ accepted' = [accepted EXCEPT ![t] = now]
  /\ UNCHANGED <<now, keyVars>>

(* The connection breaks or the client gives up: the request ends in an    *)
(* exception.                                                              *)
GoogleFails(t) ==
  /\ \E at \in asked[t] : asked' = [asked EXCEPT ![t] = @ \ {at}]
  /\ UNCHANGED <<now, verified, accepted, keyVars>>

(* The cache is full: the entry makes room, or the process restarts.       *)
Evict(t) ==
  /\ verified[t] # Never
  /\ verified' = [verified EXCEPT ![t] = Never]
  /\ UNCHANGED <<now, asked, accepted, keyVars>>

-----------------------------------------------------------------------------
(* _get_jwks and _verify_teams_token                                       *)

(* Mutant: a key set that was fetched is kept.                             *)
FreshForever == keys.at # Never

Fresh == keys.at # Never /\ now < keys.at + KeysTtl

(* A signature by k is looked up in the key set at hand.                   *)
Check(k, found) ==
  IF k = found
    THEN /\ trusted' = [trusted EXCEPT ![k] = now]
         /\ UNCHANGED unknown
    ELSE /\ unknown' = IF k = key THEN [unknown EXCEPT ![k] = now] ELSE unknown
         /\ UNCHANGED trusted

(* Mutant: every use of the key set prolongs its life.                     *)
CheckSliding(k) ==
  /\ Fresh /\ k <= key
  /\ Check(k, keys.key)
  /\ keys' = [keys EXCEPT !.at = now]
  /\ UNCHANGED <<now, tokenVars, key, since, opening, fetching>>

(* Messages are signed with the key of the day, or with one retired since. *)
CheckCached(k) ==
  /\ Fresh /\ k <= key
  /\ Check(k, keys.key)
  /\ UNCHANGED <<now, tokenVars, key, since, opening, fetching, keys>>

(* Only then is the OpenID document asked for, which says where the keys   *)
(* are; when these are asked for, the cache is not looked at again.        *)
OpenDocument ==
  /\ ~Fresh
  /\ Cardinality(opening \cup {now}) + Cardinality(fetching) <= MaxAsked
  /\ opening' = opening \cup {now}
  /\ UNCHANGED <<now, tokenVars, key, since, fetching, keys, trusted, unknown>>

FetchKeys ==
  /\ \E at \in opening : opening' = opening \ {at}
  /\ fetching' = fetching \cup {[key |-> key, at |-> now]}
  /\ UNCHANGED <<now, tokenVars, key, since, keys, trusted, unknown>>

(* The set replaces whatever the cache holds, dated now; the message that  *)
(* waited for it is then checked.                                          *)
KeysArrive(k) ==
  /\ k <= key
  /\ \E f \in fetching :
       /\ fetching' = fetching \ {f}
       /\ keys' = [key |-> f.key, at |-> now]
       /\ Check(k, f.key)
  /\ UNCHANGED <<now, tokenVars, key, since, opening>>

(* An exception: the message is refused, the cache is as it was.           *)
FetchFails ==
  /\ \/ (\E at \in opening : opening' = opening \ {at}) /\ UNCHANGED fetching
     \/ (\E f \in fetching : fetching' = fetching \ {f}) /\ UNCHANGED opening
  /\ UNCHANGED <<now, tokenVars, key, since, keys, trusted, unknown>>

Rotate ==
  /\ key < MaxKey
  /\ key' = key + 1
  /\ since' = [since EXCEPT ![key + 1] = now]
  /\ UNCHANGED <<now, tokenVars, opening, fetching, keys, trusted, unknown>>

(* Time passes, but no request outlives its timeout.                       *)
Tick ==
  /\ now < MaxNow
  /\ \A t \in Tokens : \A at \in asked[t] : now < at + Timeout
  /\ \A at \in opening : now < at + Timeout
  /\ \A f \in fetching : now < f.at + Timeout
  /\ now' = now + 1
  /\ UNCHANGED <<tokenVars, keyVars>>

TokenNext ==
  \E t \in Tokens :
    AcceptCached(t) \/ AskGoogle(t) \/ Verified(t) \/ GoogleFails(t) \/ Evict(t)

KeyNext ==
  \/ \E k \in Keys : CheckCached(k) \/ KeysArrive(k)
  \/ OpenDocument \/ FetchKeys \/ FetchFails \/ Rotate

CredNext == TokenNext \/ KeyNext \/ Tick

CredSpec == CredInit /\ [][CredNext]_credVars

CredTypeOK ==
  /\ now \in Times
  /\ asked \in [Tokens -> SUBSET Times]
  /\ verified \in [Tokens -> Times \cup {Never}]
  /\ accepted \in [Tokens -> Times \cup {Never}]
  /\ key \in Keys
  /\ since \in [Keys -> Times \cup {Never}]
  /\ opening \subseteq Times
  /\ fetching \subseteq [key : Keys, at : Times]
  /\ keys \in [key : Keys, at : Times \cup {Never}]
  /\ trusted \in [Keys -> Times \cup {Never}]
  /\ unknown \in [Keys -> Times \cup {Never}]

-----------------------------------------------------------------------------
(* verify_google_token does not look at the expiry of a cached token: past *)
(* it the token is still accepted, though "expired" tokens are said to get *)
(* a 401, but for the life of one cache entry and one request at most,     *)
(* however often it is used in that time.                                  *)
ExpiredTokensFade ==
  \A t \in Tokens : accepted[t] # Never =>
    accepted[t] < Expiry[t] + Timeout + TokenTtl

(* A signature by a retired key passes for one cache life and one request  *)
(* after the rotation at most, also when an older key set arrives last.    *)
RetiredKeysFade ==
  \A k \in Keys : (k < key /\ trusted[k] # Never) =>
    trusted[k] < since[k + 1] + Timeout + KeysTtl

(* No later than that the new key is known: a genuine message is never     *)
(* refused for its key any longer.                                         *)
NewKeysAreLearned ==
  \A k \in Keys : unknown[k] # Never =>
    unknown[k] < since[k] + Timeout + KeysTtl

(* So a rotation of the signing key is followed within one cache life and  *)
(* one request, in both directions.                                        *)
KeysFollowRotation == RetiredKeysFade /\ NewKeysAreLearned
=============================================================================

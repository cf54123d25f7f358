-------------------------------- MODULE Session --------------------------------
(***************************************************************************)
(* Login, RefreshToken and Logout (internal/api/admin/account/auth.go):    *)
(* the refresh tokens, whose jti is kept in Redis until it is spent.       *)
(* A refresh token is its jti; the access token made with it names it as   *)
(* its session.  How Login comes to accept a password is LoginLimiter.     *)
(*                                                                         *)
(* Redis is external: a command takes effect at once, or its caller gets   *)
(* an error and it takes effect then, later or never; a SET or DEL that    *)
(* has taken effect does not take effect again.                            *)
(***************************************************************************)
CONSTANTS
  Calls,                \* HTTP requests in flight
  Jtis,                 \* ids that uuid can still make
  NoToken               \* no token

ASSUME NoTokenAssumption == NoToken \notin Jtis

VARIABLES
  store,                \* jtis in Redis
  lateSet, lateDel,     \* jtis whose SET or DEL is still on its way
  expired,              \* tokens past their exp claim
  root,                 \* of a token that was made: the login its session began with
  handed, successor, revoked, \* as in TokenContract
  stranded,             \* history: tokens in a client's hands that a fault made useless
  at, tok, new          \* each request's place, the token it came with, the one it made

storeVars  == <<store, lateSet, lateDel, expired>>
clientVars  == <<root, handed, successor, revoked, stranded>>
reqVars    == <<at, tok, new>>
sessionVars == <<storeVars, clientVars, reqVars>>

SessionInit ==
  /\ store = {} /\ lateSet = {} /\ lateDel = {} /\ expired = {}
  /\ root = [t \in Jtis |-> NoToken]
  /\ handed = {} /\ successor = [t \in Jtis |-> NoToken] /\ revoked = {}
  /\ stranded = {}
  /\ at  = [r \in Calls |-> "idle"]
  /\ tok = [r \in Calls |-> NoToken] /\ new = [r \in Calls |-> NoToken]

Made == {t \in Jtis : root[t] # NoToken}

Goes(r, from, to) == at[r] = from /\ at' = [at EXCEPT ![r] = to]

(* The request is answered, or given up. *)
Ends(r, from) ==
  /\ Goes(r, from, "idle")
  /\ tok' = [tok EXCEPT ![r] = NoToken] /\ new' = [new EXCEPT ![r] = NoToken]

-----------------------------------------------------------------------------
(* The refresh tokens. *)

(* SET of a new token's key: ok, or an error with or without effect.       *)
SetOk(n)    == store' = store \cup {n} /\ UNCHANGED lateSet
SetFails(n) == \/ store' = store \cup {n} /\ UNCHANGED lateSet
               \/ lateSet' \in {lateSet, lateSet \cup {n}} /\ UNCHANGED store

(* GenerateTokens. *)
Makes(r, n, session) ==
  /\ n \in Jtis \ Made
  /\ root' = [root EXCEPT ![n] = session]
  /\ new' = [new EXCEPT ![r] = n]

(* The password was right.  A failed SET is only logged: the token is      *)
(* handed out all the same.                                                *)
LoginStores(r) ==
  /\ Goes(r, "idle", "answering")
  /\ \E n \in Jtis :
       /\ Makes(r, n, n)
       /\ \/ SetOk(n) /\ UNCHANGED stranded
          \/ SetFails(n) /\ stranded' = stranded \cup {n}
  /\ UNCHANGED <<lateDel, expired, handed, successor, revoked, tok>>

(* No token, a malformed or an expired one, or at Logout a refresh token:  *)
(* nothing changes.                                                        *)
TurnedAway(r) == at[r] = "idle" /\ UNCHANGED sessionVars

(* RefreshToken parses the token its caller holds.  An access token parses *)
(* too, but its jti is never in the store: it is turned away by DEL.       *)
RefreshStarts(r) ==
  /\ Goes(r, "idle", "parsed")
  /\ \E t \in handed \ expired : tok' = [tok EXCEPT ![r] = t]
  /\ UNCHANGED <<storeVars, clientVars, new>>

(* DEL answers 1: this request, and no other, may go on with the token.    *)
RedeemUnseen(r) ==                     \* faulty variant: looks first, deletes at its leisure
  /\ Goes(r, "parsed", "redeemed")
  /\ tok[r] \in store
  /\ lateDel' = lateDel \cup {tok[r]}
  /\ UNCHANGED <<store, lateSet, expired, clientVars, tok, new>>
Redeem(r) ==
  /\ Goes(r, "parsed", "redeemed")
  /\ tok[r] \in store
  /\ store' = store \ {tok[r]}
  /\ UNCHANGED <<lateSet, lateDel, expired, clientVars, tok, new>>

(* DEL answers 0, or its error is taken for a 0: TokenUsedError.           *)
Unredeemed(r) ==
  /\ Ends(r, "parsed")
  /\ \/ tok[r] \notin store /\ UNCHANGED <<store, lateDel, stranded>>
     \/ /\ store' = store \ {tok[r]} /\ UNCHANGED lateDel
        /\ stranded' = stranded \cup (store \cap {tok[r]})
     \/ /\ lateDel' \in {lateDel, lateDel \cup {tok[r]}} /\ UNCHANGED store
        /\ stranded' = stranded \cup (lateDel' \ lateDel)
  /\ UNCHANGED <<lateSet, expired, root, handed, successor, revoked>>

(* RefreshTokens parses again, makes the pair, and its jti is stored.      *)
RefreshStores(r) ==
  /\ Goes(r, "redeemed", "answering")
  /\ tok[r] \notin expired
  /\ \E n \in Jtis : Makes(r, n, root[tok[r]]) /\ SetOk(n)
  /\ UNCHANGED <<lateDel, expired, handed, successor, revoked, stranded, tok>>

(* The old token expired between the two parses, or the SET failed: the    *)
(* caller has spent its token and gets no other.                           *)
RefreshRestores(r) ==                  \* faulty variant: gives the old token back
  /\ Ends(r, "redeemed")
  /\ \/ tok[r] \in expired /\ UNCHANGED <<store, lateSet, root>>
     \/ \E n \in Jtis \ Made :
          /\ root' = [root EXCEPT ![n] = root[tok[r]]]
          /\ store' = store \cup {tok[r]} /\ lateSet' \in {lateSet, lateSet \cup {n}}
  /\ stranded' = stranded \cup {tok[r]}
  /\ UNCHANGED <<lateDel, expired, handed, successor, revoked>>
RefreshFails(r) ==
  /\ Ends(r, "redeemed")
  /\ \/ tok[r] \in expired /\ UNCHANGED <<store, lateSet, root>>
     \/ /\ tok[r] \notin expired
        /\ \E n \in Jtis \ Made :
             root' = [root EXCEPT ![n] = root[tok[r]]] /\ SetFails(n)
  /\ stranded' = stranded \cup {tok[r]}
  /\ UNCHANGED <<lateDel, expired, handed, successor, revoked>>

(* The answer reaches the client. *)
Answer(r) ==
  /\ Ends(r, "answering")
  /\ handed' = handed \cup {new[r]}
  /\ successor' = IF tok[r] = NoToken THEN successor
                                   ELSE [successor EXCEPT ![tok[r]] = new[r]]
  /\ UNCHANGED <<storeVars, root, revoked, stranded>>

(* The process dies, the handler panics, or the client is gone. *)
Crash(r) ==
  /\ at[r] # "idle" /\ Ends(r, at[r])
  /\ stranded' = IF at[r] \in {"redeemed", "answering"}
                 THEN stranded \cup ({tok[r]} \cap Jtis) ELSE stranded
  /\ UNCHANGED <<storeVars, root, handed, successor, revoked>>

(* Logout deletes the jti its access token names, and drops the result.    *)
Logout(t) ==
  /\ t \in handed
  /\ \/ /\ store' = store \ {t} /\ UNCHANGED lateDel
        /\ revoked' = revoked \cup (store \cap {t})
     \/ /\ lateDel' = lateDel \cup {t} /\ UNCHANGED <<store, revoked>>
  /\ stranded' = stranded \cup (lateDel' \ lateDel)
  /\ UNCHANGED <<lateSet, expired, root, handed, successor, reqVars>>

(* External: Redis gets to the commands that were on their way. *)
LateSet(t) ==
  /\ t \in lateSet
  /\ lateSet' = lateSet \ {t} /\ store' = store \cup {t}
  /\ UNCHANGED <<lateDel, expired, clientVars, reqVars>>

LateDel(t) ==
  /\ t \in lateDel
  /\ lateDel' = lateDel \ {t} /\ store' = store \ {t}
  /\ UNCHANGED <<lateSet, expired, clientVars, reqVars>>

(* External: a token's time is up, and later that of its key, which lives  *)
(* as long as the refresh token it was set for.                            *)
TokenExpires(t) ==
  /\ t \in Made \ expired
  /\ expired' = expired \cup {t}
  /\ UNCHANGED <<store, lateSet, lateDel, clientVars, reqVars>>

JtiExpiresEarly(t) ==                  \* faulty variant: the key lives as long as the access token
  /\ t \in store
  /\ store' = store \ {t}
  /\ UNCHANGED <<lateSet, lateDel, expired, clientVars, reqVars>>
JtiExpires(t) ==
  /\ t \in store \cap expired
  /\ store' = store \ {t}
  /\ UNCHANGED <<lateSet, lateDel, expired, clientVars, reqVars>>
-----------------------------------------------------------------------------
RefreshSteps(r) == TurnedAway(r) \/ RefreshStarts(r) \/ Redeem(r) \/ Unredeemed(r)
                \/ RefreshStores(r) \/ RefreshFails(r)
TokenSteps(t) == Logout(t) \/ LateSet(t) \/ LateDel(t) \/ TokenExpires(t) \/ JtiExpires(t)

SessionNext == (\E r \in Calls : LoginStores(r) \/ RefreshSteps(r) \/ Answer(r) \/ Crash(r))
     \/ (\E t \in Jtis : TokenSteps(t))

SessionSpec == SessionInit /\ [][SessionNext]_sessionVars

-----------------------------------------------------------------------------
RequestPlaces == {"idle", "parsed", "redeemed", "answering"}

(* Every set names tokens that were made.                                  *)
SessionTypeOK ==
  /\ store \cup lateSet \cup lateDel \cup expired \subseteq Made
  /\ root \in [Jtis -> Jtis \cup {NoToken}]
  /\ handed \subseteq Made /\ revoked \subseteq handed /\ stranded \subseteq Made
  /\ successor \in [Jtis -> Jtis \cup {NoToken}]
  /\ at \in [Calls -> RequestPlaces]
  /\ tok \in [Calls -> Jtis \cup {NoToken}] /\ new \in [Calls -> Jtis \cup {NoToken}]

(* Requests that have redeemed their token and not yet made another. *)
Redeeming == {r \in Calls : at[r] = "redeemed"}
Live      == store \cup lateSet \cup {tok[r] : r \in Redeeming}

(* A session has one live refresh token: in the store, on its way there,   *)
(* or in the hands of the single request that will replace it.             *)
OneLivePerSession ==
  /\ \A s, t \in Live : root[s] = root[t] => s = t
  /\ \A r \in Redeeming : tok[r] \notin store \cup lateSet
  /\ \A r, q \in Redeeming : tok[r] = tok[q] => r = q

(* Once a logout has deleted a token, nothing of its session is live, nor  *)
(* comes alive, whatever refresh raced with it.                            *)
LogoutEndsSession == \A s \in revoked, t \in Live : root[s] # root[t]

(* A client that does nothing wrong keeps a usable token: one it holds,    *)
(* neither exchanged nor logged out nor expired, is in the store or being  *)
(* redeemed, unless a fault struck it.                                     *)
HeldTokensRedeemable ==
  \A t \in handed \ (expired \cup revoked \cup stranded) :
    \/ successor[t] # NoToken
    \/ t \in store
    \/ \E r \in Calls : at[r] \in {"redeemed", "answering"} /\ tok[r] = t

(* The handlers keep the promise on refresh tokens. *)
Contract == INSTANCE TokenContract WITH None <- NoToken
KeepsContract == Contract!Spec
===============================================================================

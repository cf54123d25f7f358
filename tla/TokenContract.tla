----------------------------- MODULE TokenContract -----------------------------
(***************************************************************************)
(* What the clients are promised about refresh tokens ("refresh_token 单用 *)
(* +JTI 追踪", README.md:47; "每个refresh token只能使用一次", auth.go:98), *)
(* with no cache, no expiry and no requests: a token brings its holder at  *)
(* most one successor, that successor is new, and a token that was logged  *)
(* out brings none.                                                        *)
(***************************************************************************)
CONSTANTS Jtis,         \* refresh tokens, each named by its jti
          None

VARIABLES
  handed,               \* tokens a client was given
  successor,            \* the token each one was exchanged for
  revoked               \* tokens a logout has ended

vars == <<handed, successor, revoked>>

Init ==
  /\ handed = {} /\ revoked = {}
  /\ successor = [t \in Jtis |-> None]

Grant(n) ==
  /\ n \notin handed
  /\ handed' = handed \cup {n}
  /\ UNCHANGED <<successor, revoked>>

Exchange(t, n) ==
  /\ t \in handed \ revoked /\ successor[t] = None
  /\ n \notin handed
  /\ handed' = handed \cup {n}
  /\ successor' = [successor EXCEPT ![t] = n]
  /\ UNCHANGED revoked

Revoke(t) ==
  /\ t \in handed \ revoked /\ successor[t] = None
  /\ revoked' = revoked \cup {t}
  /\ UNCHANGED <<handed, successor>>

Next == \E t \in Jtis : Grant(t) \/ Revoke(t) \/ \E n \in Jtis : Exchange(t, n)

Spec == Init /\ [][Next]_vars
===============================================================================

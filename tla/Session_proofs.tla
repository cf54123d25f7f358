----------------------------- MODULE Session_proofs -----------------------------
(* The refresh tokens: types, one live token in a session, the end a logout   *)
(* puts to it, and that the handlers implement TokenContract.                 *)
EXTENDS Session, TLAPS

(* A request that has redeemed a token and not yet ended. *)
Exchanging == {r \in Calls : at[r] \in {"redeemed", "answering"} /\ tok[r] # NoToken}

(* What a request has at each of its places. *)
Belongings ==
  \A r \in Calls :
    /\ at[r] = "idle" => tok[r] = NoToken
    /\ at[r] \in {"parsed", "redeemed"} => tok[r] \in handed
    /\ at[r] = "answering" => tok[r] \in handed \cup {NoToken} /\ new[r] \in Made \ handed

(* The tokens being handed out differ. *)
NewOnes ==
  \A r, q \in Calls : at[r] = "answering" /\ at[q] = "answering" /\ new[r] = new[q] => r = q

(* A token that one request has redeemed is out of all others' reach. *)
Claimed ==
  /\ \A r \in Exchanging :
       tok[r] \notin store \cup lateSet \cup revoked /\ successor[tok[r]] = NoToken
  /\ \A r, q \in Exchanging : tok[r] = tok[q] => r = q

(* A token in the store, or on its way there by the only SET it ever gets,    *)
(* is neither exchanged nor logged out.                                       *)
Unspent ==
  /\ store \cap lateSet = {}
  /\ \A t \in store \cup lateSet : t \notin revoked /\ successor[t] = NoToken

(* Sessions begin with a token of their own, successors of tokens held.       *)
Ancestry ==
  /\ \A t \in Made : root[t] \in Made
  /\ \A t \in Jtis : successor[t] # NoToken => t \in handed

(* What a fault has not touched is still in the store. *)
Faultless ==
  /\ lateDel \subseteq stranded
  /\ \A r \in Calls : at[r] = "answering" => new[r] \in store \cup expired \cup stranded

TInv == SessionTypeOK /\ Belongings /\ NewOnes /\ Claimed /\ Unspent /\ Ancestry
SInv == TInv /\ OneLivePerSession /\ LogoutEndsSession
FInv == TInv /\ Faultless /\ HeldTokensRedeemable
IInv == SInv /\ FInv

-----------------------------------------------------------------------------
(* Where tokens and requests may be. *)
LEMMA TokensKeepPlace ==
  ASSUME TInv, [SessionNext]_sessionVars
  PROVE  TInv'
<1> USE NoTokenAssumption DEF TInv, SessionTypeOK, Made, RequestPlaces, Belongings, NewOnes,
            Claimed, Exchanging, Unspent, Ancestry,
            sessionVars, storeVars, clientVars, reqVars
<1>1. ASSUME NEW r \in Calls, LoginStores(r)  PROVE TInv'
  BY <1>1 DEF LoginStores, Makes, SetOk, SetFails, Goes
<1>2. ASSUME NEW r \in Calls, TurnedAway(r)  PROVE TInv'
  BY <1>2 DEF TurnedAway
<1>3. ASSUME NEW r \in Calls, RefreshStarts(r)  PROVE TInv'
  BY <1>3 DEF RefreshStarts, Goes
<1>4. ASSUME NEW r \in Calls, Redeem(r)  PROVE TInv'
  BY <1>4 DEF Redeem, Goes
<1>5. ASSUME NEW r \in Calls, Unredeemed(r)  PROVE TInv'
  BY <1>5 DEF Unredeemed, Goes, Ends
<1>6. ASSUME NEW r \in Calls, RefreshStores(r)  PROVE TInv'
  BY <1>6 DEF RefreshStores, Makes, SetOk, Goes
<1>7. ASSUME NEW r \in Calls, RefreshFails(r)  PROVE TInv'
  BY <1>7 DEF RefreshFails, SetFails, Goes, Ends
<1>8. ASSUME NEW r \in Calls, Answer(r)  PROVE TInv'
  BY <1>8 DEF Answer, Goes, Ends
<1>9. ASSUME NEW r \in Calls, Crash(r)  PROVE TInv'
  BY <1>9 DEF Crash, Goes, Ends
<1>10. ASSUME NEW t \in Jtis, Logout(t)  PROVE TInv'
  BY <1>10 DEF Logout
<1>11. ASSUME NEW t \in Jtis, LateSet(t)  PROVE TInv'
  BY <1>11 DEF LateSet
<1>12. ASSUME NEW t \in Jtis, LateDel(t)  PROVE TInv'
  BY <1>12 DEF LateDel
<1>13. ASSUME NEW t \in Jtis, TokenExpires(t)  PROVE TInv'
  BY <1>13 DEF TokenExpires
<1>14. ASSUME NEW t \in Jtis, JtiExpires(t)  PROVE TInv'
  BY <1>14 DEF JtiExpires
<1>15. CASE UNCHANGED sessionVars
  BY <1>15
<1> QED
  BY <1>1, <1>2, <1>3, <1>4, <1>5, <1>6, <1>7, <1>8, <1>9, <1>10, <1>11,
     <1>12, <1>13, <1>14, <1>15 DEF SessionNext, RefreshSteps, TokenSteps

(* One live token in a session, and none once it was logged out. *)
LEMMA LiveTokens ==
  ASSUME SInv, [SessionNext]_sessionVars
  PROVE  (OneLivePerSession /\ LogoutEndsSession)'
<1> USE NoTokenAssumption DEF SInv, TInv, SessionTypeOK, Made, RequestPlaces, Belongings, NewOnes,
            Claimed, Exchanging, Unspent, Ancestry,
            OneLivePerSession, LogoutEndsSession, Live, Redeeming,
            sessionVars, storeVars, clientVars, reqVars
<1>1. ASSUME NEW r \in Calls, LoginStores(r)  PROVE (OneLivePerSession /\ LogoutEndsSession)'
  BY <1>1 DEF LoginStores, Makes, SetOk, SetFails, Goes
<1>2. ASSUME NEW r \in Calls, TurnedAway(r)  PROVE (OneLivePerSession /\ LogoutEndsSession)'
  BY <1>2 DEF TurnedAway
<1>3. ASSUME NEW r \in Calls, RefreshStarts(r)  PROVE (OneLivePerSession /\ LogoutEndsSession)'
  BY <1>3 DEF RefreshStarts, Goes
<1>4. ASSUME NEW r \in Calls, Redeem(r)  PROVE (OneLivePerSession /\ LogoutEndsSession)'
  BY <1>4 DEF Redeem, Goes
<1>5. ASSUME NEW r \in Calls, Unredeemed(r)  PROVE (OneLivePerSession /\ LogoutEndsSession)'
  BY <1>5 DEF Unredeemed, Goes, Ends
<1>6. ASSUME NEW r \in Calls, RefreshStores(r)  PROVE (OneLivePerSession /\ LogoutEndsSession)'
  BY <1>6 DEF RefreshStores, Makes, SetOk, Goes
<1>7. ASSUME NEW r \in Calls, RefreshFails(r)  PROVE (OneLivePerSession /\ LogoutEndsSession)'
  BY <1>7 DEF RefreshFails, SetFails, Goes, Ends
<1>8. ASSUME NEW r \in Calls, Answer(r)  PROVE (OneLivePerSession /\ LogoutEndsSession)'
  BY <1>8 DEF Answer, Goes, Ends
<1>9. ASSUME NEW r \in Calls, Crash(r)  PROVE (OneLivePerSession /\ LogoutEndsSession)'
  BY <1>9 DEF Crash, Goes, Ends
<1>10. ASSUME NEW t \in Jtis, Logout(t)  PROVE (OneLivePerSession /\ LogoutEndsSession)'
  BY <1>10 DEF Logout
<1>11. ASSUME NEW t \in Jtis, LateSet(t)  PROVE (OneLivePerSession /\ LogoutEndsSession)'
  BY <1>11 DEF LateSet
<1>12. ASSUME NEW t \in Jtis, LateDel(t)  PROVE (OneLivePerSession /\ LogoutEndsSession)'
  BY <1>12 DEF LateDel
<1>13. ASSUME NEW t \in Jtis, TokenExpires(t)  PROVE (OneLivePerSession /\ LogoutEndsSession)'
  BY <1>13 DEF TokenExpires
<1>14. ASSUME NEW t \in Jtis, JtiExpires(t)  PROVE (OneLivePerSession /\ LogoutEndsSession)'
  BY <1>14 DEF JtiExpires
<1>15. CASE UNCHANGED sessionVars
  BY <1>15
<1> QED
  BY <1>1, <1>2, <1>3, <1>4, <1>5, <1>6, <1>7, <1>8, <1>9, <1>10, <1>11,
     <1>12, <1>13, <1>14, <1>15 DEF SessionNext, RefreshSteps, TokenSteps

(* What clients hold stays usable. *)
LEMMA HeldTokens ==
  ASSUME FInv, [SessionNext]_sessionVars
  PROVE  (Faultless /\ HeldTokensRedeemable)'
<1> USE NoTokenAssumption DEF FInv, TInv, SessionTypeOK, Made, RequestPlaces, Belongings, NewOnes,
            Claimed, Exchanging, Unspent, Ancestry,
            Faultless, HeldTokensRedeemable,
            sessionVars, storeVars, clientVars, reqVars
<1>1. ASSUME NEW r \in Calls, LoginStores(r)  PROVE (Faultless /\ HeldTokensRedeemable)'
  BY <1>1 DEF LoginStores, Makes, SetOk, SetFails, Goes
<1>2. ASSUME NEW r \in Calls, TurnedAway(r)  PROVE (Faultless /\ HeldTokensRedeemable)'
  BY <1>2 DEF TurnedAway
<1>3. ASSUME NEW r \in Calls, RefreshStarts(r)  PROVE (Faultless /\ HeldTokensRedeemable)'
  BY <1>3 DEF RefreshStarts, Goes
<1>4. ASSUME NEW r \in Calls, Redeem(r)  PROVE (Faultless /\ HeldTokensRedeemable)'
  BY <1>4 DEF Redeem, Goes
<1>5. ASSUME NEW r \in Calls, Unredeemed(r)  PROVE (Faultless /\ HeldTokensRedeemable)'
  BY <1>5 DEF Unredeemed, Goes, Ends
<1>6. ASSUME NEW r \in Calls, RefreshStores(r)  PROVE (Faultless /\ HeldTokensRedeemable)'
  BY <1>6 DEF RefreshStores, Makes, SetOk, Goes
<1>7. ASSUME NEW r \in Calls, RefreshFails(r)  PROVE (Faultless /\ HeldTokensRedeemable)'
  BY <1>7 DEF RefreshFails, SetFails, Goes, Ends
<1>8. ASSUME NEW r \in Calls, Answer(r)  PROVE (Faultless /\ HeldTokensRedeemable)'
  BY <1>8 DEF Answer, Goes, Ends
<1>9. ASSUME NEW r \in Calls, Crash(r)  PROVE (Faultless /\ HeldTokensRedeemable)'
  BY <1>9 DEF Crash, Goes, Ends
<1>10. ASSUME NEW t \in Jtis, Logout(t)  PROVE (Faultless /\ HeldTokensRedeemable)'
  BY <1>10 DEF Logout
<1>11. ASSUME NEW t \in Jtis, LateSet(t)  PROVE (Faultless /\ HeldTokensRedeemable)'
  BY <1>11 DEF LateSet
<1>12. ASSUME NEW t \in Jtis, LateDel(t)  PROVE (Faultless /\ HeldTokensRedeemable)'
  BY <1>12 DEF LateDel
<1>13. ASSUME NEW t \in Jtis, TokenExpires(t)  PROVE (Faultless /\ HeldTokensRedeemable)'
  BY <1>13 DEF TokenExpires
<1>14. ASSUME NEW t \in Jtis, JtiExpires(t)  PROVE (Faultless /\ HeldTokensRedeemable)'
  BY <1>14 DEF JtiExpires
<1>15. CASE UNCHANGED sessionVars
  BY <1>15
<1> QED
  BY <1>1, <1>2, <1>3, <1>4, <1>5, <1>6, <1>7, <1>8, <1>9, <1>10, <1>11,
     <1>12, <1>13, <1>14, <1>15 DEF SessionNext, RefreshSteps, TokenSteps

LEMMA SessionStarts == SessionInit => IInv
<1> USE NoTokenAssumption DEF SessionInit, Made
<1>1. SessionInit => TInv
  BY DEF TInv, SessionTypeOK, RequestPlaces, Belongings, NewOnes, Claimed, Exchanging,
         Unspent, Ancestry
<1>2. SessionInit => OneLivePerSession /\ LogoutEndsSession
  BY DEF OneLivePerSession, LogoutEndsSession, Live, Redeeming
<1>3. SessionInit => Faultless /\ HeldTokensRedeemable
  BY DEF Faultless, HeldTokensRedeemable
<1> QED
  BY <1>1, <1>2, <1>3 DEF IInv, SInv, FInv

LEMMA SessionGoesOn == IInv /\ [SessionNext]_sessionVars => IInv'
BY TokensKeepPlace, LiveTokens, HeldTokens DEF IInv, SInv, FInv

THEOREM SessionInvariant == SessionSpec => []IInv
<1>1. SessionInit => IInv
  BY SessionStarts
<1>2. IInv /\ [SessionNext]_sessionVars => IInv'
  BY SessionGoesOn
<1> QED
  BY <1>1, <1>2, PTL DEF SessionSpec

-----------------------------------------------------------------------------
(* Every set names tokens that were made, every request is at a place of its  *)
(* handler.                                                                   *)
THEOREM SessionTypeCorrect == SessionSpec => []SessionTypeOK
<1>1. IInv => SessionTypeOK
  BY DEF IInv, SInv, TInv
<1> QED
  BY <1>1, SessionInvariant, PTL

(* Refresh tokens are single use: of one session at most one is live, be it   *)
(* in Redis, on its way there, or redeemed by the one request that will store *)
(* the next (RefreshToken, auth.go:154-176).                                  *)
THEOREM SessionsHaveOneToken == SessionSpec => []OneLivePerSession
<1>1. IInv => OneLivePerSession
  BY DEF IInv, SInv
<1> QED
  BY <1>1, SessionInvariant, PTL

(* A logout that deleted a token has ended its session for good, whatever     *)
(* refresh was under way (Logout, auth.go:200).                               *)
THEOREM LogoutIsFinal == SessionSpec => []LogoutEndsSession
<1>1. IInv => LogoutEndsSession
  BY DEF IInv, SInv
<1> QED
  BY <1>1, SessionInvariant, PTL

(* A token its holder has neither used, logged out nor let expire is good for *)
(* a refresh, or being used for one, unless a fault struck it.                *)
THEOREM HeldTokensAreGood == SessionSpec => []HeldTokensRedeemable
<1>1. IInv => HeldTokensRedeemable
  BY DEF IInv, FInv
<1> QED
  BY <1>1, SessionInvariant, PTL

-----------------------------------------------------------------------------
(* Only an answer and a logout that deletes are seen by the client. *)
LEMMA ClientSeesContract ==
  ASSUME IInv, [SessionNext]_sessionVars
  PROVE  [Contract!Next]_Contract!vars
<1> USE DEF IInv, SInv, TInv, SessionTypeOK, Made, Contract!Next, Contract!vars
<1>1. ASSUME NEW r \in Calls, Answer(r)
      PROVE  Contract!Next
  <2>1. /\ new[r] \in Jtis \ handed /\ handed' = handed \cup {new[r]} /\ revoked' = revoked
    BY <1>1 DEF Answer, Ends, Goes, Belongings
  <2>2. CASE tok[r] = NoToken
    BY <1>1, <2>1, <2>2 DEF Answer, Contract!Grant
  <2>3. CASE tok[r] # NoToken
    <3>1. tok[r] \in handed \ revoked /\ successor[tok[r]] = NoToken
      BY <1>1, <2>3 DEF Answer, Ends, Goes, Belongings, Claimed, Exchanging
    <3>2. Contract!Exchange(tok[r], new[r])
      BY <1>1, <2>1, <2>3, <3>1 DEF Answer, Contract!Exchange
    <3> QED
      BY <2>1, <3>1, <3>2
  <2> QED
    BY <2>2, <2>3
<1>2. ASSUME NEW t \in Jtis, Logout(t)
      PROVE  [Contract!Next]_Contract!vars
  <2>1. CASE t \in store /\ revoked' # revoked
    BY <1>2, <2>1 DEF Logout, Unspent, Contract!Revoke
  <2>2. CASE revoked' = revoked
    BY <1>2, <2>2 DEF Logout
  <2> QED
    BY <1>2, <2>1, <2>2 DEF Logout
<1>3. ASSUME NEW r \in Calls, LoginStores(r) \/ RefreshSteps(r) \/ Crash(r)
      PROVE  UNCHANGED <<handed, successor, revoked>>
  BY <1>3 DEF LoginStores, RefreshSteps, TurnedAway, RefreshStarts, Redeem, Unredeemed,
              RefreshStores, RefreshFails, Crash, sessionVars, clientVars
<1>4. ASSUME NEW t \in Jtis, LateSet(t) \/ LateDel(t) \/ TokenExpires(t) \/ JtiExpires(t)
      PROVE  UNCHANGED <<handed, successor, revoked>>
  BY <1>4 DEF LateSet, LateDel, TokenExpires, JtiExpires, clientVars
<1>5. CASE UNCHANGED sessionVars
  BY <1>5 DEF sessionVars, clientVars
<1> QED
  BY <1>1, <1>2, <1>3, <1>4, <1>5 DEF SessionNext, TokenSteps

(* The handlers, with Redis failing at any point, implement TokenContract: a  *)
(* token brings at most one successor, a new one, and none after a logout.    *)
THEOREM SessionKeepsContract == SessionSpec => KeepsContract
<1>1. SessionInit => Contract!Init
  BY DEF SessionInit, Contract!Init
<1>2. IInv /\ [SessionNext]_sessionVars => [Contract!Next]_Contract!vars
  BY ClientSeesContract
<1> QED
  BY <1>1, <1>2, SessionInvariant, PTL DEF SessionSpec, KeepsContract, Contract!Spec
===============================================================================

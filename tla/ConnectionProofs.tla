--------------------------- MODULE ConnectionProofs ---------------------------
(***************************************************************************)
(* Proofs about CalendarConnection for any number of requests and OAuth    *)
(* states.                                                                 *)
(***************************************************************************)
EXTENDS CalendarConnection, TLAPS

(* Who holds the row's lock has credentials and awaits Google, and a       *)
(* refresh is never awaited without the lock.                              *)
LockIsForAwaits ==
  \A r \in Request :
    /\ lock = r => request[r].pc \in {"refreshing", "calling"}
    /\ request[r].pc = "refreshing" => lock = r

(* Credentials come from a row that was active when it was loaded.         *)
CredentialsAreActive ==
  \A r \in Request :
    request[r].pc \in {"refreshing", "calling"} => request[r].seen.status = "active"

(* The state of a callback is marked before the callback goes on.          *)
StatesAreSpent ==
  \A r \in Request :
    /\ request[r].pc = "idle" => request[r].state = NoState
    /\ request[r].state # NoState => oauth[request[r].state] = "consumed"

Inv ==
  /\ ConnectionTypeOK
  /\ LockIsForAwaits
  /\ LockedRowIsCurrent
  /\ CredentialsAreActive
  /\ StatesAreSpent
  /\ StateGrantsOnce

-----------------------------------------------------------------------------
(* A commit leaves a row of the right type.                                *)
LEMMA CommitIsRow ==
  ASSUME row \in Row, NEW new \in Row, NEW F \in SUBSET {"status", "access", "refresh"}
  PROVE  Updated([f \in F |-> new[f]]) \in Row
  BY DEF Updated, Row

LEMMA InitInv == ConnectionInit => Inv
  BY NoRequestAssumption, NoStateAssumption
  DEF ConnectionInit, Inv, ConnectionTypeOK, LockIsForAwaits, LockedRowIsCurrent,
      CredentialsAreActive, StatesAreSpent, StateGrantsOnce, RequestState, Row,
      NoRow, Kind, Token, CalendarConnectionStatus

(* A request that has nothing more to do with the row.                     *)
LEMMA EndStep ==
  ASSUME Inv, NEW r \in Request, End(r), waiting' = waiting
  PROVE  Inv'
<1> USE DEF Inv
<1>1. ConnectionTypeOK'
  BY DEF End, Released, ConnectionTypeOK, RequestState
<1>2. \A q \in Request :
        /\ request'[q].seen = request[q].seen
        /\ request'[q].forced = request[q].forced
        /\ request'[q].state = request[q].state
        /\ request'[q].pc = IF q = r THEN "done" ELSE request[q].pc
  BY DEF End, ConnectionTypeOK, RequestState
<1>3. LockIsForAwaits'
  BY <1>2, NoRequestAssumption DEF End, Released, LockIsForAwaits
<1>4. LockedRowIsCurrent'
  BY <1>2, NoRequestAssumption DEF End, Released, LockedRowIsCurrent
<1>5. CredentialsAreActive'
  BY <1>2 DEF CredentialsAreActive
<1>6. StatesAreSpent' /\ StateGrantsOnce'
  BY <1>2 DEF End, StatesAreSpent, StateGrantsOnce
<1> QED
  BY <1>1, <1>3, <1>4, <1>5, <1>6

LEMMA ExpireStep ==
  ASSUME Inv, NEW r \in Request, NEW kind \in Kind, NEW loaded \in Row, Free(r),
         ExpireConnection(r, kind, loaded), waiting' = waiting
  PROVE  Inv'
<1> USE DEF Inv
<1>1. Expired(loaded) \in Row
  BY DEF Expired, Row, Token, CalendarConnectionStatus
<1>2. row' \in Row
  <2>1. DOMAIN Differences(loaded, Expired(loaded)) \subseteq {"status", "access", "refresh"}
    BY <1>1 DEF Differences, Row
  <2> QED
    BY <1>1, <2>1, CommitIsRow DEF ExpireConnection, Differences, ConnectionTypeOK
<1>3. ConnectionTypeOK'
  BY <1>1, <1>2 DEF ExpireConnection, Released, ConnectionTypeOK, RequestState
<1>4. \A q \in Request :
        /\ request'[q].seen = IF q = r THEN Expired(loaded) ELSE request[q].seen
        /\ request'[q].forced = request[q].forced
        /\ request'[q].state = request[q].state
        /\ request'[q].pc = IF q = r THEN "done" ELSE request[q].pc
  BY DEF ExpireConnection, ConnectionTypeOK, RequestState
<1>5. lock' = NoRequest
  BY DEF ExpireConnection, Released, Free
<1>6. LockIsForAwaits' /\ LockedRowIsCurrent'
  BY <1>4, <1>5, NoRequestAssumption DEF Free, LockIsForAwaits, LockedRowIsCurrent
<1>7. CredentialsAreActive'
  BY <1>4 DEF CredentialsAreActive
<1>8. StatesAreSpent' /\ StateGrantsOnce'
  BY <1>4 DEF ExpireConnection, StatesAreSpent, StateGrantsOnce
<1> QED
  BY <1>3, <1>6, <1>7, <1>8

LEMMA CredentialsStep ==
  ASSUME Inv, NEW r \in Request, NEW kind \in Kind, NEW loaded \in Row,
         NEW force \in BOOLEAN, force \/ loaded = row,
         Credentials(r, kind, loaded, force), waiting' = waiting
  PROVE  Inv'
<1> USE DEF Inv
<1>1. PICK pc \in {"calling", "refreshing"} :
        /\ request' = [request EXCEPT ![r] =
             [@ EXCEPT !.kind = kind, !.pc = pc, !.seen = loaded, !.forced = force]]
        /\ lock' = IF pc = "calling" /\ kind = "pull" THEN Released(r) ELSE r
  BY DEF Credentials
<1>2. ConnectionTypeOK'
  <2>1. request[r] \in RequestState
    BY DEF ConnectionTypeOK
  <2>2. [request[r] EXCEPT !.kind = kind, !.pc = pc, !.seen = loaded, !.forced = force]
          \in RequestState
    BY <2>1 DEF RequestState
  <2>3. request' \in [Request -> RequestState]
    BY <1>1, <2>2 DEF ConnectionTypeOK
  <2>4. lock' \in Request \cup {NoRequest} /\ UNCHANGED <<row, oauth>>
    BY <1>1 DEF Credentials, Released, ConnectionTypeOK
  <2> QED
    BY <2>3, <2>4 DEF ConnectionTypeOK
<1>3. \A q \in Request :
        /\ request'[q].seen = IF q = r THEN loaded ELSE request[q].seen
        /\ request'[q].forced = IF q = r THEN force ELSE request[q].forced
        /\ request'[q].state = request[q].state
        /\ request'[q].pc = IF q = r THEN pc ELSE request[q].pc
  BY <1>1 DEF ConnectionTypeOK, RequestState
<1>4. lock' \in {NoRequest, r} /\ (pc = "refreshing" => lock' = r)
  BY <1>1 DEF Credentials, Free, Released
<1>5. LockIsForAwaits'
  BY <1>3, <1>4, NoRequestAssumption DEF Credentials, Free, LockIsForAwaits
<1>6. LockedRowIsCurrent'
  BY <1>3, <1>4, NoRequestAssumption DEF Credentials, LockedRowIsCurrent
<1>7. CredentialsAreActive'
  BY <1>3 DEF Credentials, CredentialsAreActive
<1>8. StatesAreSpent' /\ StateGrantsOnce'
  BY <1>3 DEF Credentials, StatesAreSpent, StateGrantsOnce
<1> QED
  BY <1>2, <1>5, <1>6, <1>7, <1>8

LEMMA RevokeStep ==
  ASSUME Inv, NEW r \in Request, NEW loaded \in Row,
         request[r].pc \in {"idle", "revoking"},
         Revoke(r, loaded), waiting' = waiting
  PROVE  Inv'
<1> USE DEF Inv
<1>1. Revoked(loaded) \in Row
  BY DEF Revoked, Row, Token, CalendarConnectionStatus
<1>2. row' \in Row
  <2>1. DOMAIN Differences(loaded, Revoked(loaded)) \subseteq {"status", "access", "refresh"}
    BY <1>1 DEF Differences, Row
  <2> QED
    BY <1>1, <2>1, CommitIsRow DEF Revoke, Differences, ConnectionTypeOK
<1>3. ConnectionTypeOK'
  BY <1>1, <1>2 DEF Revoke, ConnectionTypeOK, RequestState, Kind
<1>4. \A q \in Request :
        /\ request'[q].seen = IF q = r THEN Revoked(loaded) ELSE request[q].seen
        /\ request'[q].forced = request[q].forced
        /\ request'[q].state = request[q].state
        /\ request'[q].pc = IF q = r THEN "done" ELSE request[q].pc
  BY DEF Revoke, ConnectionTypeOK, RequestState
<1>5. lock = NoRequest /\ lock' = NoRequest
  BY DEF Revoke, Free, LockIsForAwaits
<1>6. LockIsForAwaits' /\ LockedRowIsCurrent'
  BY <1>4, <1>5, NoRequestAssumption DEF LockIsForAwaits, LockedRowIsCurrent
<1>7. CredentialsAreActive'
  BY <1>4 DEF CredentialsAreActive
<1>8. StatesAreSpent' /\ StateGrantsOnce'
  BY <1>4 DEF Revoke, StatesAreSpent, StateGrantsOnce
<1> QED
  BY <1>3, <1>6, <1>7, <1>8

(* Asking for credentials, whether they are given or not.                  *)
LEMMA AskingStep ==
  ASSUME Inv, NEW r \in Request, NEW kind \in Kind, NEW loaded \in Row,
         NEW force \in BOOLEAN, force \/ loaded = row,
         Credentials(r, kind, loaded, force) \/ NoCredentials(r, kind, loaded),
         waiting' = waiting
  PROVE  Inv'
  BY CredentialsStep, ExpireStep, EndStep DEF NoCredentials

LEMMA RefreshStep ==
  ASSUME Inv, NEW r \in Request, RefreshAnswers(r), waiting' = waiting
  PROVE  Inv'
<1> USE DEF Inv
<1> DEFINE seen == request[r].seen
<1>1. seen \in Row /\ request[r].kind \in Kind
  BY DEF ConnectionTypeOK, RequestState
<1>2. CASE \E rotated \in BOOLEAN :
          /\ row' = Updated([f \in DOMAIN Differences(seen, Refreshed(seen))
                                    \cup {"access"} \cup {x \in {"refresh"} : rotated}
                               |-> Refreshed(seen)[f]])
          /\ request' = [request EXCEPT ![r] =
               [@ EXCEPT !.pc = "calling", !.seen = Refreshed(seen)]]
          /\ lock' = Released(r)
          /\ UNCHANGED oauth
  <2>1. Refreshed(seen) \in Row
    BY <1>1 DEF Refreshed, Row, CalendarConnectionStatus
  <2>2. row' \in Row
    <3>1. DOMAIN Differences(seen, Refreshed(seen)) \subseteq {"status", "access", "refresh"}
      BY <2>1 DEF Differences, Row
    <3> QED
      BY <1>2, <2>1, <3>1, CommitIsRow DEF ConnectionTypeOK
  <2>3. ConnectionTypeOK'
    BY <1>2, <2>1, <2>2 DEF Released, ConnectionTypeOK, RequestState
  <2>4. \A q \in Request :
          /\ request'[q].seen = IF q = r THEN Refreshed(seen) ELSE request[q].seen
          /\ request'[q].forced = request[q].forced
          /\ request'[q].state = request[q].state
          /\ request'[q].pc = IF q = r THEN "calling" ELSE request[q].pc
    BY <1>2 DEF ConnectionTypeOK, RequestState
  <2>5. lock = r /\ lock' = NoRequest
    BY <1>2 DEF RefreshAnswers, Released, LockIsForAwaits
  <2>6. LockIsForAwaits' /\ LockedRowIsCurrent'
    BY <2>4, <2>5, NoRequestAssumption DEF LockIsForAwaits, LockedRowIsCurrent
  <2>7. CredentialsAreActive'
    BY <1>1, <2>4 DEF CredentialsAreActive, Refreshed, Row
  <2>8. StatesAreSpent' /\ StateGrantsOnce'
    BY <1>2, <2>4 DEF RefreshAnswers, StatesAreSpent, StateGrantsOnce
  <2> QED
    BY <2>3, <2>6, <2>7, <2>8
<1>3. CASE ExpireConnection(r, request[r].kind, seen)
  BY <1>1, <1>3, ExpireStep DEF RefreshAnswers
<1>4. CASE End(r)
  BY <1>4, EndStep
<1> QED
  BY <1>2, <1>3, <1>4 DEF RefreshAnswers

LEMMA CallbackStep ==
  ASSUME Inv, NEW r \in Request, waiting' = waiting,
         (\E s \in State : ConsumeOAuthState(r, s)) \/ StoreConnection(r)
  PROVE  Inv'
<1> USE DEF Inv
<1>1. ASSUME NEW s \in State, ConsumeOAuthState(r, s)
      PROVE  Inv'
  <2>1. ConnectionTypeOK'
    BY <1>1 DEF ConsumeOAuthState, ConnectionTypeOK, RequestState, Kind, Token
  <2>2. \A q \in Request :
          /\ request'[q].seen = request[q].seen
          /\ request'[q].forced = request[q].forced
          /\ request'[q].state = IF q = r THEN s ELSE request[q].state
          /\ request'[q].pc = IF q = r THEN "exchanging" ELSE request[q].pc
    BY <1>1 DEF ConsumeOAuthState, ConnectionTypeOK, RequestState
  <2>3. /\ oauth[s] = "issued" /\ oauth'[s] = "consumed"
        /\ \A x \in State : oauth[x] = "consumed" => oauth'[x] = "consumed"
    BY <1>1 DEF ConsumeOAuthState, ConnectionTypeOK
  <2>4. \A q \in Request : request[q].state # s
    BY <1>1, <2>3, NoStateAssumption DEF StatesAreSpent
  <2>5. LockIsForAwaits' /\ LockedRowIsCurrent' /\ CredentialsAreActive'
    <3>1. lock # r
      BY <1>1 DEF ConsumeOAuthState, LockIsForAwaits
    <3>2. lock' = lock /\ row' = row
      BY <1>1 DEF ConsumeOAuthState
    <3>3. LockIsForAwaits'
      BY <2>2, <3>1, <3>2 DEF LockIsForAwaits
    <3>4. LockedRowIsCurrent'
      BY <2>2, <3>1, <3>2 DEF LockedRowIsCurrent
    <3>5. CredentialsAreActive'
      BY <2>2 DEF CredentialsAreActive
    <3> QED
      BY <3>3, <3>4, <3>5
  <2>6. StatesAreSpent'
    BY <1>1, <2>2, <2>3, NoStateAssumption
    DEF StatesAreSpent, ConnectionTypeOK, RequestState, Token
  <2>7. StateGrantsOnce'
    BY <2>2, <2>4 DEF StateGrantsOnce
  <2> QED
    BY <2>1, <2>5, <2>6, <2>7
<1>2. CASE StoreConnection(r)
  <2>1. PICK refresh \in {request[r].state, row.refresh} :
          /\ row' = [status |-> "active", access |-> request[r].state,
                     refresh |-> refresh]
          /\ request' = [request EXCEPT ![r] =
               [@ EXCEPT !.kind = "read", !.pc = "calling", !.seen = row']]
    BY <1>2 DEF StoreConnection
  <2>2. row' \in Row
    BY <2>1 DEF ConnectionTypeOK, RequestState, Row, CalendarConnectionStatus
  <2>3. ConnectionTypeOK'
    <3>1. request[r] \in RequestState
      BY DEF ConnectionTypeOK
    <3>2. [request[r] EXCEPT !.kind = "read", !.pc = "calling", !.seen = row']
            \in RequestState
      BY <2>2, <3>1 DEF RequestState, Kind
    <3>3. request' \in [Request -> RequestState]
      BY <2>1, <3>2 DEF ConnectionTypeOK
    <3>4. /\ lock' \in Request \cup {NoRequest}
          /\ oauth' = oauth
      BY <1>2 DEF StoreConnection
    <3> QED
      BY <2>2, <3>3, <3>4 DEF ConnectionTypeOK
  <2>4. \A q \in Request :
          /\ request'[q].seen = IF q = r THEN row' ELSE request[q].seen
          /\ request'[q].forced = request[q].forced
          /\ request'[q].state = request[q].state
          /\ request'[q].pc = IF q = r THEN "calling" ELSE request[q].pc
    BY <2>1 DEF ConnectionTypeOK, RequestState
  <2>5. lock \in {NoRequest, r} /\ lock' = r
    BY <1>2 DEF StoreConnection, Free
  <2>6. LockIsForAwaits' /\ LockedRowIsCurrent'
    BY <2>4, <2>5, NoRequestAssumption DEF LockIsForAwaits, LockedRowIsCurrent
  <2>7. CredentialsAreActive'
    BY <2>1, <2>4 DEF CredentialsAreActive
  <2>8. StatesAreSpent' /\ StateGrantsOnce'
    BY <1>2, <2>4 DEF StoreConnection, StatesAreSpent, StateGrantsOnce
  <2> QED
    BY <2>3, <2>6, <2>7, <2>8
<1> QED
  BY <1>1, <1>2

LEMMA DisconnectStep ==
  ASSUME Inv, NEW r \in Request, Disconnect(r) \/ RevocationAnswers(r),
         waiting' = waiting
  PROVE  Inv'
<1> USE DEF Inv
<1>1. row \in Row /\ request[r].seen \in Row
  BY DEF ConnectionTypeOK, RequestState
<1>2. CASE Revoke(r, row) /\ request[r].pc = "idle"
  BY <1>1, <1>2, RevokeStep
<1>3. CASE RevocationAnswers(r)
  BY <1>1, <1>3, RevokeStep DEF RevocationAnswers
<1>4. CASE /\ request[r].pc = "idle"
           /\ request' = [request EXCEPT ![r] =
                [@ EXCEPT !.kind = "disconnect", !.pc = "revoking", !.seen = row]]
           /\ UNCHANGED <<row, oauth, lock>>
  <2>1. ConnectionTypeOK'
    BY <1>1, <1>4 DEF ConnectionTypeOK, RequestState, Kind
  <2>2. \A q \in Request :
          /\ request'[q].seen = IF q = r THEN row ELSE request[q].seen
          /\ request'[q].forced = request[q].forced
          /\ request'[q].state = request[q].state
          /\ request'[q].pc = IF q = r THEN "revoking" ELSE request[q].pc
    BY <1>4 DEF ConnectionTypeOK, RequestState
  <2>3. LockIsForAwaits' /\ LockedRowIsCurrent' /\ CredentialsAreActive'
    BY <1>4, <2>2 DEF LockIsForAwaits, LockedRowIsCurrent, CredentialsAreActive
  <2>4. StatesAreSpent' /\ StateGrantsOnce'
    BY <1>4, <2>2 DEF StatesAreSpent, StateGrantsOnce
  <2> QED
    BY <2>1, <2>3, <2>4
<1> QED
  BY <1>2, <1>3, <1>4 DEF Disconnect

LEMMA BeginStep ==
  ASSUME Inv, NEW r \in Request, Begin(r), waiting' = waiting
  PROVE  Inv'
<1>1. row \in Row
  BY DEF Inv, ConnectionTypeOK
<1>2. CASE \E kind \in {"read", "view", "pull"} : Load(r, kind)
  BY <1>1, <1>2, AskingStep DEF Load, Kind
<1> QED
  BY <1>2, DisconnectStep, CallbackStep DEF Begin

LEMMA ContinueStep ==
  ASSUME Inv, NEW r \in Request, Continue(r), waiting' = waiting
  PROVE  Inv'
<1>1. request[r].seen \in Row /\ request[r].kind \in Kind
  BY DEF Inv, ConnectionTypeOK, RequestState
<1>2. CASE ProviderAnswers(r) \/ ProviderFails(r) \/ ExchangeFails(r)
  BY <1>2, EndStep DEF ProviderAnswers, ProviderFails, ExchangeFails
<1>3. CASE Unauthorized(r)
  BY <1>1, <1>3, AskingStep, ExpireStep, EndStep DEF Unauthorized
<1> QED
  BY <1>2, <1>3, RefreshStep, DisconnectStep, CallbackStep DEF Continue

(* What does not touch the row or a running request, and a restart, which  *)
(* leaves nobody with the lock.                                            *)
LEMMA OutsideStep ==
  ASSUME Inv,
         \/ waiting' = waiting
            /\ \E s \in State : CreateOAuthState(s) \/ OAuthStateExpires(s)
         \/ \E r \in Request : Wait(r)
         \/ Restart
         \/ UNCHANGED connectionVars
  PROVE  Inv'
<1> USE DEF Inv
<1>1. ASSUME NEW s \in State, CreateOAuthState(s) \/ OAuthStateExpires(s),
             waiting' = waiting
      PROVE  Inv'
  <2>1. ConnectionTypeOK'
    BY <1>1 DEF CreateOAuthState, OAuthStateExpires, ConnectionTypeOK
  <2>2. \A x \in State : oauth[x] = "consumed" => oauth'[x] = "consumed"
    BY <1>1 DEF CreateOAuthState, OAuthStateExpires, ConnectionTypeOK
  <2>3. request' = request /\ row' = row /\ lock' = lock
    BY <1>1 DEF CreateOAuthState, OAuthStateExpires
  <2>4. StatesAreSpent'
    BY <2>2, <2>3 DEF StatesAreSpent, ConnectionTypeOK, RequestState, Token
  <2> QED
    BY <2>1, <2>3, <2>4 DEF LockIsForAwaits, LockedRowIsCurrent, CredentialsAreActive,
                            StateGrantsOnce
<1>2. ASSUME NEW r \in Request, Wait(r)
      PROVE  Inv'
  BY <1>2 DEF Wait, ConnectionTypeOK, LockIsForAwaits, LockedRowIsCurrent,
              CredentialsAreActive, StatesAreSpent, StateGrantsOnce
<1>3. CASE Restart
  <2>1. ConnectionTypeOK'
    BY <1>3 DEF Restart, ConnectionTypeOK, RequestState
  <2>2. \A q \in Request :
          /\ request'[q].state = request[q].state
          /\ request'[q].pc \in {"idle", "done"}
          /\ request'[q].pc = "idle" => request[q].pc = "idle"
    BY <1>3 DEF Restart, ConnectionTypeOK, RequestState
  <2>3. LockIsForAwaits' /\ LockedRowIsCurrent' /\ CredentialsAreActive'
    BY <1>3, <2>2, NoRequestAssumption
    DEF Restart, LockIsForAwaits, LockedRowIsCurrent, CredentialsAreActive
  <2>4. StatesAreSpent' /\ StateGrantsOnce'
    BY <1>3, <2>2 DEF Restart, StatesAreSpent, StateGrantsOnce
  <2> QED
    BY <2>1, <2>3, <2>4
<1>4. CASE UNCHANGED connectionVars
  BY <1>4 DEF connectionVars, ConnectionTypeOK, LockIsForAwaits, LockedRowIsCurrent,
              CredentialsAreActive, StatesAreSpent, StateGrantsOnce
<1> QED
  BY <1>1, <1>2, <1>3, <1>4

LEMMA StepInv == Inv /\ [ConnectionNext]_connectionVars => Inv'
  BY BeginStep, ContinueStep, OutsideStep DEF ConnectionNext

LEMMA SpecInv == ConnectionSpec => []Inv
  BY InitInv, StepInv, PTL DEF ConnectionSpec

-----------------------------------------------------------------------------
(* A commit changes the status only if the request changed what it loaded. *)
LEMMA CommitStatus ==
  ASSUME row \in Row, NEW new \in Row, NEW F \in SUBSET {"status", "access", "refresh"}
  PROVE  Updated([f \in F |-> new[f]]).status
           = IF "status" \in F THEN new.status ELSE row.status
  BY DEF Updated, Row

(* Expiry and disconnection never write the status active.                 *)
LEMMA DeactivationStep ==
  ASSUME row \in Row, NEW loaded \in Row,
         NEW new \in {Expired(loaded), Revoked(loaded)},
         row' = Updated(Differences(loaded, new))
  PROVE  row'.status = row.status \/ row'.status # "active"
<1>1. new \in Row /\ new.status # "active"
  <2>1. CASE new = Expired(loaded)
    BY <2>1 DEF Expired, Row, Token, CalendarConnectionStatus
  <2>2. CASE new = Revoked(loaded)
    BY <2>2 DEF Revoked, Row, Token, CalendarConnectionStatus
  <2> QED
    BY <2>1, <2>2
<1> DEFINE F == {f \in DOMAIN new : new[f] # loaded[f]}
<1>2. F \subseteq {"status", "access", "refresh"}
  BY <1>1 DEF Row
<1>3. row'.status = IF "status" \in F THEN new.status ELSE row.status
  BY <1>1, <1>2, CommitStatus DEF Differences
<1> QED
  BY <1>1, <1>3

LEMMA RefreshKeepsStatus ==
  ASSUME Inv, NEW r \in Request, NEW rotated \in BOOLEAN, request[r].pc = "refreshing",
         row' = Updated([f \in DOMAIN Differences(request[r].seen,
                                                  Refreshed(request[r].seen))
                                  \cup {"access"} \cup {x \in {"refresh"} : rotated}
                             |-> Refreshed(request[r].seen)[f]])
  PROVE  row'.status = row.status
<1> DEFINE seen == request[r].seen
<1>1. row \in Row /\ seen \in Row /\ seen.status = "active"
  BY DEF Inv, ConnectionTypeOK, RequestState, CredentialsAreActive
<1> DEFINE new == Refreshed(seen)
<1>2. new \in Row /\ new.status = seen.status
  BY <1>1 DEF Refreshed, Row, CalendarConnectionStatus
<1> DEFINE F == DOMAIN Differences(seen, new)
                  \cup {"access"} \cup {x \in {"refresh"} : rotated}
<1>3. F \subseteq {"status", "access", "refresh"} /\ "status" \notin F
  BY <1>1, <1>2 DEF Differences, Row
<1>4. row' = Updated([f \in F |-> new[f]])
  OBVIOUS
<1> HIDE DEF F, new
<1>5. Updated([f \in F |-> new[f]]).status
        = IF "status" \in F THEN new.status ELSE row.status
  BY <1>1, <1>2, <1>3, CommitStatus
<1> QED
  BY <1>3, <1>4, <1>5

ConsentStep ==
  \/ row'.status = row.status
  \/ row'.status # "active"
  \/ \E r \in Request : request[r].pc = "exchanging" /\ request'[r].pc = "calling"

LEMMA BeginConsents ==
  ASSUME Inv, NEW r \in Request, Begin(r)
  PROVE  ConsentStep
<1>1. row \in Row /\ request[r].seen \in Row
  BY DEF Inv, ConnectionTypeOK, RequestState
<1>2. ASSUME NEW kind \in {"read", "view", "pull"}, Load(r, kind)
      PROVE  ConsentStep
  BY <1>1, <1>2, DeactivationStep
  DEF Load, Credentials, NoCredentials, End, ExpireConnection, ConsentStep
<1>3. CASE Disconnect(r)
  BY <1>1, <1>3, DeactivationStep DEF Disconnect, Revoke, ConsentStep
<1> QED
  BY <1>2, <1>3 DEF Begin, ConsumeOAuthState, ConsentStep

LEMMA ContinueConsents ==
  ASSUME Inv, NEW r \in Request, Continue(r)
  PROVE  ConsentStep
<1>1. row \in Row /\ request[r].seen \in Row
  BY DEF Inv, ConnectionTypeOK, RequestState
<1>2. CASE RefreshAnswers(r)
  BY <1>1, <1>2, RefreshKeepsStatus, DeactivationStep
  DEF RefreshAnswers, End, ExpireConnection, ConsentStep
<1>3. CASE ProviderAnswers(r) \/ ProviderFails(r) \/ ExchangeFails(r)
  BY <1>3 DEF ProviderAnswers, ProviderFails, ExchangeFails, End, ConsentStep
<1>4. CASE Unauthorized(r)
  BY <1>1, <1>4, DeactivationStep
  DEF Unauthorized, Credentials, NoCredentials, End, ExpireConnection, ConsentStep
<1>5. CASE RevocationAnswers(r)
  BY <1>1, <1>5, DeactivationStep DEF RevocationAnswers, Revoke, ConsentStep
<1>6. CASE StoreConnection(r)
  BY <1>6 DEF StoreConnection, ConsentStep, Inv, ConnectionTypeOK, RequestState
<1> QED
  BY <1>2, <1>3, <1>4, <1>5, <1>6 DEF Continue

LEMMA StepConsents == Inv /\ ConnectionNext => ConsentStep
  BY BeginConsents, ContinueConsents
  DEF ConnectionNext, CreateOAuthState, OAuthStateExpires, Wait, Restart, ConsentStep

-----------------------------------------------------------------------------
(* The connection row, the OAuth states and what requests hold always have *)
(* their types.                                                            *)
THEOREM ConnectionTypeCorrect == ConnectionSpec => []ConnectionTypeOK
<1>1. Inv => ConnectionTypeOK
  BY DEF Inv
<1> QED
  BY <1>1, SpecInv, PTL

(* A request that holds the lock for its first use of the token holds the  *)
(* row as it is, however many requests there are.                          *)
THEOREM LockedRowIsCurrentTheorem == ConnectionSpec => []LockedRowIsCurrent
<1>1. Inv => LockedRowIsCurrent
  BY DEF Inv
<1> QED
  BY <1>1, SpecInv, PTL

(* No two requests use the refresh token at once.                          *)
THEOREM OneRefreshAtATimeTheorem == ConnectionSpec => []OneRefreshAtATime
<1>1. Inv => OneRefreshAtATime
  BY DEF Inv, LockIsForAwaits, OneRefreshAtATime
<1> QED
  BY <1>1, SpecInv, PTL

(* No two callbacks come from one OAuth state, across restarts.            *)
THEOREM StateGrantsOnceTheorem == ConnectionSpec => []StateGrantsOnce
<1>1. Inv => StateGrantsOnce
  BY DEF Inv
<1> QED
  BY <1>1, SpecInv, PTL

(* A connection becomes active only by a callback: no request that goes on *)
(* with a row it loaded earlier undoes a disconnection or an expiry.       *)
THEOREM OnlyConsentActivatesTheorem == ConnectionSpec => OnlyConsentActivates
<1>1. Inv /\ [ConnectionNext]_connectionVars
        => [Activates => \E r \in Request : Stores(r)]_connectionVars
  BY StepConsents DEF ConsentStep, Activates, Stores
<1> QED
  BY <1>1, SpecInv, PTL DEF ConnectionSpec, OnlyConsentActivates
=============================================================================

-------------------------- MODULE CalendarConnection --------------------------
(***************************************************************************)
(* One Google connection (app/calendar_integration/service.py) and the     *)
(* requests that use its tokens.  Every request is a coroutine of one      *)
(* event loop; its database calls are synchronous.  A call that has to     *)
(* wait for the row lock of another coroutine therefore stops the loop,    *)
(* and with it the coroutine that would release the lock.                  *)
(*                                                                         *)
(* Selections, scopes and error codes are left out; a token is represented *)
(* by the OAuth state it was granted for.  A request works on the object   *)
(* it loaded: SELECT ... FOR UPDATE does not refresh it, and a commit      *)
(* writes the attributes that differ from the loaded ones.                 *)
(***************************************************************************)
EXTENDS Naturals, FiniteSets

CONSTANTS
  Request,    (* requests, each used once                                  *)
  State,      (* OAuth states                                              *)
  NoState,    (* no state, no token                                        *)
  NoRequest

ASSUME NoStateAssumption == NoState \notin State
ASSUME NoRequestAssumption == NoRequest \notin Request

VARIABLES
  row,        (* calendar_connections: status, access and refresh token    *)
  oauth,      (* calendar_oauth_states                                     *)
  request,    (* what each request holds: see RequestState                 *)
  lock,       (* the request that holds the row's lock                     *)
  waiting     (* the request in whose database call the loop is stuck      *)

connectionVars == <<row, oauth, request, lock, waiting>>

Token == State \cup {NoState}

CalendarConnectionStatus == {"active", "expired", "revoked", "error"}

Row == [status : CalendarConnectionStatus \cup {"absent"},
        access : Token, refresh : Token]

NoRow == [status |-> "absent", access |-> NoState, refresh |-> NoState]

(* "read" stands for FreeBusy and the list of calendars, "view" for a day  *)
(* view of one calendar, which never expires a connection over a 401.      *)
Kind == {"read", "view", "pull", "disconnect", "callback"}

(* seen is the row as loaded and changed by the request, forced tells that *)
(* it has answered a 401 with a refresh, state is a callback's.            *)
RequestState ==
  [kind : Kind, pc : {"idle", "exchanging", "refreshing", "calling", "revoking", "done"},
   seen : Row, forced : BOOLEAN, state : Token]

-----------------------------------------------------------------------------
Differences_All(loaded, new) == new

Differences(loaded, new) ==
  [f \in {g \in DOMAIN new : new[g] # loaded[g]} |-> new[f]]

Updated(changes) ==
  [f \in DOMAIN row |-> IF f \in DOMAIN changes THEN changes[f] ELSE row[f]]

Free_NoWait(r) == TRUE

(* The row can be read for update or written without a wait.               *)
Free(r) == lock \in {NoRequest, r}

Released(r) == IF lock = r THEN NoRequest ELSE lock

Refreshed(loaded) ==
  [loaded EXCEPT !.status = "active", !.access = loaded.refresh]

Expired(loaded) == [loaded EXCEPT !.status = "expired", !.access = NoState]

(* Ends the request with the row unchanged.                                *)
End(r) ==
  /\ request' = [request EXCEPT ![r].pc = "done"]
  /\ lock' = Released(r)
  /\ UNCHANGED <<row, oauth>>

(* _expire_connection, after which the request answers 409.                *)
ExpireConnection(r, kind, loaded) ==
  /\ row' = Updated(Differences(loaded, Expired(loaded)))
  /\ request' = [request EXCEPT ![r] = [@ EXCEPT !.kind = kind, !.pc = "done",
                                                 !.seen = Expired(loaded)]]
  /\ lock' = Released(r)
  /\ UNCHANGED oauth

(* connection_credentials up to its await: the lock, the status, and a     *)
(* refresh unless the access token is still valid, which time decides.     *)
(* A pull commits before it calls Google, other requests keep the lock.    *)
Credentials(r, kind, loaded, force) ==
  /\ Free(r)
  /\ loaded.status = "active"
  /\ \E pc \in {"calling", "refreshing"} :
       /\ pc = "calling" => ~ force /\ loaded.access # NoState
       /\ pc = "refreshing" => loaded.refresh # NoState
       /\ request' = [request EXCEPT ![r] =
            [@ EXCEPT !.kind = kind, !.pc = pc, !.seen = loaded, !.forced = force]]
       /\ lock' = IF pc = "calling" /\ kind = "pull" THEN Released(r) ELSE r
  /\ UNCHANGED <<row, oauth>>

(* Its early ends: the connection is not active, or cannot be refreshed.   *)
NoCredentials(r, kind, loaded) ==
  /\ Free(r)
  /\ \/ loaded.status # "active" /\ End(r)
     \/ /\ loaded.status = "active" /\ loaded.refresh = NoState
        /\ ExpireConnection(r, kind, loaded)

-----------------------------------------------------------------------------
ConnectionInit ==
  /\ \/ row = NoRow /\ oauth = [s \in State |-> "unused"]
     \/ \E s \in State : \E granted \in {s, NoState} :
          /\ row = [status |-> "active", access |-> s, refresh |-> granted]
          /\ oauth = [x \in State |-> IF x = s THEN "consumed" ELSE "unused"]
  /\ request = [r \in Request |->
       [kind |-> "read", pc |-> "idle", seen |-> NoRow, forced |-> FALSE,
        state |-> NoState]]
  /\ lock = NoRequest
  /\ waiting = NoRequest

(* create_oauth_state; time may run out.                                   *)
CreateOAuthState(s) ==
  /\ oauth[s] = "unused"
  /\ oauth' = [oauth EXCEPT ![s] = "issued"]
  /\ UNCHANGED <<row, request, lock>>

OAuthStateExpires(s) ==
  /\ oauth[s] = "issued"
  /\ oauth' = [oauth EXCEPT ![s] = "expired"]
  /\ UNCHANGED <<row, request, lock>>

(* A request that reads calendars or an event loads the row and asks for   *)
(* credentials.                                                            *)
Load(r, kind) ==
  /\ request[r].pc = "idle"
  /\ row.status # "absent"
  /\ \/ Credentials(r, kind, row, FALSE)
     \/ NoCredentials(r, kind, row)

(* Google answers a refresh with tokens, of which the refresh token may be *)
(* new, with invalid_grant, or with an error.                              *)
RefreshAnswers(r) ==
  /\ request[r].pc = "refreshing"
  /\ Free(r)
  /\ \/ LET seen == request[r].seen IN
        \E rotated \in BOOLEAN :
          /\ row' = Updated([f \in DOMAIN Differences(seen, Refreshed(seen))
                                    \cup {"access"} \cup {x \in {"refresh"} : rotated}
                               |-> Refreshed(seen)[f]])
          /\ request' = [request EXCEPT ![r] =
               [@ EXCEPT !.pc = "calling", !.seen = Refreshed(seen)]]
          /\ lock' = Released(r)
          /\ UNCHANGED oauth
     \/ ExpireConnection(r, request[r].kind, request[r].seen)
     \/ End(r)

(* The provider accepts the token: a read then writes the time of its last *)
(* success, a pull or a view is done with the connection.                  *)
ProviderAnswers(r) ==
  /\ request[r].pc = "calling"
  /\ request[r].kind \in {"pull", "view"} \/ Free(r)
  /\ End(r)

(* An error that is not about the token.                                   *)
ProviderFails(r) ==
  /\ request[r].pc = "calling"
  /\ End(r)

(* The first 401 leads to one refresh, the second one expires the          *)
(* connection of a read, and is an error of a pull's or a view's.          *)
Unauthorized_EveryTime(r) ==
  /\ request[r].pc = "calling"
  /\ \/ Credentials(r, request[r].kind, request[r].seen, TRUE)
     \/ NoCredentials(r, request[r].kind, request[r].seen)

Unauthorized(r) ==
  /\ request[r].pc = "calling"
  /\ \/ /\ ~ request[r].forced
        /\ \/ Credentials(r, request[r].kind, request[r].seen, TRUE)
           \/ NoCredentials(r, request[r].kind, request[r].seen)
     \/ /\ request[r].forced /\ request[r].kind = "read" /\ Free(r)
        /\ ExpireConnection(r, "read", request[r].seen)
     \/ /\ request[r].forced /\ request[r].kind \in {"pull", "view"}
        /\ End(r)

-----------------------------------------------------------------------------
(* disconnect_connection: without a lock it loads the row, awaits Google's *)
(* revocation, and writes.                                                 *)
Revoked(loaded) ==
  [status |-> "revoked", access |-> NoState, refresh |-> NoState]

Revoke(r, loaded) ==
  /\ Free(r)
  /\ row' = Updated(Differences(loaded, Revoked(loaded)))
  /\ request' = [request EXCEPT ![r] =
       [@ EXCEPT !.kind = "disconnect", !.pc = "done", !.seen = Revoked(loaded)]]
  /\ UNCHANGED <<oauth, lock>>

Disconnect(r) ==
  /\ request[r].pc = "idle"
  /\ row.status # "absent"
  /\ IF row.access = NoState /\ row.refresh = NoState
     THEN Revoke(r, row)
     ELSE /\ request' = [request EXCEPT ![r] =
               [@ EXCEPT !.kind = "disconnect", !.pc = "revoking", !.seen = row]]
          /\ UNCHANGED <<row, oauth, lock>>

(* Whether Google revoked the token or not.                                *)
RevocationAnswers(r) ==
  /\ request[r].pc = "revoking"
  /\ Revoke(r, request[r].seen)

-----------------------------------------------------------------------------
(* oauth_callback: consume_oauth_state, then the code is exchanged and the *)
(* account looked up, then store_google_connection and a list of calendars.*)
ConsumeOAuthState_NotMarked(r, s) ==
  /\ request[r].pc = "idle"
  /\ oauth[s] = "issued"
  /\ request' = [request EXCEPT ![r] =
       [@ EXCEPT !.kind = "callback", !.pc = "exchanging", !.state = s]]
  /\ UNCHANGED <<row, oauth, lock>>

ConsumeOAuthState(r, s) ==
  /\ request[r].pc = "idle"
  /\ oauth[s] = "issued"
  /\ oauth' = [oauth EXCEPT ![s] = "consumed"]
  /\ request' = [request EXCEPT ![r] =
       [@ EXCEPT !.kind = "callback", !.pc = "exchanging", !.state = s]]
  /\ UNCHANGED <<row, lock>>

(* The connection is stored, with or without a new refresh token, and the  *)
(* same stretch of the coroutine locks it again to list its calendars.     *)
StoreConnection(r) ==
  /\ request[r].pc = "exchanging"
  /\ Free(r)
  /\ \E refresh \in {request[r].state, row.refresh} :
       LET stored == [status |-> "active", access |-> request[r].state,
                      refresh |-> refresh]
       IN /\ row' = stored
          /\ request' = [request EXCEPT ![r] =
               [@ EXCEPT !.kind = "read", !.pc = "calling", !.seen = stored]]
  /\ lock' = r
  /\ UNCHANGED oauth

ExchangeFails(r) ==
  /\ request[r].pc = "exchanging"
  /\ End(r)

-----------------------------------------------------------------------------
(* A database call of r meets the lock of another request: the loop waits. *)
NeedsRow(r) ==
  \/ request[r].pc = "idle" /\ row.status # "absent"
  \/ request[r].pc \in {"calling", "revoking", "exchanging", "refreshing"}

Wait(r) ==
  /\ NeedsRow(r)
  /\ ~ Free(r)
  /\ waiting' = r
  /\ UNCHANGED <<row, oauth, request, lock>>

(* The process is restarted: its requests are gone and its locks free.     *)
Restart ==
  /\ request' = [r \in Request |->
       IF request[r].pc = "idle" THEN request[r]
       ELSE [request[r] EXCEPT !.pc = "done"]]
  /\ lock' = NoRequest
  /\ waiting' = NoRequest
  /\ UNCHANGED <<row, oauth>>

(* What a request does once it has begun.                                  *)
Continue(r) ==
  \/ RefreshAnswers(r) \/ ProviderAnswers(r) \/ ProviderFails(r)
  \/ Unauthorized(r) \/ RevocationAnswers(r)
  \/ StoreConnection(r) \/ ExchangeFails(r)

Begin(r) ==
  \/ \E kind \in {"read", "view", "pull"} : Load(r, kind)
  \/ Disconnect(r)
  \/ \E s \in State : ConsumeOAuthState(r, s)

Running == waiting = NoRequest

ConnectionNext ==
  \/ Running /\ UNCHANGED waiting
     /\ \/ \E s \in State : CreateOAuthState(s) \/ OAuthStateExpires(s)
        \/ \E r \in Request : Begin(r) \/ Continue(r)
  \/ Running /\ \E r \in Request : Wait(r)
  \/ Restart

ConnectionSpec == ConnectionInit /\ [][ConnectionNext]_connectionVars

(* The event loop resumes a request when its call has ended, and every     *)
(* call ends by an answer or by the client's timeout.                      *)
FairConnectionSpec ==
  /\ ConnectionSpec
  /\ \A r \in Request :
       WF_connectionVars(Running /\ UNCHANGED waiting /\ Continue(r))

-----------------------------------------------------------------------------
ConnectionTypeOK ==
  /\ row \in Row
  /\ oauth \in [State -> {"unused", "issued", "expired", "consumed"}]
  /\ request \in [Request -> RequestState]
  /\ lock \in Request \cup {NoRequest}
  /\ waiting \in Request \cup {NoRequest}

(* The lock that connection_credentials keeps across its await is what     *)
(* makes a first use of the token work on the row as it is.                *)
LockedRowIsCurrent ==
  \A r \in Request :
    lock = r /\ ~ request[r].forced => request[r].seen = row

Activates == row.status # "active" /\ row'.status = "active"

Stores(r) == request[r].pc = "exchanging" /\ request'[r].pc = "calling"

(* A connection that was disconnected or has expired becomes active again  *)
(* only by a user's consent: the status that connection_credentials writes *)
(* after its await is that of a row a disconnection may have changed since *)
(* it was loaded.                                                          *)
OnlyConsentActivates ==
  [][Activates => \E r \in Request : Stores(r)]_connectionVars

(* A refresh token, which Google may replace, is in use by one request at  *)
(* a time.                                                                 *)
OneRefreshAtATime ==
  \A r, q \in Request :
    request[r].pc = "refreshing" /\ request[q].pc = "refreshing" => r = q

(* docs/google-calendar-readonly.md: an OAuth state is single-use: no two  *)
(* callbacks come from one state, whatever happens between them.           *)
StateGrantsOnce ==
  \A r, q \in Request :
    r # q /\ request[r].state # NoState => request[r].state # request[q].state

(* docs/google-calendar-readonly.md: a 401 causes one refresh and one      *)
(* retry: a request ends unless the loop is stuck.                         *)
RequestsEnd ==
  \A r \in Request :
    request[r].pc # "idle" ~> request[r].pc = "done" \/ waiting # NoRequest

(* docs/google-calendar-readonly.md: "Disconnect attempts revocation,      *)
(* retains minimal metadata as revoked, clears tokens".                    *)
RevokedHasNoTokens ==
  row.status = "revoked" => row.access = NoState /\ row.refresh = NoState
=============================================================================

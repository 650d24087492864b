---------------------------- MODULE Credentials -----------------------------
(***************************************************************************)
(* The MatElab tokens: the one keyring entry that the API's threads and    *)
(* the sync worker share, the access token's refresh inside every call     *)
(* (_access_token, _refresh and _api_post of matelab_client.py), and the   *)
(* login and logout of the API and of the auth commands.                   *)
(*                                                                         *)
(* Reading the keyring, writing it and a request to the server are a step  *)
(* each; nothing locks the keyring between them.  When a token runs out is *)
(* the clock's choice.                                                     *)
(***************************************************************************)
CONSTANTS
    Callers,        \* threads that call the server
    Syncing,        \* the callers that are sync workers
    Bundles,        \* names for token bundles; a name nobody holds is free
    NoBundle,       \* an empty keyring entry
    Rotates,        \* the server takes a refresh token only once
    Faults          \* requests may fail, and the process may die

ASSUME CredentialConstants ==
    /\ Syncing \subseteq Callers
    /\ NoBundle \notin Bundles
    /\ Rotates \in BOOLEAN
    /\ Faults \in BOOLEAN

VARIABLES
    keyring,    \* the stored bundle, or NoBundle
    spent,      \* bundles in use whose refresh token the server has rotated
    orphaned,   \* history: the successor of the stored bundle was lost
    caller,     \* what each thread does, with which bundle
    paused      \* a capture waits in auth_required

vars == <<keyring, spent, orphaned, caller, paused>>

Kinds == {"none", "call", "login", "command"}
RefreshSteps == {"renew", "refresh"}            \* in _access_token, after a reply
KeepSteps == {"keepRenewed", "keepRefreshed", "keepLogin"}
CallSteps == {"idle", "signin", "token", "post", "reload", "resume", "pause"}
             \cup RefreshSteps \cup KeepSteps

(* bundle is what the call uses or is about to store, from the bundle whose *)
(* refresh token it was got with, again that it repeats its request.       *)
IdleCaller == [kind |-> "none", step |-> "idle", bundle |-> NoBundle,
               from |-> NoBundle, again |-> FALSE]

Init ==
    /\ keyring = NoBundle
    /\ spent = {}
    /\ orphaned = FALSE
    /\ caller = [k \in Callers |-> IdleCaller]
    /\ paused = FALSE

(* Nobody sends, or stores, tokens that are not there.                     *)
TypeOK ==
    /\ keyring \in Bundles \cup {NoBundle}
    /\ spent \subseteq Bundles
    /\ orphaned \in BOOLEAN
    /\ caller \in [Callers -> [kind : Kinds, step : CallSteps,
                               bundle : Bundles \cup {NoBundle},
                               from : Bundles \cup {NoBundle}, again : BOOLEAN]]
    /\ paused \in BOOLEAN
    /\ \A k \in Callers : caller[k].step \in {"post"} \cup RefreshSteps \cup KeepSteps
          => caller[k].bundle # NoBundle
-----------------------------------------------------------------------------
InUse == {keyring} \cup {caller[k].bundle : k \in Callers} \cup {caller[k].from : k \in Callers}

(* The server hands out tokens that nobody has seen.                       *)
FreeNames == Bundles \ InUse
NewBundle == CHOOSE b \in FreeNames : TRUE

(* The server has taken the refresh tokens of S.                           *)
Spend(S) == spent' = (IF Rotates THEN spent \cup S ELSE spent) \cap InUse'

Store(b) == keyring' = b /\ orphaned' = FALSE
Return(k) == caller' = [caller EXCEPT ![k] = IdleCaller]
Goto(k, step) == caller' = [caller EXCEPT ![k].step = step]

(* MatelabAuthRequiredError: the worker pauses its capture, an API call    *)
(* answers 401.                                                            *)
AuthFails(k) == IF k \in Syncing THEN Goto(k, "pause") ELSE Return(k)

Begin(k, kind, step) ==
    /\ caller[k] = IdleCaller
    /\ caller' = [caller EXCEPT ![k].kind = kind, ![k].step = step]
    /\ UNCHANGED <<keyring, spent, orphaned, paused>>

Call(k) == Begin(k, "call", "token")
Login(k) == k \notin Syncing /\ Begin(k, "login", "signin")       \* POST /v1/ui/login
AuthLogin(k) == k \notin Syncing /\ Begin(k, "command", "signin") \* auth login
-----------------------------------------------------------------------------
(* POST /tokens; a wrong password is refused.                              *)
SignIn(k) ==
    /\ caller[k].step = "signin"
    /\ \/ /\ FreeNames # {}
          /\ caller' = [caller EXCEPT ![k].step = "keepLogin", ![k].bundle = NewBundle]
       \/ Return(k)
    /\ UNCHANGED <<keyring, orphaned, paused>>
    /\ Spend({})

(* _access_token, up to the refresh of a token that is about to expire.    *)
ReadToken(k) ==
    /\ caller[k].step = "token"
    /\ \/ keyring = NoBundle /\ AuthFails(k)
       \/ /\ keyring # NoBundle
          /\ \E step \in {"renew", "post"} :
                caller' = [caller EXCEPT ![k].step = step, ![k].bundle = keyring]
    /\ UNCHANGED <<keyring, orphaned, paused>>
    /\ Spend({})

(* The request of _api_post itself.  A token the server does not take is   *)
(* answered with "refresh", which is followed once, or with 401.           *)
Post(k) ==
    /\ caller[k].step = "post"
    /\ \/ IF caller[k].kind = "login" THEN Goto(k, "resume") ELSE Return(k)
       \/ ~caller[k].again /\ Goto(k, "reload")
       \/ AuthFails(k)
    /\ UNCHANGED <<keyring, orphaned, paused>>
    /\ Spend({})

(* Mutant: the bundle is taken to be still there.                          *)
Reload_Unchecked(k) ==
    /\ caller[k].step = "reload"
    /\ caller' = [caller EXCEPT ![k].step = "refresh", ![k].bundle = keyring]
    /\ UNCHANGED <<keyring, orphaned, paused>>
    /\ Spend({})

(* A reply "refresh" is followed up with the bundle that is stored by then. *)
Reload(k) ==
    /\ caller[k].step = "reload"
    /\ IF keyring = NoBundle THEN AuthFails(k)
       ELSE caller' = [caller EXCEPT ![k].step = "refresh", ![k].bundle = keyring]
    /\ UNCHANGED <<keyring, orphaned, paused>>
    /\ Spend({})

(* _refresh: POST /tokens/tokens_refresh with the bundle that was read,    *)
(* which may have run out or have been spent since.                        *)
Refresh(k) ==
    LET old == caller[k].bundle IN
    /\ caller[k].step \in RefreshSteps
    /\ UNCHANGED <<keyring, orphaned, paused>>
    /\ \/ AuthFails(k) /\ Spend({})
       \/ /\ old \notin spent
          /\ FreeNames # {}
          /\ caller' = [caller EXCEPT
                ![k].step = IF @ = "renew" THEN "keepRenewed" ELSE "keepRefreshed",
                ![k].bundle = NewBundle, ![k].from = old]
          /\ Spend({old})

Stored(k, step, again) ==
    caller' = [caller EXCEPT ![k].step = step, ![k].again = again, ![k].from = NoBundle]

(* Mutant: the refresh that follows a reply does not store its bundle.     *)
Keep_OnlyRenewed(k) ==
    /\ caller[k].step \in KeepSteps
    /\ IF caller[k].step = "keepRefreshed" THEN UNCHANGED <<keyring, orphaned>>
       ELSE Store(caller[k].bundle)
    /\ \/ caller[k].step = "keepRenewed" /\ Stored(k, "post", caller[k].again)
       \/ caller[k].step = "keepRefreshed" /\ Stored(k, "token", TRUE)
       \/ /\ caller[k].step = "keepLogin"
          /\ IF caller[k].kind = "login" THEN Stored(k, "token", FALSE) ELSE Return(k)
    /\ UNCHANGED paused
    /\ Spend({})

(* Mutant: the repeated request may be refreshed and repeated as well.     *)
Keep_Forgets(k) ==
    /\ caller[k].step \in KeepSteps
    /\ Store(caller[k].bundle)
    /\ \/ caller[k].step = "keepRenewed" /\ Stored(k, "post", caller[k].again)
       \/ caller[k].step = "keepRefreshed" /\ Stored(k, "token", FALSE)
       \/ /\ caller[k].step = "keepLogin"
          /\ IF caller[k].kind = "login" THEN Stored(k, "token", FALSE) ELSE Return(k)
    /\ UNCHANGED paused
    /\ Spend({})

(* credentials.save, and what follows it: a renewed token is used, a call  *)
(* that was answered "refresh" is repeated from its start, a login goes on *)
(* to load the notebooks, and auth login is done.                          *)
Keep(k) ==
    /\ caller[k].step \in KeepSteps
    /\ Store(caller[k].bundle)
    /\ \/ caller[k].step = "keepRenewed" /\ Stored(k, "post", caller[k].again)
       \/ caller[k].step = "keepRefreshed" /\ Stored(k, "token", TRUE)
       \/ /\ caller[k].step = "keepLogin"
          /\ IF caller[k].kind = "login" THEN Stored(k, "token", FALSE) ELSE Return(k)
    /\ UNCHANGED paused
    /\ Spend({})

(* retry_auth_required after the login's notebooks have been loaded ...    *)
Resume(k) ==
    /\ caller[k].step = "resume"
    /\ paused' = FALSE
    /\ Return(k)
    /\ UNCHANGED <<keyring, orphaned>>
    /\ Spend({})

(* ... and mark_attention in the worker.                                   *)
Pause(k) ==
    /\ caller[k].step = "pause"
    /\ paused' = TRUE
    /\ Return(k)
    /\ UNCHANGED <<keyring, orphaned>>
    /\ Spend({})

(* A request that fails may have been served: then the server has rotated  *)
(* a bundle whose successor nobody will ever store.                        *)
RequestFails(k) ==
    /\ Faults
    /\ caller[k].step \in {"signin", "post"} \cup RefreshSteps
    /\ Return(k)
    /\ UNCHANGED <<keyring, paused>>
    /\ \/ UNCHANGED orphaned /\ Spend({})
       \/ /\ caller[k].step \in RefreshSteps
          /\ caller[k].bundle \notin spent
          /\ orphaned' = (orphaned \/ caller[k].bundle = keyring)
          /\ Spend({caller[k].bundle})

(* The service dies with what its threads were about to store; a command   *)
(* is a process of its own.                                                *)
Crash ==
    /\ Faults
    /\ caller' = [k \in Callers |-> IF caller[k].kind = "command" THEN caller[k]
                                    ELSE IdleCaller]
    /\ orphaned' = (orphaned \/ \E k \in Callers : caller[k].from = keyring)
    /\ UNCHANGED <<keyring, paused>>
    /\ Spend({})

(* POST /v1/ui/logout and auth clear                                       *)
Logout ==
    /\ Store(NoBundle)
    /\ UNCHANGED <<caller, paused>>
    /\ Spend({})

(* auth set-token                                                          *)
SetTokens ==
    /\ FreeNames # {}
    /\ Store(NewBundle)
    /\ UNCHANGED <<caller, paused>>
    /\ Spend({})

Proceed(k) ==
    \/ SignIn(k) \/ ReadToken(k) \/ Post(k) \/ Reload(k) \/ Refresh(k) \/ Keep(k)
    \/ Resume(k) \/ Pause(k)

Next ==
    \/ \E k \in Callers : Call(k) \/ Login(k) \/ AuthLogin(k) \/ Proceed(k) \/ RequestFails(k)
    \/ Logout \/ SetTokens \/ Crash

Spec == Init /\ [][Next]_vars

(* A request ends by its timeout, and a thread that has read goes on.      *)
Fairness == \A k \in Callers : WF_vars(Proceed(k) \/ RequestFails(k))
FairSpec == Spec /\ Fairness
-----------------------------------------------------------------------------
(* A refresh token the server has rotated does not stay in the keyring,    *)
(* where every later call would be refused: whoever used it is about to    *)
(* store its successor, unless the reply or the process was lost.          *)
StoredIsUsable ==
    keyring \in spent => orphaned \/ \E k \in Callers : /\ caller[k].step \in KeepSteps
                                                       /\ caller[k].from = keyring

(* Every call ends, even if the server never takes an access token.        *)
CallsEnd == \A k \in Callers : caller[k].step # "idle" ~> caller[k].step = "idle"

(* What docs/error-handling.md says of a new login: the captures that wait *)
(* for one are resumed.                                                    *)
LoginResumes == \A k \in Callers : caller[k].step = "keepLogin" ~> ~paused

(* What tests/test_gui.py says of a logout: the session is not             *)
(* authenticated any longer - until somebody logs in.                      *)
LogoutHolds ==
    [][keyring = NoBundle /\ keyring' # NoBundle =>
         SetTokens \/ \E k \in Callers : caller[k].step = "keepLogin" /\ Keep(k)]_vars
=============================================================================

-------------------------- MODULE CredentialProofs --------------------------
(***************************************************************************)
(* That the keyring does not keep a refresh token the server has rotated,  *)
(* for every number of threads and every supply of names.                  *)
(*                                                                         *)
(* StoredIsUsable alone is not inductive: a thread may store a bundle that *)
(* another thread has used up in between.  What excludes it is that nobody *)
(* but the thread that fetched a bundle has seen it before it is stored    *)
(* (Unseen), and that only names somebody holds are spent (SpentHeld).     *)
(***************************************************************************)
EXTENDS Credentials, TLAPS

SpentHeld == spent \subseteq InUse

Unseen ==
    \A k \in Callers : caller[k].step \in KeepSteps =>
        /\ caller[k].bundle \notin spent \cup {keyring}
        /\ \A j \in Callers \ {k} : caller[j].bundle # caller[k].bundle

TokenInv == TypeOK /\ SpentHeld /\ Unseen /\ StoredIsUsable

(* What the server hands out is a name that nobody holds.                  *)
LEMMA NewIsUnseen ==
    ASSUME FreeNames # {}
    PROVE  /\ NewBundle \in Bundles
           /\ NewBundle # keyring
           /\ \A k \in Callers : NewBundle # caller[k].bundle /\ NewBundle # caller[k].from
<1>1. NewBundle \in FreeNames BY DEF NewBundle
<1> QED BY <1>1 DEF FreeNames, InUse

(* Only what was spent before, or is spent now, is spent after a step.     *)
LEMMA SpentBy ==
    ASSUME NEW S, Spend(S)
    PROVE  spent' \subseteq (spent \cup S) /\ SpentHeld'
BY DEF Spend, SpentHeld
-----------------------------------------------------------------------------
LEMMA TokenInit == Init => TokenInv
<1> SUFFICES ASSUME Init PROVE TokenInv OBVIOUS
<1> USE DEF Init
<1>1. TypeOK BY CredentialConstants DEF TypeOK, IdleCaller, Kinds, CallSteps, RefreshSteps, KeepSteps
<1>2. SpentHeld BY DEF SpentHeld
<1>3. Unseen BY DEF Unseen, IdleCaller, KeepSteps
<1>4. StoredIsUsable BY DEF StoredIsUsable
<1> QED BY <1>1, <1>2, <1>3, <1>4 DEF TokenInv

LEMMA BeginTokens ==
    ASSUME TokenInv, NEW k \in Callers, Call(k) \/ Login(k) \/ AuthLogin(k)
    PROVE  TokenInv'
<1>1. PICK kind \in {"call", "login", "command"}, step \in {"token", "signin"} :
          Begin(k, kind, step)
      BY DEF Call, Login, AuthLogin
<1>2. TypeOK' BY <1>1 DEF TokenInv, TypeOK, Begin, IdleCaller, Kinds, CallSteps,
                        RefreshSteps, KeepSteps
<1>3. SpentHeld' BY <1>1 DEF TokenInv, TypeOK, Begin, SpentHeld, InUse
<1>4. Unseen' BY <1>1 DEF TokenInv, TypeOK, Begin, Unseen, KeepSteps
<1>5. StoredIsUsable' BY <1>1 DEF TokenInv, TypeOK, Begin, StoredIsUsable, KeepSteps, IdleCaller
<1> QED BY <1>2, <1>3, <1>4, <1>5 DEF TokenInv

(* The thread that moves uses, or forgets, tokens that others may hold.    *)
Uses(k) ==
    /\ caller[k].step \notin KeepSteps
    /\ \A j \in Callers \ {k} : caller'[j] = caller[j]
    /\ caller'[k].step \notin KeepSteps
    /\ caller'[k].bundle \in {NoBundle, keyring, caller[k].bundle}
    /\ keyring' = keyring
    /\ spent' \subseteq spent \cup {caller[k].bundle}

(* It has fetched a bundle, which it is about to store.                    *)
Fetches(k) ==
    /\ caller[k].step \notin KeepSteps
    /\ \A j \in Callers \ {k} : caller'[j] = caller[j]
    /\ caller'[k].bundle = NewBundle
    /\ FreeNames # {}
    /\ keyring' = keyring
    /\ spent' \subseteq spent \cup {caller[k].bundle}

LEMMA UnseenAfterUse ==
    ASSUME TokenInv, NEW k \in Callers, Uses(k)
    PROVE  Unseen'
<1> SUFFICES ASSUME NEW h \in Callers, caller'[h].step \in KeepSteps
             PROVE  /\ caller'[h].bundle \notin spent' \cup {keyring'}
                    /\ \A j \in Callers \ {h} : caller'[j].bundle # caller'[h].bundle
  BY DEF Unseen
<1>1. h # k /\ caller'[h] = caller[h] BY DEF Uses
<1>2. /\ caller[h].bundle \notin spent \cup {keyring, NoBundle}
      /\ \A j \in Callers \ {h} : caller[j].bundle # caller[h].bundle
  BY <1>1 DEF TokenInv, TypeOK, Unseen
<1> QED BY <1>1, <1>2 DEF Uses

LEMMA UnseenAfterFetch ==
    ASSUME TokenInv, NEW k \in Callers, Fetches(k)
    PROVE  Unseen'
<1> SUFFICES ASSUME NEW h \in Callers, caller'[h].step \in KeepSteps
             PROVE  /\ caller'[h].bundle \notin spent' \cup {keyring'}
                    /\ \A j \in Callers \ {h} : caller'[j].bundle # caller'[h].bundle
  BY DEF Unseen
<1>1. /\ NewBundle \notin spent \cup {keyring}
      /\ \A j \in Callers : NewBundle # caller[j].bundle
  BY NewIsUnseen DEF Fetches, TokenInv, SpentHeld, FreeNames, NewBundle
<1>2. CASE h = k
  BY <1>1, <1>2 DEF Fetches
<1>3. CASE h # k
  <2>1. caller'[h] = caller[h] BY <1>3 DEF Fetches
  <2>2. /\ caller[h].bundle \notin spent \cup {keyring}
        /\ \A j \in Callers \ {h} : caller[j].bundle # caller[h].bundle
    BY <2>1 DEF TokenInv, Unseen
  <2> QED BY <1>1, <1>3, <2>1, <2>2 DEF Fetches
<1> QED BY <1>2, <1>3

Holding == {"post"} \cup RefreshSteps \cup KeepSteps

CallerRecords == [kind : Kinds, step : CallSteps, bundle : Bundles \cup {NoBundle},
                  from : Bundles \cup {NoBundle}, again : BOOLEAN]

(* The thread's next record is one TypeOK allows.                          *)
Moves(k) == \E r \in CallerRecords : /\ r.step \in Holding => r.bundle # NoBundle
                                     /\ caller' = [caller EXCEPT ![k] = r]

LEMMA TypedMove ==
    ASSUME TypeOK, NEW k \in Callers, Moves(k), keyring' \in Bundles \cup {NoBundle},
           spent' \subseteq Bundles, orphaned' \in BOOLEAN, paused' \in BOOLEAN
    PROVE  TypeOK'
<1>1. PICK r \in CallerRecords : /\ r.step \in Holding => r.bundle # NoBundle
                                 /\ caller' = [caller EXCEPT ![k] = r]
  BY DEF Moves
<1>2. caller' \in [Callers -> CallerRecords] BY <1>1 DEF TypeOK, CallerRecords
<1>3. \A j \in Callers : caller'[j].step \in Holding => caller'[j].bundle # NoBundle
  BY <1>1 DEF TypeOK, Holding
<1> QED BY <1>2, <1>3 DEF TypeOK, CallerRecords, Holding

LEMMA ReturnMoves ==
    ASSUME TypeOK, NEW k \in Callers, Return(k)
    PROVE  Moves(k)
<1>1. IdleCaller \in CallerRecords /\ IdleCaller.step \notin Holding
  BY DEF IdleCaller, CallerRecords, Holding, Kinds, CallSteps, RefreshSteps, KeepSteps
<1> QED BY <1>1 DEF Return, Moves

LEMMA GotoMoves ==
    ASSUME TypeOK, NEW k \in Callers, NEW step \in CallSteps, Goto(k, step),
           step \in Holding => caller[k].bundle # NoBundle
    PROVE  Moves(k)
<1> DEFINE r == [caller[k] EXCEPT !.step = step]
<1>1. r \in CallerRecords /\ r.step = step /\ r.bundle = caller[k].bundle
  BY DEF TypeOK, CallerRecords
<1>2. caller' = [caller EXCEPT ![k] = r] BY DEF Goto
<1>. HIDE DEF r
<1> QED BY <1>1, <1>2 DEF Moves

LEMMA AuthMoves ==
    ASSUME TypeOK, NEW k \in Callers, AuthFails(k)
    PROVE  Moves(k)
<1>1. "pause" \in CallSteps /\ "pause" \notin Holding
  BY DEF CallSteps, Holding, RefreshSteps, KeepSteps
<1> QED BY <1>1, GotoMoves, ReturnMoves DEF AuthFails

(* A thread that goes on with a bundle it holds, or has just read.         *)
LEMMA BundleMoves ==
    ASSUME TypeOK, NEW k \in Callers, NEW step \in CallSteps, NEW b \in Bundles, b # NoBundle,
           caller' = [caller EXCEPT ![k].step = step, ![k].bundle = b]
    PROVE  Moves(k)
<1> DEFINE r == [caller[k] EXCEPT !.step = step, !.bundle = b]
<1>1. r \in CallerRecords /\ r.bundle = b
  BY DEF TypeOK, CallerRecords
<1>2. caller' = [caller EXCEPT ![k] = r] OBVIOUS
<1>. HIDE DEF r
<1> QED BY <1>1, <1>2 DEF Moves

LEMMA FetchMoves ==
    ASSUME TypeOK, NEW k \in Callers, NEW step \in CallSteps, FreeNames # {},
           caller[k].bundle \in Bundles,
           caller' = [caller EXCEPT ![k].step = step, ![k].bundle = NewBundle,
                                    ![k].from = caller[k].bundle]
    PROVE  Moves(k)
<1> DEFINE r == [caller[k] EXCEPT !.step = step, !.bundle = NewBundle, !.from = caller[k].bundle]
<1>1. NewBundle \in Bundles /\ NewBundle # NoBundle BY NewIsUnseen, CredentialConstants
<1>2. r \in CallerRecords /\ r.bundle = NewBundle
  BY <1>1 DEF TypeOK, CallerRecords
<1>3. caller' = [caller EXCEPT ![k] = r] OBVIOUS
<1>. HIDE DEF r
<1> QED BY <1>1, <1>2, <1>3 DEF Moves

LEMMA StoredMoves ==
    ASSUME TypeOK, NEW k \in Callers, NEW step \in CallSteps, NEW again \in BOOLEAN,
           caller[k].bundle # NoBundle, Stored(k, step, again)
    PROVE  Moves(k)
<1> DEFINE r == [caller[k] EXCEPT !.step = step, !.again = again, !.from = NoBundle]
<1>1. r \in CallerRecords /\ r.bundle = caller[k].bundle
  BY DEF TypeOK, CallerRecords
<1>2. caller' = [caller EXCEPT ![k] = r] BY DEF Stored
<1>. HIDE DEF r
<1> QED BY <1>1, <1>2 DEF Moves
-----------------------------------------------------------------------------
LEMMA SignInTokens ==
    ASSUME TokenInv, NEW k \in Callers, SignIn(k)
    PROVE  TokenInv'
<1> USE DEF TokenInv
<1>1. FreeNames # {} => NewBundle \in Bundles /\ NewBundle # NoBundle
  BY NewIsUnseen, CredentialConstants
<1>2. SpentHeld' /\ spent' \subseteq spent BY SpentBy DEF SignIn
<1>3. Moves(k)
  BY <1>1, ReturnMoves, BundleMoves DEF SignIn, CallSteps, KeepSteps
<1>4. TypeOK' BY <1>2, <1>3, TypedMove DEF TypeOK, SignIn
<1>5. Uses(k) \/ Fetches(k)
  BY <1>2 DEF SignIn, Return, Uses, Fetches, KeepSteps, IdleCaller, TypeOK
<1>6. Unseen' BY <1>5, UnseenAfterUse, UnseenAfterFetch
<1>7. StoredIsUsable'
  BY <1>2 DEF SignIn, Return, StoredIsUsable, KeepSteps, TypeOK
<1> QED BY <1>2, <1>4, <1>6, <1>7

LEMMA ReadTokens ==
    ASSUME TokenInv, NEW k \in Callers, ReadToken(k) \/ Post(k) \/ Reload(k)
    PROVE  TokenInv'
<1> USE DEF TokenInv
<1>1. SpentHeld' /\ spent' \subseteq spent BY SpentBy DEF ReadToken, Post, Reload
<1>2. Moves(k)
  <2>1. CASE ReadToken(k)
    BY <2>1, AuthMoves, BundleMoves, CredentialConstants
       DEF ReadToken, CallSteps, RefreshSteps, TypeOK
  <2>2. CASE Post(k)
    BY <2>2, AuthMoves, ReturnMoves, GotoMoves
       DEF Post, CallSteps, Holding, RefreshSteps, KeepSteps
  <2>3. CASE Reload(k)
    BY <2>3, AuthMoves, BundleMoves, CredentialConstants
       DEF Reload, CallSteps, RefreshSteps, TypeOK
  <2> QED BY <2>1, <2>2, <2>3
<1>3. TypeOK' BY <1>1, <1>2, TypedMove DEF TypeOK, ReadToken, Post, Reload
<1>4. Uses(k)
  BY <1>1 DEF ReadToken, Post, Reload, AuthFails, Goto, Return, IdleCaller, Uses, KeepSteps, TypeOK
<1>5. Unseen' BY <1>4, UnseenAfterUse
<1>6. StoredIsUsable'
  BY <1>1, <1>4 DEF ReadToken, Post, Reload, Uses, StoredIsUsable
<1> QED BY <1>1, <1>3, <1>5, <1>6

LEMMA RefreshTokens ==
    ASSUME TokenInv, NEW k \in Callers, Refresh(k)
    PROVE  TokenInv'
<1> USE DEF TokenInv
<1>1. SpentHeld' /\ spent' \subseteq spent \cup {caller[k].bundle} BY SpentBy DEF Refresh
<1>2. caller[k].bundle \in Bundles /\ caller[k].step \notin KeepSteps
  BY DEF Refresh, TypeOK, RefreshSteps, KeepSteps
<1>3. Moves(k)
  BY <1>2, AuthMoves, FetchMoves DEF Refresh, CallSteps, KeepSteps, RefreshSteps
<1>4. TypeOK' BY <1>1, <1>2, <1>3, TypedMove DEF TypeOK, Refresh
<1>5. CASE AuthFails(k) /\ Spend({})
  <2>1. spent' \subseteq spent BY <1>5, SpentBy
  <2>2. Uses(k)
    BY <1>2, <1>5, <2>1 DEF Refresh, AuthFails, Goto, Return, IdleCaller, Uses, KeepSteps, TypeOK
  <2>3. Unseen' BY <2>2, UnseenAfterUse
  <2>4. StoredIsUsable' BY <2>1, <2>2 DEF Refresh, Uses, StoredIsUsable
  <2> QED BY <1>1, <1>4, <2>3, <2>4
<1>6. CASE ~(AuthFails(k) /\ Spend({}))
  <2>1. /\ FreeNames # {}
        /\ \A j \in Callers \ {k} : caller'[j] = caller[j]
        /\ caller'[k].bundle = NewBundle
        /\ caller'[k].step \in KeepSteps
        /\ caller'[k].from = caller[k].bundle
    BY <1>6 DEF Refresh, TypeOK, KeepSteps, RefreshSteps
  <2>2. Fetches(k) BY <1>1, <1>2, <2>1 DEF Refresh, Fetches
  <2>3. Unseen' BY <2>2, UnseenAfterFetch
  <2>4. StoredIsUsable' BY <1>1, <1>2, <2>1 DEF Refresh, StoredIsUsable
  <2> QED BY <1>1, <1>4, <2>3, <2>4
<1> QED BY <1>5, <1>6

LEMMA KeepTokens ==
    ASSUME TokenInv, NEW k \in Callers, Keep(k)
    PROVE  TokenInv'
<1> USE DEF TokenInv
<1>1. SpentHeld' /\ spent' \subseteq spent BY SpentBy DEF Keep
<1>2. /\ caller[k].step \in KeepSteps
      /\ caller[k].bundle \in Bundles /\ caller[k].bundle # NoBundle
      /\ keyring' = caller[k].bundle
      /\ keyring' \notin spent
  BY CredentialConstants DEF Keep, Store, Unseen, TypeOK
<1>3. Moves(k)
  BY <1>2, StoredMoves, ReturnMoves DEF Keep, CallSteps, TypeOK
<1>4. TypeOK' BY <1>1, <1>2, <1>3, TypedMove DEF TypeOK, Keep, Store
<1>5. /\ \A j \in Callers \ {k} : caller'[j] = caller[j]
      /\ caller'[k].step \notin KeepSteps
      /\ caller'[k].bundle \in {NoBundle, caller[k].bundle}
  BY DEF Keep, Stored, Return, IdleCaller, KeepSteps, TypeOK
<1>6. ASSUME NEW h \in Callers, caller'[h].step \in KeepSteps
      PROVE  /\ caller'[h].bundle \notin spent' \cup {keyring'}
             /\ \A j \in Callers \ {h} : caller'[j].bundle # caller'[h].bundle
  <2>1. h # k /\ caller'[h] = caller[h] BY <1>5, <1>6
  <2>2. /\ caller[h].bundle \notin spent \cup {keyring, NoBundle}
        /\ \A j \in Callers \ {h} : caller[j].bundle # caller[h].bundle
    BY <1>6, <2>1 DEF Unseen, TypeOK
  <2> QED BY <1>1, <1>2, <1>5, <2>1, <2>2
<1>7. Unseen' BY <1>6 DEF Unseen
<1>8. StoredIsUsable' BY <1>1, <1>2 DEF StoredIsUsable
<1> QED BY <1>1, <1>4, <1>7, <1>8

LEMMA EndTokens ==
    ASSUME TokenInv, NEW k \in Callers, Resume(k) \/ Pause(k)
    PROVE  TokenInv'
<1> USE DEF TokenInv
<1>1. SpentHeld' /\ spent' \subseteq spent BY SpentBy DEF Resume, Pause
<1>2. TypeOK' BY <1>1, ReturnMoves, TypedMove DEF TypeOK, Resume, Pause
<1>3. Uses(k)
  BY <1>1 DEF Resume, Pause, Return, IdleCaller, Uses, KeepSteps, TypeOK
<1>4. Unseen' BY <1>3, UnseenAfterUse
<1>5. StoredIsUsable' BY <1>1, <1>3 DEF Resume, Pause, Uses, StoredIsUsable
<1> QED BY <1>1, <1>2, <1>4, <1>5

LEMMA FailTokens ==
    ASSUME TokenInv, NEW k \in Callers, RequestFails(k)
    PROVE  TokenInv'
<1> USE DEF TokenInv
<1>1. caller[k].step \notin KeepSteps
  BY DEF RequestFails, RefreshSteps, KeepSteps
<1>2. SpentHeld' BY SpentBy DEF RequestFails
<1>3. \/ spent' \subseteq spent /\ orphaned' = orphaned
      \/ /\ spent' \subseteq spent \cup {caller[k].bundle}
         /\ orphaned' = (orphaned \/ caller[k].bundle = keyring)
         /\ caller[k].bundle \in Bundles
  BY SpentBy, <1>1 DEF RequestFails, TypeOK, RefreshSteps, KeepSteps
<1>4. TypeOK' BY <1>3, ReturnMoves, TypedMove DEF TypeOK, RequestFails
<1>5. Uses(k)
  BY <1>1, <1>3 DEF RequestFails, Return, IdleCaller, Uses, KeepSteps, TypeOK
<1>6. Unseen' BY <1>5, UnseenAfterUse
<1>7. StoredIsUsable' BY <1>3, <1>5 DEF Uses, StoredIsUsable
<1> QED BY <1>2, <1>4, <1>6, <1>7

LEMMA CrashTokens == TokenInv /\ Crash => TokenInv'
<1> SUFFICES ASSUME TokenInv, Crash PROVE TokenInv' OBVIOUS
<1> USE DEF TokenInv
<1>1. SpentHeld' /\ spent' \subseteq spent BY SpentBy DEF Crash
<1>2. \A k \in Callers : \/ caller'[k] = caller[k]
                         \/ caller'[k] = IdleCaller
  BY DEF Crash
<1>3. IdleCaller \in CallerRecords /\ IdleCaller.step \notin Holding /\ IdleCaller.bundle = NoBundle
  BY DEF IdleCaller, CallerRecords, Holding, Kinds, CallSteps, RefreshSteps, KeepSteps
<1>4. caller' \in [Callers -> CallerRecords]
  BY <1>3 DEF Crash, TypeOK, CallerRecords
<1>5. TypeOK' BY <1>1, <1>2, <1>3, <1>4 DEF Crash, TypeOK, CallerRecords, Holding
<1>6. ASSUME NEW h \in Callers, caller'[h].step \in KeepSteps
      PROVE  /\ caller'[h].bundle \notin spent' \cup {keyring'}
             /\ \A j \in Callers \ {h} : caller'[j].bundle # caller'[h].bundle
  <2>1. caller'[h] = caller[h] BY <1>2, <1>3, <1>6 DEF Holding
  <2>2. /\ caller[h].bundle \notin spent \cup {keyring, NoBundle}
        /\ \A j \in Callers \ {h} : caller[j].bundle # caller[h].bundle
    BY <1>6, <2>1 DEF Unseen, TypeOK
  <2> QED BY <1>1, <1>2, <1>3, <2>1, <2>2 DEF Crash
<1>7. Unseen' BY <1>6 DEF Unseen
<1>8. StoredIsUsable' BY <1>1 DEF Crash, StoredIsUsable
<1> QED BY <1>1, <1>5, <1>7, <1>8

LEMMA UserTokens == TokenInv /\ (Logout \/ SetTokens) => TokenInv'
<1> SUFFICES ASSUME TokenInv, Logout \/ SetTokens PROVE TokenInv' OBVIOUS
<1> USE DEF TokenInv
<1>1. SpentHeld' /\ spent' \subseteq spent BY SpentBy DEF Logout, SetTokens
<1>2. /\ keyring' \in Bundles \cup {NoBundle}
      /\ keyring' \notin spent
      /\ \A k \in Callers : caller[k].step \in KeepSteps => caller[k].bundle # keyring'
  <2>1. CASE Logout
    BY <2>1, CredentialConstants DEF Logout, Store, TypeOK
  <2>2. CASE SetTokens
    BY <2>2, NewIsUnseen DEF SetTokens, Store, SpentHeld, FreeNames, NewBundle
  <2> QED BY <2>1, <2>2
<1>3. TypeOK' BY <1>1, <1>2 DEF TypeOK, Logout, SetTokens, Store
<1>4. Unseen' BY <1>1, <1>2 DEF Unseen, Logout, SetTokens
<1>5. StoredIsUsable' BY <1>1, <1>2 DEF StoredIsUsable
<1> QED BY <1>1, <1>3, <1>4, <1>5

LEMMA TokenStutter == TokenInv /\ UNCHANGED vars => TokenInv'
BY DEF TokenInv, vars, TypeOK, SpentHeld, InUse, Unseen, StoredIsUsable
-----------------------------------------------------------------------------
LEMMA TokenStep == TokenInv /\ [Next]_vars => TokenInv'
BY BeginTokens, SignInTokens, ReadTokens, RefreshTokens, KeepTokens, EndTokens, FailTokens,
   CrashTokens, UserTokens, TokenStutter
   DEF Next, Proceed

(* Whatever the threads, the logins and the logouts do, a rotated refresh  *)
(* token is in the keyring only while its successor is about to be stored  *)
(* or was lost with a reply or with the process.                           *)
THEOREM TokensStayUsable == Spec => []StoredIsUsable
<1>1. TokenInv => StoredIsUsable BY DEF TokenInv
<1> QED BY <1>1, TokenInit, TokenStep, PTL DEF Spec

(* Nobody sends or stores tokens that are not there.                       *)
THEOREM TokensTyped == Spec => []TypeOK
<1>1. TokenInv => TypeOK BY DEF TokenInv
<1> QED BY <1>1, TokenInit, TokenStep, PTL DEF Spec
=============================================================================

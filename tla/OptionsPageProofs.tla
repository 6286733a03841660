-------------------------- MODULE OptionsPageProofs --------------------------
(***************************************************************************)
(* Theorems about OptionsPage and the DigestAuthenticator it extends, for  *)
(* any clients, names, passwords, interfaces, features, folders, controls  *)
(* and bounds.                                                             *)
(***************************************************************************)
EXTENDS OptionsPage, TLAPS

\* What is stored is in the form that loading gives it back in.
StoredForm == store.UploadFolder # DefaultFolder

\* Which of the copies of the settings agree at each step of a save.
CopiesAgree ==
    /\ shared = store
    /\ form.open => page = store
    /\ applying # "excluded" => FExcluded = store.ExcludedInterfaces
    /\ applying = "no" => FAuth = store.Auth

\* What is stored is what the user decided.
StoredIsChosen ==
    /\ store.ExcludedInterfaces = chosen.excluded
    /\ EffectiveUploadFolder(store) = chosen.folder
    /\ store.Auth.Ha1 # NoHash =>
          store.Auth.Ha1 = ComputeHa1(store.Auth.Username, chosen.password[store.Auth.Username])

\* What an Authorize on the way has read was in force since its request came.
ReadIsSeen ==
    \A c \in Clients :
       /\ pc[c] # "idle" => FAuth \in seen[c]
       /\ pc[c] = "checkNonce" => copy[c] \in seen[c] /\ header[c] # NoHeader

\* The header is right for settings a but for the age of its nonce.
RightBut(c, a) ==
    /\ seen[c] = {a}
    /\ SignedFor(header[c], a)
    /\ header[c].nonce.secret = a.Ha1

\* As StaleIsNotWrong, from the decision on.
StaleWhenRight ==
    \A c \in Clients : \A a \in seen[c] :
       pc[c] \in {"challenge", "refused"} /\ RightBut(c, a) => stale[c]

\* A client that was refused holds a nonce that is valid now, and is refused
\* again only when it signs with something else.
RetryIsRight ==
    \A c \in Clients : refusals[c] # 0 =>
       /\ refusals[c] = 1
       /\ nonce[c] = [time |-> now, secret |-> FAuth.Ha1]
       /\ pc[c] # "challenge"
       /\ pc[c] \in {"arrived", "checkNonce"} =>
             SignedFor(header[c], FAuth) /\ header[c].nonce = nonce[c]
       /\ pc[c] = "checkNonce" => copy[c] = FAuth

-----------------------------------------------------------------------------
\* The settings that are stored in the initial state, and those that a save
\* writes, are in the form that loading gives back; loading changes nothing.
LEMMA LoadIsStore ==
    ASSUME store \in Settings, StoredForm
    PROVE  Load = store
BY DEF Load, Settings, StoredForm, UploadFolderForStorage

LEMMA SavedForm ==
    ASSUME NEW s \in Settings, NEW folder \in Folders \cup {NoFolder},
           s.UploadFolder = UploadFolderForStorage(folder)
    PROVE  /\ Saved(s) = s
           /\ s.UploadFolder # DefaultFolder
           /\ EffectiveUploadFolder(s) = IF folder = NoFolder THEN DefaultFolder ELSE folder
BY FolderAssumption DEF Saved, Settings, UploadFolderForStorage, EffectiveUploadFolder

LEMMA DefaultIsSettings ==
    ASSUME NoName \in Names
    PROVE  DefaultSettings \in Settings
BY DEF DefaultSettings, Settings, AuthSettings

\* What SaveToSettings puts together.
LEMMA FromPage ==
    ASSUME TypeOK, NEW enabled \in BOOLEAN, NEW name \in Names,
           NEW password \in Passwords \cup {NoPassword}, NEW checked \in SUBSET Interfaces
    PROVE  /\ AuthFromPage(enabled, name, password) \in AuthSettings
           /\ ExcludedFromPage(checked) \in SUBSET Interfaces
<1>1. page.Auth \in AuthSettings /\ page.ExcludedInterfaces \in SUBSET Interfaces
  BY DEF TypeOK, Settings
<1>2. form.boxes \in SUBSET Interfaces
  BY DEF TypeOK
<1>3. IsChecked("auth", enabled) \in BOOLEAN
  BY DEF IsChecked
<1>4. password # NoPassword => ComputeHa1(name, password) \in Hashes
  BY DEF ComputeHa1, Hashes
<1>5. page.Auth.Ha1 \in Hashes \cup {NoHash}
  BY <1>1 DEF AuthSettings
<1>6. AuthFromPage(enabled, name, password) \in AuthSettings
  BY <1>3, <1>4, <1>5 DEF AuthFromPage, AuthSettings
<1> QED
  BY <1>1, <1>2, <1>6 DEF ExcludedFromPage

-----------------------------------------------------------------------------
LEMMA TypeInit == Init => TypeOK
<1> SUFFICES ASSUME Init PROVE TypeOK
  OBVIOUS
<1>1. DefaultSettings \in Settings /\ DefaultSettings.Auth \in AuthSettings
  BY NameAssumption, DefaultIsSettings DEF Settings
<1>2. AuthTypeOK
  BY <1>1, TimeAssumption DEF Init, AuthInit, AuthTypeOK, Times
<1> QED
  BY <1>1, <1>2, FolderAssumption, BoundAssumption DEF Init, TypeOK, NoForm

LEMMA TypeAuthStep ==
    ASSUME TypeOK, NEW c \in Clients, Send(c) \/ CopySettings(c) \/ Verify(c) \/ Challenge(c)
    PROVE  AuthTypeOK'
<1>0. AuthTypeOK
  BY DEF TypeOK
<1>1. NonceSecret \in Hashes \cup {NoHash} /\ MakeNonce \in Nonces
  BY <1>0 DEF AuthTypeOK, AuthSettings, NonceSecret, MakeNonce, Nonces
<1>2. CASE Send(c)
  <2>1. header' \in [Clients -> Headers \cup {NoHeader}] /\ refusals' \in [Clients -> 0 .. 2]
    <3>1. CASE nonce[c] = NoNonce
      BY <1>0, <1>2, <3>1 DEF AuthTypeOK, Send
    <3>2. CASE nonce[c] # NoNonce
      <4>1. nonce[c] \in Nonces
        BY <1>0, <3>2 DEF AuthTypeOK
      <4>2. PICK user \in Names, password \in Hashes, n \in {0, refusals[c]} :
               /\ header' = [header EXCEPT ![c] = [user |-> user, hash |-> password, nonce |-> nonce[c]]]
               /\ refusals' = [refusals EXCEPT ![c] = n]
        BY <1>2, <3>2 DEF Send
      <4>3. [user |-> user, hash |-> password, nonce |-> nonce[c]] \in Headers
        BY <4>1 DEF Headers
      <4> QED
        BY <1>0, <4>2, <4>3 DEF AuthTypeOK
    <3> QED
      BY <3>1, <3>2
  <2> QED
    BY <1>0, <1>2, <2>1 DEF AuthTypeOK, Send, Served
<1>3. CASE CopySettings(c)
  <2>1. PICK next \in {"granted", "checkNonce", "challenge"} : pc' = [pc EXCEPT ![c] = next]
    BY <1>3 DEF CopySettings
  <2> QED
    BY <1>0, <1>3, <2>1 DEF AuthTypeOK, CopySettings, Served
<1>4. CASE Verify(c)
  BY <1>0, <1>4 DEF AuthTypeOK, Verify, Served, SignedFor
<1>5. CASE Challenge(c)
  BY <1>0, <1>1, <1>5 DEF AuthTypeOK, Challenge, Served
<1> QED
  BY <1>2, <1>3, <1>4, <1>5

LEMMA TypeSetSettings ==
    ASSUME AuthTypeOK, NEW auth \in AuthSettings, SetSettings(auth)
    PROVE  AuthTypeOK'
BY DEF AuthTypeOK, SetSettings

LEMMA TypeRestartAuth ==
    ASSUME AuthTypeOK, NEW auth \in AuthSettings, RestartAuth(auth)
    PROVE  AuthTypeOK'
BY DEF AuthTypeOK, RestartAuth

LEMMA TypeStep ==
    ASSUME TypeOK, StoredForm, [Next]_vars
    PROVE  TypeOK'
<1>0. Load = store
  BY LoadIsStore DEF TypeOK
<1>1. ASSUME NEW c \in Clients, Send(c) \/ CopySettings(c) \/ Verify(c) \/ Challenge(c),
             UNCHANGED pageVars
      PROVE  TypeOK'
  BY <1>1, TypeAuthStep DEF TypeOK, pageVars
<1>2. CASE ClockChanges /\ UNCHANGED pageVars
  BY <1>2 DEF TypeOK, AuthTypeOK, ClockChanges, pageVars
<1>3. ASSUME NEW missing \in SUBSET Controls, CreateFrame(missing)
      PROVE  TypeOK'
  BY <1>0, <1>3 DEF TypeOK, AuthTypeOK, authVars, CreateFrame, LoadFromSettings, BuildControls,
                    InterfaceChecks
<1>4. CASE Reload
  BY <1>0, <1>4 DEF TypeOK, AuthTypeOK, authVars, Reload, LoadFromSettings
<1>5. CASE DestroyFrame
  BY <1>5 DEF TypeOK, AuthTypeOK, authVars, DestroyFrame, NoForm
<1>6. ASSUME NEW enabled \in BOOLEAN, NEW name \in Names, NEW password \in Passwords \cup {NoPassword},
             NEW features \in SUBSET Features, NEW folder \in Folders \cup {NoFolder},
             NEW checked \in SUBSET Interfaces,
             SaveToSettings(enabled, name, password, features, folder, checked)
      PROVE  TypeOK'
  <2> DEFINE s == [Auth |-> AuthFromPage(enabled, name, password),
                   Features |-> {f \in features : IsChecked(f, TRUE)},
                   UploadFolder |-> UploadFolderForStorage(folder),
                   ExcludedInterfaces |-> ExcludedFromPage(checked)]
  <2>1. s \in Settings
    BY FromPage DEF Settings, UploadFolderForStorage
  <2>2. Saved(s) = s
    BY <2>1, SavedForm
  <2>3. store' = s /\ page' = s /\ shared' = s
    BY <1>6, <2>2 DEF SaveToSettings
  <2>4. AuthTypeOK'
    BY <1>6 DEF TypeOK, AuthTypeOK, SaveToSettings, authVars
  <2>5. count' \in [saves : 0 .. MaxSaves, restarts : 0 .. MaxRestarts]
    BY <1>6, BoundAssumption DEF TypeOK, SaveToSettings
  <2>6. chosen' \in [excluded : SUBSET Interfaces, folder : Folders,
                     password : [Names -> Passwords \cup {NoPassword}]]
    <3>1. chosen.excluded \in SUBSET Interfaces /\ form.boxes \in SUBSET Interfaces
      BY DEF TypeOK
    <3>2. (IF folder = NoFolder THEN DefaultFolder ELSE folder) \in Folders
      BY FolderAssumption
    <3>3. (IF password = NoPassword THEN chosen.password
           ELSE [chosen.password EXCEPT ![name] = password]) \in [Names -> Passwords \cup {NoPassword}]
      BY DEF TypeOK
    <3> QED
      BY <1>6, <3>1, <3>2, <3>3 DEF SaveToSettings
  <2> QED
    BY <1>6, <2>1, <2>3, <2>4, <2>5, <2>6 DEF TypeOK, SaveToSettings
<1>7. CASE ApplyExcluded
  BY <1>7 DEF TypeOK, Settings, AuthTypeOK, authVars, ApplyExcluded
<1>8. CASE ApplyAuth
  <2>1. shared.Auth \in AuthSettings
    BY DEF TypeOK, Settings
  <2> QED
    BY <1>8, <2>1, TypeSetSettings DEF TypeOK, ApplyAuth
<1>9. CASE NetworkChanges
  BY <1>9 DEF TypeOK, AuthTypeOK, authVars, NetworkChanges
<1>10. CASE Restart
  <2>1. store.Auth \in AuthSettings /\ store.ExcludedInterfaces \in SUBSET Interfaces
    BY DEF TypeOK, Settings
  <2>2. AuthTypeOK'
    BY <1>0, <1>10, <2>1, TypeRestartAuth DEF TypeOK, Restart
  <2>3. count' \in [saves : 0 .. MaxSaves, restarts : 0 .. MaxRestarts]
    BY <1>10, BoundAssumption DEF TypeOK, Restart
  <2>4. DefaultSettings \in Settings
    BY NameAssumption, DefaultIsSettings
  <2> QED
    BY <1>0, <1>10, <2>1, <2>2, <2>3, <2>4 DEF TypeOK, Restart, NoForm
<1>11. CASE UNCHANGED vars
  BY <1>11 DEF TypeOK, AuthTypeOK, vars, authVars, pageVars
<1> QED
  BY <1>1, <1>2, <1>3, <1>4, <1>5, <1>6, <1>7, <1>8, <1>9, <1>10, <1>11 DEF Next, AuthNext

-----------------------------------------------------------------------------
\* The copies of the settings, and what the user decided.
PageInv == StoredForm /\ CopiesAgree /\ StoredIsChosen

LEMMA PageInit == Init => PageInv
BY FolderAssumption
   DEF Init, AuthInit, DefaultSettings, NoForm, PageInv, StoredForm, CopiesAgree, StoredIsChosen,
       EffectiveUploadFolder

\* A save: the hash that is stored belongs to a password that was chosen for
\* the name stored with it.
LEMMA SaveKeepsPage ==
    ASSUME TypeOK, PageInv,
           NEW enabled \in BOOLEAN, NEW name \in Names, NEW password \in Passwords \cup {NoPassword},
           NEW features \in SUBSET Features, NEW folder \in Folders \cup {NoFolder},
           NEW checked \in SUBSET Interfaces,
           SaveToSettings(enabled, name, password, features, folder, checked)
    PROVE  PageInv'
<1> DEFINE a == AuthFromPage(enabled, name, password)
<1> DEFINE s == [Auth |-> a,
                 Features |-> {f \in features : IsChecked(f, TRUE)},
                 UploadFolder |-> UploadFolderForStorage(folder),
                 ExcludedInterfaces |-> ExcludedFromPage(checked)]
<1>1. s \in Settings
  BY FromPage DEF Settings, UploadFolderForStorage
<1>2. /\ Saved(s) = s
      /\ s.UploadFolder # DefaultFolder
      /\ EffectiveUploadFolder(s) = IF folder = NoFolder THEN DefaultFolder ELSE folder
  BY <1>1, SavedForm
<1>3. store' = s /\ page' = s /\ shared' = s /\ applying' = "excluded"
  BY <1>2 DEF SaveToSettings
<1>4. page = store
  BY DEF PageInv, CopiesAgree, SaveToSettings
<1>5. StoredForm' /\ CopiesAgree'
  BY <1>2, <1>3 DEF StoredForm, CopiesAgree
<1>6. /\ chosen'.excluded = (chosen.excluded \ form.boxes) \cup (form.boxes \ checked)
      /\ chosen'.folder = IF folder = NoFolder THEN DefaultFolder ELSE folder
      /\ chosen'.password = IF password = NoPassword THEN chosen.password
                            ELSE [chosen.password EXCEPT ![name] = password]
  BY DEF SaveToSettings
<1>7. s.ExcludedInterfaces = chosen'.excluded
  BY <1>4, <1>6 DEF ExcludedFromPage, PageInv, StoredIsChosen
<1>8. a.Ha1 # NoHash => a.Ha1 = ComputeHa1(a.Username, chosen'.password[a.Username])
  <2>1. a.Username = name
    BY DEF AuthFromPage
  <2>2. CASE password # NoPassword
    <3>1. a.Ha1 = ComputeHa1(name, password)
      BY <2>2 DEF AuthFromPage
    <3>2. chosen'.password[name] = password
      BY <1>6, <2>2 DEF TypeOK
    <3> QED
      BY <2>1, <3>1, <3>2
  <2>3. CASE password = NoPassword /\ name # page.Auth.Username
    <3>1. a.Ha1 = NoHash
      BY <2>3 DEF AuthFromPage
    <3> QED
      BY <3>1
  <2>4. CASE password = NoPassword /\ name = page.Auth.Username
    <3>1. a.Ha1 = page.Auth.Ha1
      BY <2>4 DEF AuthFromPage
    <3> QED
      BY <1>4, <1>6, <2>1, <2>4, <3>1 DEF PageInv, StoredIsChosen
  <2> QED
    BY <2>2, <2>3, <2>4
<1>9. StoredIsChosen'
  BY <1>2, <1>3, <1>6, <1>7, <1>8 DEF StoredIsChosen, EffectiveUploadFolder
<1> QED
  BY <1>5, <1>9 DEF PageInv

LEMMA PageStep ==
    ASSUME TypeOK, PageInv, [Next]_vars
    PROVE  PageInv'
<1> USE DEF PageInv
<1>0. Load = store
  BY LoadIsStore DEF TypeOK
<1>1. ASSUME NEW c \in Clients, Send(c) \/ CopySettings(c) \/ Verify(c) \/ Challenge(c),
             UNCHANGED pageVars
      PROVE  PageInv'
  <2>1. FAuth' = FAuth
    BY <1>1 DEF Send, CopySettings, Verify, Challenge
  <2> QED
    BY <1>1, <2>1 DEF pageVars, StoredForm, CopiesAgree, StoredIsChosen, EffectiveUploadFolder
<1>2. CASE ClockChanges /\ UNCHANGED pageVars
  BY <1>2 DEF pageVars, ClockChanges, StoredForm, CopiesAgree, StoredIsChosen, EffectiveUploadFolder
<1>3. ASSUME NEW missing \in SUBSET Controls, CreateFrame(missing)
      PROVE  PageInv'
  BY <1>0, <1>3 DEF CreateFrame, BuildControls, LoadFromSettings, authVars, StoredForm, CopiesAgree, StoredIsChosen,
                    EffectiveUploadFolder
<1>4. CASE Reload
  BY <1>0, <1>4 DEF Reload, LoadFromSettings, authVars, StoredForm, CopiesAgree, StoredIsChosen,
                    EffectiveUploadFolder
<1>5. CASE DestroyFrame
  BY <1>5 DEF DestroyFrame, NoForm, authVars, StoredForm, CopiesAgree, StoredIsChosen, EffectiveUploadFolder
<1>6. ASSUME NEW enabled \in BOOLEAN, NEW name \in Names, NEW password \in Passwords \cup {NoPassword},
             NEW features \in SUBSET Features, NEW folder \in Folders \cup {NoFolder},
             NEW checked \in SUBSET Interfaces,
             SaveToSettings(enabled, name, password, features, folder, checked)
      PROVE  PageInv'
  BY <1>6, SaveKeepsPage
<1>7. CASE ApplyExcluded
  BY <1>7 DEF ApplyExcluded, authVars, StoredForm, CopiesAgree, StoredIsChosen, EffectiveUploadFolder
<1>8. CASE ApplyAuth
  BY <1>8 DEF ApplyAuth, SetSettings, StoredForm, CopiesAgree, StoredIsChosen, EffectiveUploadFolder
<1>9. CASE NetworkChanges
  BY <1>9 DEF NetworkChanges, authVars, StoredForm, CopiesAgree, StoredIsChosen, EffectiveUploadFolder
<1>10. CASE Restart
  BY <1>0, <1>10 DEF Restart, RestartAuth, NoForm, StoredForm, CopiesAgree, StoredIsChosen,
                     EffectiveUploadFolder
<1>11. CASE UNCHANGED vars
  BY <1>11 DEF vars, authVars, pageVars, StoredForm, CopiesAgree, StoredIsChosen, EffectiveUploadFolder
<1> QED
  BY <1>1, <1>2, <1>3, <1>4, <1>5, <1>6, <1>7, <1>8, <1>9, <1>10, <1>11 DEF Next, AuthNext

-----------------------------------------------------------------------------
\* What Authorize goes by.
AuthInv == ReadIsSeen /\ GrantedByTheSettings /\ StaleWhenRight /\ RetryIsRight

LEMMA AuthInvInit == Init => AuthInv
BY DEF Init, AuthInit, AuthInv, ReadIsSeen, GrantedByTheSettings, StaleWhenRight, RetryIsRight

\* CheckNonce by cases, the three of its results being different.
LEMMA NonceResult ==
    ASSUME TypeOK, NEW n \in Nonces
    PROVE  /\ CheckNonce(n) = "valid" <=> n.secret = FAuth.Ha1 /\ now - n.time <= Lifetime
           /\ CheckNonce(n) = "expired" <=> n.secret = FAuth.Ha1 /\ ~(now - n.time <= Lifetime)
<1>1. CASE n.secret # NonceSecret
  <2>1. CheckNonce(n) = "invalid"
    BY <1>1 DEF CheckNonce
  <2> QED
    BY <1>1, <2>1 DEF NonceSecret
<1>2. CASE n.secret = NonceSecret /\ now - n.time <= Lifetime
  <2>1. CheckNonce(n) = "valid"
    BY <1>2 DEF CheckNonce
  <2> QED
    BY <1>2, <2>1 DEF NonceSecret
<1>3. CASE n.secret = NonceSecret /\ ~(now - n.time <= Lifetime)
  <2>1. CheckNonce(n) = "expired"
    BY <1>3 DEF CheckNonce
  <2> QED
    BY <1>3, <2>1 DEF NonceSecret
<1> QED
  BY <1>1, <1>2, <1>3

LEMMA SendKeepsAuth ==
    ASSUME TypeOK, AuthInv, NEW c \in Clients, Send(c)
    PROVE  AuthInv'
<1> USE DEF AuthInv
<1>1. /\ pc' = [pc EXCEPT ![c] = "arrived"] /\ seen' = [seen EXCEPT ![c] = {FAuth}]
      /\ stale' = [stale EXCEPT ![c] = FALSE]
      /\ FAuth' = FAuth /\ now' = now /\ nonce' = nonce /\ copy' = copy
  BY DEF Send
<1>2. PICK h \in Headers \cup {NoHeader}, n \in {0, refusals[c]} :
         /\ header' = [header EXCEPT ![c] = h]
         /\ refusals' = [refusals EXCEPT ![c] = n]
         /\ n # 0 => nonce[c] = NoNonce \/ (SignedFor(h, FAuth) /\ h.nonce = nonce[c])
  <2>1. CASE nonce[c] = NoNonce
    <3>1. refusals' = [refusals EXCEPT ![c] = refusals[c]]
      BY <2>1 DEF Send, TypeOK, AuthTypeOK
    <3> QED
      BY <2>1, <3>1 DEF Send
  <2>2. CASE nonce[c] # NoNonce
    <3>1. PICK user \in Names, password \in Hashes :
             LET h == [user |-> user, hash |-> password, nonce |-> nonce[c]]
             IN  /\ header' = [header EXCEPT ![c] = h]
                 /\ refusals' = [refusals EXCEPT ![c] = IF SignedFor(h, FAuth) THEN @ ELSE 0]
      BY <2>2 DEF Send
    <3>2. [user |-> user, hash |-> password, nonce |-> nonce[c]] \in Headers
      BY <2>2 DEF Headers, TypeOK, AuthTypeOK
    <3> QED
      BY <3>1, <3>2
  <2> QED
    BY <2>1, <2>2
<1>3. ReadIsSeen' /\ GrantedByTheSettings' /\ StaleWhenRight'
  BY <1>1, <1>2 DEF TypeOK, AuthTypeOK, ReadIsSeen, GrantedByTheSettings, StaleWhenRight, RightBut, SignedFor,
                    IsActive
<1>4. refusals[c] # 0 => nonce[c] # NoNonce
  BY NonceAssumption DEF RetryIsRight, TypeOK, AuthTypeOK, Nonces, AuthSettings
<1>5. RetryIsRight'
  BY <1>1, <1>2, <1>4 DEF TypeOK, AuthTypeOK, RetryIsRight, SignedFor
<1> QED
  BY <1>3, <1>5

LEMMA CopyKeepsAuth ==
    ASSUME TypeOK, AuthInv, NEW c \in Clients, CopySettings(c)
    PROVE  AuthInv'
<1> USE DEF AuthInv
<1>1. /\ pc[c] = "arrived" /\ copy' = [copy EXCEPT ![c] = FAuth]
      /\ refusals' = [refusals EXCEPT ![c] = IF IsActive(FAuth) THEN @ ELSE 0]
      /\ UNCHANGED <<FAuth, now, nonce, header, stale, seen>>
  BY DEF CopySettings
<1>2. PICK next \in {"granted", "checkNonce", "challenge"} :
         /\ pc' = [pc EXCEPT ![c] = next]
         /\ next = "granted" <=> ~IsActive(FAuth)
         /\ next = "checkNonce" <=> IsActive(FAuth) /\ header[c] # NoHeader /\ header[c].user = FAuth.Username
  <2>1. CASE ~IsActive(FAuth)
    BY <2>1 DEF CopySettings
  <2>2. CASE IsActive(FAuth) /\ header[c] # NoHeader /\ header[c].user = FAuth.Username
    BY <2>2 DEF CopySettings
  <2>3. CASE IsActive(FAuth) /\ ~(header[c] # NoHeader /\ header[c].user = FAuth.Username)
    BY <2>3 DEF CopySettings
  <2> QED
    BY <2>1, <2>2, <2>3
<1>3. ReadIsSeen' /\ GrantedByTheSettings'
  BY <1>1, <1>2 DEF TypeOK, AuthTypeOK, ReadIsSeen, GrantedByTheSettings, SignedFor, IsActive
<1>4. StaleWhenRight'
  BY <1>1, <1>2 DEF TypeOK, AuthTypeOK, ReadIsSeen, StaleWhenRight, RightBut, SignedFor
<1>5. RetryIsRight'
  BY <1>1, <1>2 DEF TypeOK, AuthTypeOK, RetryIsRight, SignedFor
<1> QED
  BY <1>3, <1>4, <1>5

LEMMA VerifyKeepsAuth ==
    ASSUME TypeOK, AuthInv, NEW c \in Clients, Verify(c)
    PROVE  AuthInv'
<1> USE DEF AuthInv
<1> DEFINE signed == SignedFor(header[c], copy[c])
<1> DEFINE state == CheckNonce(header[c].nonce)
<1>1. /\ pc[c] = "checkNonce"
      /\ pc' = [pc EXCEPT ![c] = IF signed /\ state = "valid" THEN "granted" ELSE "challenge"]
      /\ stale' = [stale EXCEPT ![c] = signed /\ state = "expired"]
      /\ refusals' = [refusals EXCEPT ![c] = IF signed /\ state = "valid" THEN 0 ELSE @]
      /\ UNCHANGED <<FAuth, now, nonce, header, copy, seen>>
  BY DEF Verify
<1>2. copy[c] \in seen[c] /\ FAuth \in seen[c] /\ header[c] # NoHeader
  BY <1>1 DEF ReadIsSeen
<1>3. header[c].nonce \in Nonces
  BY <1>2 DEF TypeOK, AuthTypeOK, Headers
<1>4. /\ state = "valid" <=> header[c].nonce.secret = FAuth.Ha1 /\ now - header[c].nonce.time <= Lifetime
      /\ state = "expired" <=> header[c].nonce.secret = FAuth.Ha1 /\ ~(now - header[c].nonce.time <= Lifetime)
  BY <1>3, NonceResult
<1> HIDE DEF signed, state
<1>5. ReadIsSeen' /\ GrantedByTheSettings'
  BY <1>1, <1>2 DEF TypeOK, AuthTypeOK, ReadIsSeen, GrantedByTheSettings, SignedFor, signed
<1>6. StaleWhenRight'
  <2>1. ASSUME NEW a \in seen[c], RightBut(c, a), pc'[c] = "challenge"
        PROVE  stale'[c]
    <3>1. copy[c] = a /\ FAuth = a
      BY <1>2, <2>1 DEF RightBut
    <3>2. signed
      BY <2>1, <3>1 DEF RightBut, signed
    <3>3. state # "valid"
      BY <1>1, <2>1, <3>2 DEF TypeOK, AuthTypeOK
    <3>4. state = "expired"
      BY <1>4, <2>1, <3>1, <3>3 DEF RightBut
    <3> QED
      BY <1>1, <3>2, <3>4 DEF TypeOK, AuthTypeOK
  <2>2. \A d \in Clients : \A a : RightBut(d, a)' <=> RightBut(d, a)
    BY <1>1 DEF RightBut, SignedFor
  <2>3. pc'[c] \in {"granted", "challenge"}
    BY <1>1 DEF TypeOK, AuthTypeOK
  <2> QED
    BY <1>1, <2>1, <2>2, <2>3 DEF TypeOK, AuthTypeOK, StaleWhenRight
<1>7. RetryIsRight'
  <2>1. ASSUME refusals[c] # 0
        PROVE  signed /\ state = "valid"
    <3>1. /\ SignedFor(header[c], FAuth) /\ copy[c] = FAuth
          /\ header[c].nonce = [time |-> now, secret |-> FAuth.Ha1]
      BY <1>1, <2>1 DEF RetryIsRight
    <3>2. now - now <= Lifetime
      BY TimeAssumption DEF TypeOK, AuthTypeOK, Times
    <3> QED
      BY <1>4, <3>1, <3>2 DEF signed
  <2> QED
    BY <1>1, <2>1 DEF TypeOK, AuthTypeOK, RetryIsRight, SignedFor
<1> QED
  BY <1>5, <1>6, <1>7

LEMMA ChallengeKeepsAuth ==
    ASSUME TypeOK, AuthInv, NEW c \in Clients, Challenge(c)
    PROVE  AuthInv'
<1> USE DEF AuthInv
<1>1. refusals[c] = 0
  BY DEF Challenge, RetryIsRight
<1>2. MakeNonce = [time |-> now, secret |-> FAuth.Ha1]
  BY DEF MakeNonce, NonceSecret
<1>3. ReadIsSeen' /\ GrantedByTheSettings' /\ StaleWhenRight'
  BY DEF Challenge, TypeOK, AuthTypeOK, ReadIsSeen, GrantedByTheSettings, StaleWhenRight, RightBut, SignedFor
<1>4. RetryIsRight'
  BY <1>1, <1>2 DEF Challenge, TypeOK, AuthTypeOK, RetryIsRight, SignedFor
<1> QED
  BY <1>3, <1>4

LEMMA SetSettingsKeepsAuth ==
    ASSUME TypeOK, AuthInv, NEW auth \in AuthSettings, SetSettings(auth)
    PROVE  AuthInv'
<1> USE DEF AuthInv
<1>1. ReadIsSeen' /\ GrantedByTheSettings' /\ RetryIsRight'
  BY DEF SetSettings, TypeOK, AuthTypeOK, ReadIsSeen, GrantedByTheSettings, RetryIsRight, SignedFor
<1>2. ASSUME NEW c \in Clients, NEW a \in seen'[c], pc'[c] \in {"challenge", "refused"}, RightBut(c, a)'
      PROVE  stale'[c]
  <2>1. seen'[c] = {a} /\ seen'[c] = seen[c] \cup {auth}
    BY <1>2 DEF RightBut, SetSettings
  <2>2. FAuth \in seen[c]
    BY <1>2 DEF SetSettings, ReadIsSeen
  <2>3. seen[c] = {a}
    BY <2>1, <2>2
  <2> QED
    BY <1>2, <2>3 DEF SetSettings, StaleWhenRight, RightBut, SignedFor
<1> QED
  BY <1>1, <1>2 DEF StaleWhenRight

\* Between two saves a restart puts the settings into force that are in force.
LEMMA RestartKeepsAuth ==
    ASSUME TypeOK, AuthInv, RestartAuth(FAuth)
    PROVE  AuthInv'
BY DEF AuthInv, RestartAuth, TypeOK, AuthTypeOK, ReadIsSeen, GrantedByTheSettings, StaleWhenRight,
       RightBut, RetryIsRight, SignedFor

LEMMA AuthUnchanged ==
    ASSUME AuthInv, UNCHANGED authVars
    PROVE  AuthInv'
BY DEF AuthInv, authVars, ReadIsSeen, GrantedByTheSettings, StaleWhenRight, RightBut, RetryIsRight, SignedFor,
       IsActive

LEMMA AuthStep ==
    ASSUME TypeOK, PageInv, AuthInv, [Next]_vars
    PROVE  AuthInv'
<1>1. ASSUME NEW c \in Clients, Send(c) \/ CopySettings(c) \/ Verify(c) \/ Challenge(c)
      PROVE  AuthInv'
  BY <1>1, SendKeepsAuth, CopyKeepsAuth, VerifyKeepsAuth, ChallengeKeepsAuth
<1>2. CASE ClockChanges
  BY <1>2 DEF ClockChanges, TypeOK, AuthTypeOK, AuthInv, ReadIsSeen, GrantedByTheSettings, StaleWhenRight,
              RightBut, RetryIsRight, SignedFor, IsActive
<1>3. ASSUME NEW missing \in SUBSET Controls, CreateFrame(missing)
      PROVE  AuthInv'
  BY <1>3, AuthUnchanged DEF CreateFrame
<1>4. CASE Reload \/ DestroyFrame \/ ApplyExcluded \/ NetworkChanges
  BY <1>4, AuthUnchanged DEF Reload, DestroyFrame, ApplyExcluded, NetworkChanges
<1>5. ASSUME NEW enabled \in BOOLEAN, NEW name \in Names, NEW password \in Passwords \cup {NoPassword},
             NEW features \in SUBSET Features, NEW folder \in Folders \cup {NoFolder},
             NEW checked \in SUBSET Interfaces,
             SaveToSettings(enabled, name, password, features, folder, checked)
      PROVE  AuthInv'
  BY <1>5, AuthUnchanged DEF SaveToSettings
<1>6. CASE ApplyAuth
  <2>1. shared.Auth \in AuthSettings
    BY DEF TypeOK, Settings
  <2> QED
    BY <1>6, <2>1, SetSettingsKeepsAuth DEF ApplyAuth
<1>7. CASE Restart
  <2>1. Load = store
    BY LoadIsStore DEF TypeOK, PageInv
  <2>2. Load.Auth = FAuth
    BY <1>7, <2>1 DEF Restart, PageInv, CopiesAgree
  <2> QED
    BY <1>7, <2>2, RestartKeepsAuth DEF Restart
<1>8. CASE UNCHANGED vars
  BY <1>8, AuthUnchanged DEF vars
<1> QED
  BY <1>1, <1>2, <1>3, <1>4, <1>5, <1>6, <1>7, <1>8 DEF Next, AuthNext

-----------------------------------------------------------------------------
\* The inductive invariant of the options page and the authenticator.
Inv == TypeOK /\ PageInv /\ AuthInv

THEOREM Invariant == Spec => []Inv
<1>1. Init => Inv
  BY TypeInit, PageInit, AuthInvInit DEF Inv
<1>2. Inv /\ [Next]_vars => Inv'
  BY TypeStep, PageStep, AuthStep DEF Inv, PageInv
<1> QED
  BY <1>1, <1>2, PTL DEF Spec

\* Type correctness of settings, page and authenticator (settings.cpp,
\* optionsFrame.cpp, digestAuthenticator.cpp).
THEOREM TypeCorrect == Spec => []TypeOK
<1>1. Inv => TypeOK
  BY DEF Inv
<1> QED
  BY Invariant, <1>1, PTL

\* Outside the three steps of a save, what is in force is what is stored
\* (plugin.cpp: FOnSettingsChanged and Initialize).
THEOREM StoredIsInForce == Spec => []InForceIsStored
<1>1. Inv => InForceIsStored
  BY DEF Inv, PageInv, CopiesAgree, InForceIsStored
<1> QED
  BY Invariant, <1>1, PTL

\* What is in force is what the user decided, over any saves, frames with any
\* missing controls, changes of the network and restarts (optionsFrame.cpp:
\* SaveToSettings).
THEOREM ChoicesAreInForce == Spec => []ChoicesInForce
<1>1. Inv => ChoicesInForce
  BY DEF Inv, PageInv, CopiesAgree, StoredIsChosen, ChoicesInForce, PasswordChosen
<1> QED
  BY Invariant, <1>1, PTL

\* Nobody passes Authorize with credentials that were replaced before the
\* request came (digestAuthenticator.cpp: Authorize, SetSettings).
THEOREM GrantsAreJustified == Spec => []GrantedByTheSettings
<1>1. Inv => GrantedByTheSettings
  BY DEF Inv, AuthInv
<1> QED
  BY Invariant, <1>1, PTL

\* A nonce that is old, or older than the server, never makes credentials
\* that are right look wrong (digestAuthenticator.cpp: CheckNonce, Challenge).
THEOREM StaleIsNeverWrong == Spec => []StaleIsNotWrong
<1>1. Inv => StaleIsNotWrong
  <2> SUFFICES ASSUME Inv, NEW c \in Clients, pc[c] = "refused",
                      NEW a \in seen[c], seen[c] = {a}, SignedFor(header[c], a),
                      header[c].nonce.secret = a.Ha1
               PROVE  stale[c]
    BY DEF StaleIsNotWrong
  <2> QED
    BY DEF Inv, AuthInv, StaleWhenRight, RightBut
<1> QED
  BY Invariant, <1>1, PTL

\* The nonce of a challenge is accepted (digestAuthenticator.cpp: MakeNonce).
THEOREM OneRetrySuffices == Spec => []OneRetryIsEnough
<1>1. Inv => OneRetryIsEnough
  <2> SUFFICES ASSUME Inv, NEW c \in Clients PROVE refusals[c] <= 1
    BY DEF OneRetryIsEnough
  <2>1. refusals[c] = 0 \/ refusals[c] = 1
    BY DEF Inv, AuthInv, RetryIsRight
  <2> QED
    BY <2>1
<1> QED
  BY Invariant, <1>1, PTL

=============================================================================

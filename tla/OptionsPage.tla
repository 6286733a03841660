----------------------------- MODULE OptionsPage -----------------------------
(***************************************************************************)
(* The plugin's settings (src/settings.cpp), the page of AIMP's options    *)
(* dialog that edits them (src/optionsFrame.cpp), and how they come into   *)
(* force (src/plugin.cpp).  Everything here runs on the main thread, but a *)
(* new set of settings is put into force in three steps under three locks, *)
(* and pool threads authorize requests between them (DigestAuthenticator). *)
(*                                                                         *)
(* AIMP's configuration, which survives a restart, is store.  What the     *)
(* user does to the controls between loading and saving is the argument of *)
(* SaveToSettings.                                                         *)
(***************************************************************************)
EXTENDS DigestAuthenticator

CONSTANTS
    Interfaces,     \* network interfaces of the computer
    Features,       \* the permissions: physical deletion, upload, timer, browsing
    Folders,        \* folders for uploaded tracks
    DefaultFolder,  \* DefaultUploadFolder()
    NoFolder,       \* the empty folder
    NoPassword,     \* the password field is left empty
    Controls,       \* controls that AIMP may fail to create: "auth", "user",
                    \* "password", "folder" and one check box per feature
    MaxSaves,       \* bound on the saves of the page
    MaxRestarts     \* bound on the restarts of the player

ASSUME FolderAssumption == NoFolder \notin Folders /\ DefaultFolder \in Folders
ASSUME PasswordAssumption == NoPassword \notin Passwords
ASSUME BoundAssumption == MaxSaves \in Nat /\ MaxRestarts \in Nat

VARIABLES
    store,      \* AIMP's configuration
    shared,     \* AIMPPlugin::FSettings, which the commands read
    FExcluded,  \* NetworkWatcher: the interfaces not to listen on
    page,       \* OptionsFrame::FSettings
    form,       \* the frame: whether it exists, its FInterfaceChecks, and the
                \* controls that could not be created
    applying,   \* FOnSettingsChanged: the step it takes next
    present,    \* the interfaces that have an address now
    chosen,     \* (history) what the user decided: see ChoicesInForce
    count       \* saves and restarts so far

pageVars == <<store, shared, FExcluded, page, form, applying, present, chosen, count>>
vars == <<authVars, pageVars>>

Settings ==
    [Auth : AuthSettings, Features : SUBSET Features,
     UploadFolder : Folders \cup {NoFolder}, ExcludedInterfaces : SUBSET Interfaces]

TypeOK ==
    /\ AuthTypeOK
    /\ store \in Settings /\ shared \in Settings /\ page \in Settings
    /\ FExcluded \in SUBSET Interfaces
    /\ form \in [open : BOOLEAN, boxes : SUBSET Interfaces, missing : SUBSET Controls]
    /\ applying \in {"no", "excluded", "auth"}
    /\ present \in SUBSET Interfaces
    /\ chosen \in [excluded : SUBSET Interfaces, folder : Folders,
                   password : [Names -> Passwords \cup {NoPassword}]]
    /\ count \in [saves : 0 .. MaxSaves, restarts : 0 .. MaxRestarts]

\* The member initializers of Settings: a configuration without the keys.
DefaultSettings ==
    [Auth |-> [Enabled |-> FALSE, Username |-> NoName, Ha1 |-> NoHash],
     Features |-> {}, UploadFolder |-> NoFolder, ExcludedInterfaces |-> {}]

\* The page before its first frame.
NoForm == [open |-> FALSE, boxes |-> {}, missing |-> {}]

Init ==
    /\ AuthInit(DefaultSettings.Auth)
    /\ store = DefaultSettings /\ shared = DefaultSettings /\ page = DefaultSettings
    /\ FExcluded = {}
    /\ form = NoForm
    /\ applying = "no"
    /\ present \in SUBSET Interfaces
    /\ chosen = [excluded |-> {}, folder |-> DefaultFolder,
                 password |-> [u \in Names |-> NoPassword]]
    /\ count = [saves |-> 0, restarts |-> 0]

-----------------------------------------------------------------------------
\* ComputeHa1: the MD5 of name, realm and password.
ComputeHa1(name, password) == <<name, password>>

\* UploadFolderForStorage: the default folder is stored as the empty one.
UploadFolderForStorage(folder) == IF folder = DefaultFolder THEN NoFolder ELSE folder

\* EffectiveUploadFolder.
EffectiveUploadFolder(s) == IF s.UploadFolder = NoFolder THEN DefaultFolder ELSE s.UploadFolder

\* Settings::Load and Settings::Save.
Load == [store EXCEPT !.UploadFolder = UploadFolderForStorage(@)]
Saved(s) == [s EXCEPT !.UploadFolder = UploadFolderForStorage(@)]

-----------------------------------------------------------------------------
\* LoadFromSettings: the controls show what is stored.
LoadFromSettings == page' = Load

\* BuildConnectionGroup: a check box for each interface that has an address
\* at this moment.
InterfaceChecks(missing) == present \ missing

\* The other groups: a control that could not be created is null.
BuildControls(missing) == [open |-> TRUE, boxes |-> InterfaceChecks(missing), missing |-> missing]

\* CreateFrame: the dialog shows the page; some controls may not come about.
CreateFrame(missing) ==
    /\ ~form.open /\ applying = "no"
    /\ form' = BuildControls(missing)
    /\ LoadFromSettings
    /\ UNCHANGED <<authVars, store, shared, FExcluded, applying, present, chosen, count>>

\* Notification with _LOAD: the check boxes stay those of CreateFrame.
Reload ==
    /\ applying = "no"
    /\ LoadFromSettings
    /\ UNCHANGED <<authVars, store, shared, FExcluded, form, applying, present, chosen, count>>

DestroyFrame ==
    /\ form.open /\ applying = "no"
    /\ form' = NoForm
    /\ UNCHANGED <<authVars, store, shared, FExcluded, page, applying, present, chosen, count>>

-----------------------------------------------------------------------------
\* IsChecked: a check box that does not exist is not checked.
IsChecked(control, checked) == checked /\ control \notin form.missing

\* (mutant) A new user name keeps the old password's hash.
AuthFromPageKeepingHash(enabled, name, password) ==
    LET a == page.Auth
    IN  [Enabled  |-> IsChecked("auth", enabled),
         Username |-> name,
         Ha1      |-> IF password # NoPassword THEN ComputeHa1(name, password) ELSE a.Ha1]

\* The authentication group: an empty password keeps the hash, but the hash of
\* one user name is of no use with another.
AuthFromPage(enabled, name, password) ==
    LET a == page.Auth
    IN  [Enabled  |-> IsChecked("auth", enabled),
         Username |-> name,
         Ha1      |-> CASE password # NoPassword -> ComputeHa1(name, password)
                        [] password = NoPassword /\ name # a.Username -> NoHash
                        [] OTHER -> a.Ha1]

\* (mutant) The list is made anew from the check boxes.
ExcludedFromBoxesOnly(checked) == form.boxes \ checked

\* The check boxes decide for their interfaces; interfaces that have none,
\* because they are absent, stay as they are.
ExcludedFromPage(checked) == (page.ExcludedInterfaces \ form.boxes) \cup (form.boxes \ checked)

\* SaveToSettings up to the first step of the handler: the shared settings.
\* A text field that does not exist keeps the loaded text.
SaveToSettings(enabled, name, password, features, folder, checked) ==
    /\ form.open /\ applying = "no"
    /\ count.saves < MaxSaves
    /\ "user" \in form.missing => name = page.Auth.Username
    /\ "password" \in form.missing => password = NoPassword
    /\ "folder" \in form.missing => folder = EffectiveUploadFolder(page)
    /\ LET s == [Auth |-> AuthFromPage(enabled, name, password),
                 Features |-> {f \in features : IsChecked(f, TRUE)},
                 UploadFolder |-> UploadFolderForStorage(folder),
                 ExcludedInterfaces |-> ExcludedFromPage(checked)]
       IN  /\ store' = Saved(s)
           /\ page' = s
           /\ shared' = s
    /\ applying' = "excluded"
    /\ chosen' = [excluded |-> (chosen.excluded \ form.boxes) \cup (form.boxes \ checked),
                  folder   |-> IF folder = NoFolder THEN DefaultFolder ELSE folder,
                  password |-> IF password = NoPassword THEN chosen.password
                               ELSE [chosen.password EXCEPT ![name] = password]]
    /\ count' = [count EXCEPT !.saves = @ + 1]
    /\ UNCHANGED <<authVars, FExcluded, form, present>>

\* FNetworkWatcher.SetExcludedInterfaces.
ApplyExcluded ==
    /\ applying = "excluded"
    /\ FExcluded' = shared.ExcludedInterfaces
    /\ applying' = "auth"
    /\ UNCHANGED <<authVars, store, shared, page, form, present, chosen, count>>

\* (mutant) The server is not told.
ForgetAuth ==
    /\ applying = "auth"
    /\ applying' = "no"
    /\ UNCHANGED <<authVars, store, shared, FExcluded, page, form, present, chosen, count>>

\* FRemoteControlServer->ApplySettings.
ApplyAuth ==
    /\ applying = "auth"
    /\ SetSettings(shared.Auth)
    /\ applying' = "no"
    /\ UNCHANGED <<store, shared, FExcluded, page, form, present, chosen, count>>

\* Interfaces come and go.
NetworkChanges ==
    /\ present' \in SUBSET Interfaces \ {present}
    /\ UNCHANGED <<authVars, store, shared, FExcluded, page, form, applying, chosen, count>>

\* The player is closed and started again: AIMPPlugin::Initialize.
Restart ==
    /\ applying = "no"
    /\ count.restarts < MaxRestarts
    /\ RestartAuth(Load.Auth)
    /\ shared' = Load
    /\ FExcluded' = Load.ExcludedInterfaces
    /\ page' = DefaultSettings
    /\ form' = NoForm
    /\ count' = [count EXCEPT !.restarts = @ + 1]
    /\ UNCHANGED <<store, applying, present, chosen>>

Next ==
    \/ AuthNext /\ UNCHANGED pageVars
    \/ \E missing \in SUBSET Controls : CreateFrame(missing)
    \/ Reload
    \/ DestroyFrame
    \/ \E enabled \in BOOLEAN, name \in Names, password \in Passwords \cup {NoPassword},
          features \in SUBSET Features, folder \in Folders \cup {NoFolder}, checked \in SUBSET Interfaces :
          SaveToSettings(enabled, name, password, features, folder, checked)
    \/ ApplyExcluded
    \/ ApplyAuth
    \/ NetworkChanges
    \/ Restart

Spec == Init /\ [][Next]_vars

-----------------------------------------------------------------------------
\* Between two saves, and after a restart, what the commands, the network
\* watcher and the authenticator go by is what AIMP has stored: the three
\* steps put the same settings into force, and storing and loading keeps them.
InForceIsStored ==
    applying = "no" =>
       /\ shared = store
       /\ FExcluded = store.ExcludedInterfaces
       /\ FAuth = store.Auth

\* A password that is asked for is the one the user last saved together with
\* the user name that is in force.
PasswordChosen ==
    FAuth.Ha1 # NoHash => FAuth.Ha1 = ComputeHa1(FAuth.Username, chosen.password[FAuth.Username])

\* What is in force is what the user decided, over any number of frames,
\* interfaces that come and go, saves and restarts: an excluded interface stays
\* excluded until the user checks its box, uploads go to the folder that was
\* shown when the page was saved, and no password outlives its user name.
ChoicesInForce ==
    applying = "no" =>
       /\ FExcluded = chosen.excluded
       /\ EffectiveUploadFolder(shared) = chosen.folder
       /\ PasswordChosen

\* A request passes Authorize only with the credentials of settings that were
\* in force at some moment since it arrived, or while none were asked for: a
\* request that begins after new credentials are in force needs those, however
\* the reads of the settings interleave with their replacement.
GrantedByTheSettings ==
    \A c \in Clients : pc[c] = "granted" =>
       \E a \in seen[c] : ~IsActive(a) \/ SignedFor(header[c], a)

\* A client whose credentials are right, and stay right while it is served, is
\* never told that they are wrong because of its nonce, be it old or from
\* before a restart: the challenge says stale=true, and the user is not asked.
StaleIsNotWrong ==
    \A c \in Clients :
       /\ pc[c] = "refused"
       /\ \E a \in seen[c] :
             /\ seen[c] = {a}
             /\ SignedFor(header[c], a)
             /\ header[c].nonce.secret = a.Ha1
       => stale[c]

\* As long as neither the settings nor the clock change, a client with the
\* right credentials is refused once at most: the nonce of the challenge is
\* accepted.
OneRetryIsEnough == \A c \in Clients : refusals[c] <= 1
=============================================================================

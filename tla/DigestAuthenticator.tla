------------------------- MODULE DigestAuthenticator -------------------------
(***************************************************************************)
(* src/digestAuthenticator.cpp: HTTP Digest authentication of the requests *)
(* that the pool threads serve, with a nonce that is verified without      *)
(* state.  Authorize takes FMutex up to three times - for its copy of the  *)
(* settings, for the secret the nonce is checked with, and for the secret  *)
(* of a new nonce - and the main thread may replace the settings between.  *)
(*                                                                         *)
(* MD5 is taken to be injective, so that ComputeHa1(name, password) is the *)
(* pair of the two, and a nonce is the pair of its time and the Ha1 that   *)
(* its secret was made from.                                               *)
(***************************************************************************)
EXTENDS Integers

CONSTANTS
    Clients,     \* the app's instances, each with one request at a time
    Names,       \* user names, NoName among them
    NoName,      \* the empty user name
    Passwords,
    NoHash,      \* the empty Ha1
    NoNonce,     \* a client has no nonce yet
    NoHeader,    \* a request without Authorization header
    Lifetime,    \* NonceLifetime
    MaxTime      \* bound on the clock

Hashes == Names \X Passwords

ASSUME NameAssumption == NoName \in Names
ASSUME HashAssumption == NoHash \notin Hashes
ASSUME TimeAssumption == Lifetime \in Nat /\ MaxTime \in Nat

Times == 0 .. MaxTime

\* struct Settings::AuthSettings
AuthSettings == [Enabled : BOOLEAN, Username : Names, Ha1 : Hashes \cup {NoHash}]

Nonces == [time : Times, secret : Hashes \cup {NoHash}]

ASSUME NonceAssumption == NoNonce \notin Nonces

\* An Authorization header: the user it names, and what its response is made
\* from.  The response covers the path and the qop, and the realm is part of
\* the hash: a header in which one of these is not the server's stands here as
\* one that is signed with another hash.
Headers == [user : Names, hash : Hashes, nonce : Nonces]

ASSUME HeaderAssumption == NoHeader \notin Headers

VARIABLES
    FAuth,    \* DigestAuthenticator::FSettings
    now,      \* NowSeconds(), the system's clock
    nonce,    \* nonce[c]: the nonce client c keeps
    pc,       \* pc[c]: how far Authorize is with c's request
    header,   \* header[c]: the request's header
    copy,     \* copy[c]: the local copy of the settings
    stale,    \* stale[c]: the challenge says stale=true
    seen,     \* (history) seen[c]: settings in force since c's request arrived
    refusals  \* (history) refusals[c]: see OneRetryIsEnough

authVars == <<FAuth, now, nonce, pc, header, copy, stale, seen, refusals>>

Served == {"granted", "refused"}

AuthTypeOK ==
    /\ FAuth \in AuthSettings
    /\ now \in Times
    /\ nonce \in [Clients -> Nonces \cup {NoNonce}]
    /\ pc \in [Clients -> {"idle", "arrived", "checkNonce", "challenge"} \cup Served]
    /\ header \in [Clients -> Headers \cup {NoHeader}]
    /\ copy \in [Clients -> AuthSettings]
    /\ stale \in [Clients -> BOOLEAN]
    /\ seen \in [Clients -> SUBSET AuthSettings]
    /\ refusals \in [Clients -> 0 .. 2]

AuthInit(auth) ==
    /\ FAuth = auth
    /\ now = 0
    /\ nonce = [c \in Clients |-> NoNonce]
    /\ pc = [c \in Clients |-> "idle"]
    /\ header = [c \in Clients |-> NoHeader]
    /\ copy = [c \in Clients |-> auth]
    /\ stale = [c \in Clients |-> FALSE]
    /\ seen = [c \in Clients |-> {}]
    /\ refusals = [c \in Clients |-> 0]

-----------------------------------------------------------------------------
\* Settings::AuthSettings::IsActive.
IsActive(a) == a.Enabled /\ a.Username # NoName /\ a.Ha1 # NoHash

\* NonceSecret: derived from what is in force at that moment.
NonceSecret == FAuth.Ha1

\* (mutant) Every nonce has the time at which the server began.
MakeNonceOnce == [time |-> 0, secret |-> NonceSecret]

MakeNonce == [time |-> now, secret |-> NonceSecret]

\* The header is signed with the credentials of settings a.
SignedFor(h, a) == h # NoHeader /\ h.user = a.Username /\ h.hash = a.Ha1

\* (mutant) A nonce that is too old is no nonce of this server.
CheckNonceOldIsInvalid(n) ==
    IF n.secret = NonceSecret /\ now - n.time <= Lifetime THEN "valid" ELSE "invalid"

\* CheckNonce.
CheckNonce(n) ==
    CASE n.secret # NonceSecret -> "invalid"
      [] n.secret = NonceSecret /\ now - n.time <= Lifetime -> "valid"
      [] OTHER -> "expired"

-----------------------------------------------------------------------------
\* The app sends a request.  It signs with the nonce it has kept, if any, and
\* with the name and the password that the user typed.
Send(c) ==
    /\ pc[c] \in {"idle"} \cup Served
    /\ pc' = [pc EXCEPT ![c] = "arrived"]
    /\ seen' = [seen EXCEPT ![c] = {FAuth}]
    /\ stale' = [stale EXCEPT ![c] = FALSE]
    /\ \/ /\ nonce[c] = NoNonce
          /\ header' = [header EXCEPT ![c] = NoHeader]
          /\ UNCHANGED refusals
       \/ /\ nonce[c] # NoNonce
          /\ \E user \in Names \ {NoName}, password \in Hashes :
                LET h == [user |-> user, hash |-> password, nonce |-> nonce[c]]
                IN  /\ password[1] # NoName
                    /\ header' = [header EXCEPT ![c] = h]
                    /\ refusals' = [refusals EXCEPT ![c] = IF SignedFor(h, FAuth) THEN @ ELSE 0]
    /\ UNCHANGED <<FAuth, now, nonce, copy>>

\* (mutant) The settings are copied once and kept.
CopySettingsOnce(c) ==
    /\ pc[c] = "arrived"
    /\ pc' = [pc EXCEPT ![c] =
                 CASE ~IsActive(copy[c]) -> "granted"
                   [] IsActive(copy[c]) /\ header[c] # NoHeader /\ header[c].user = copy[c].Username -> "checkNonce"
                   [] OTHER -> "challenge"]
    /\ refusals' = [refusals EXCEPT ![c] = IF IsActive(copy[c]) THEN @ ELSE 0]
    /\ UNCHANGED <<FAuth, now, nonce, header, copy, stale, seen>>

\* Authorize up to CheckNonce: nothing is asked for while authentication is
\* off; no header, another user or another path is refused.
CopySettings(c) ==
    /\ pc[c] = "arrived"
    /\ copy' = [copy EXCEPT ![c] = FAuth]
    /\ pc' = [pc EXCEPT ![c] =
                 CASE ~IsActive(FAuth) -> "granted"
                   [] IsActive(FAuth) /\ header[c] # NoHeader /\ header[c].user = FAuth.Username -> "checkNonce"
                   [] OTHER -> "challenge"]
    /\ refusals' = [refusals EXCEPT ![c] = IF IsActive(FAuth) THEN @ ELSE 0]
    /\ UNCHANGED <<FAuth, now, nonce, header, stale, seen>>

\* The rest of Authorize: the header must be signed with the copied settings
\* over a nonce of the present ones; a nonce that is only too old is stale.
Verify(c) ==
    /\ pc[c] = "checkNonce"
    /\ LET signed == SignedFor(header[c], copy[c])
           state  == CheckNonce(header[c].nonce)
           passed == signed /\ state = "valid"
       IN  /\ pc' = [pc EXCEPT ![c] = IF passed THEN "granted" ELSE "challenge"]
           /\ stale' = [stale EXCEPT ![c] = signed /\ state = "expired"]
           /\ refusals' = [refusals EXCEPT ![c] = IF passed THEN 0 ELSE @]
    /\ UNCHANGED <<FAuth, now, nonce, header, copy, seen>>

\* Challenge, and the client keeps the nonce of the answer.
Challenge(c) ==
    /\ pc[c] = "challenge"
    /\ pc' = [pc EXCEPT ![c] = "refused"]
    /\ nonce' = [nonce EXCEPT ![c] = MakeNonce]
    /\ refusals' = [refusals EXCEPT ![c] = IF @ < 2 THEN @ + 1 ELSE @]
    /\ UNCHANGED <<FAuth, now, header, copy, stale, seen>>

\* The clock of the system moves, or is set to any other time.
ClockChanges ==
    /\ now' \in Times \ {now}
    /\ refusals' = [c \in Clients |-> 0]
    /\ UNCHANGED <<FAuth, nonce, pc, header, copy, stale, seen>>

\* SetSettings, called by AIMPRemoteControlServer::ApplySettings.
SetSettings(auth) ==
    /\ FAuth' = auth
    /\ seen' = [c \in Clients |-> seen[c] \cup {auth}]
    /\ refusals' = [c \in Clients |-> 0]
    /\ UNCHANGED <<now, nonce, pc, header, copy, stale>>

\* The player is closed and started again with settings auth: requests are
\* cut off, the clients keep their nonces.
RestartAuth(auth) ==
    /\ FAuth' = auth
    /\ pc' = [c \in Clients |-> "idle"]
    /\ header' = [c \in Clients |-> NoHeader]
    /\ copy' = [c \in Clients |-> auth]
    /\ stale' = [c \in Clients |-> FALSE]
    /\ seen' = [c \in Clients |-> {}]
    /\ UNCHANGED <<now, nonce, refusals>>

AuthNext ==
    \/ \E c \in Clients : Send(c) \/ CopySettings(c) \/ Verify(c) \/ Challenge(c)
    \/ ClockChanges

=============================================================================

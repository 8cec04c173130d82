------------------------------ MODULE Accounts ------------------------------
(***************************************************************************)
(* The requests under /api/v1/auth: AuthRateLimitMiddleware in front of    *)
(* RegisterUser, LoginUser with its BruteForceGuard, GetCurrentUser,       *)
(* UpdateProfile, UpdateSettings, and the refresh and logout of            *)
(* IdentitySessions, whose sessions these are.                             *)
(*                                                                         *)
(* Repositories, guard and middleware are in memory and never wait, so a   *)
(* request is one step.  An access token is not stored anywhere: what      *)
(* counts is when the last one of a session expires.                       *)
(***************************************************************************)
EXTENDS IdentitySessions, FiniteSets

CONSTANTS Emails,          \* as clients write them
          Normal,          \* strip().lower() of each
          Usernames, Profiles, Ips,
          MaxFailures, FailureWindow,    \* of the guard
          MaxRequests, RequestWindow,    \* of the middleware
          AccessTtl,
          NoAccount, NoEntry

ASSUME AccountsAssumption ==
    /\ Normal \in [Emails -> Emails]
    /\ Profiles # {}
    /\ MaxFailures \in Nat \ {0} /\ FailureWindow \in Nat \ {0}
    /\ MaxRequests \in Nat \ {0} /\ RequestWindow \in Nat \ {0}
    /\ AccessTtl \in Nat
    /\ NoAccount \notin [email : Emails, username : Usernames, profile : Profiles]
    /\ NoEntry \notin [count : Nat, since : Nat]

VARIABLES account,     \* UserRepository and CredentialRepository
          attempts,    \* the guard's entries, by normal email and address
          hits,        \* the middleware's, by address
          access,      \* when the last access token of a session expires
          guesses,     \* history: recent wrong passwords since the last right one
          passed       \* history: recent requests that were let through

accountVars == <<account, attempts, hits, access, guesses, passed>>
allVars == <<vars, accountVars>>

Keys == Emails \X Ips

InitAccounts ==
    /\ Init
    /\ account = [u \in Users |-> NoAccount]
    /\ attempts = [k \in Keys |-> NoEntry]
    /\ hits = [ip \in Ips |-> NoEntry]
    /\ access = [s \in Sessions |-> 0]
    /\ guesses = [k \in Keys |-> {}]
    /\ passed = [ip \in Ips |-> {}]

---------------------------------------------------------------------------
(* Fixed windows, as the guard and the middleware both keep them.          *)

Running(entry, window) == entry # NoEntry /\ now - entry.since < window

(* Wrong variant: the window of an address or a key starts anew with       *)
(* everything that is counted.                                             *)
CountRestarting(entry, window, most) ==
    IF Running(entry, window)
    THEN [count |-> IF entry.count < most THEN entry.count + 1 ELSE most, since |-> now]
    ELSE [count |-> 1, since |-> now]

(* One more; what lies above most is all the same.                         *)
Count(entry, window, most) ==
    IF Running(entry, window)
    THEN [entry EXCEPT !.count = IF @ < most THEN @ + 1 ELSE most]
    ELSE [count |-> 1, since |-> now]

(* The histories hold, of what is within a window of the clock, when it    *)
(* was and that it was the nth then.                                       *)
At(events, time) == {e \in events : e.at = time}

Noted(events) == events \cup {[at |-> now, nth |-> Cardinality(At(events, now)) + 1]}

Recent(events, window, time) == {e \in events : time - e.at < window}

Remember(newGuesses, newPassed) ==
    /\ guesses' = [k \in Keys |-> Recent(newGuesses[k], FailureWindow, now')]
    /\ passed' = [ip \in Ips |-> Recent(newPassed[ip], RequestWindow, now')]

---------------------------------------------------------------------------
(* AuthRateLimitMiddleware.dispatch counts every request ...               *)
Hit(ip) == Count(hits[ip], RequestWindow, MaxRequests + 1)

(* ... and turns away those above the limit.                               *)
TooManyRequests(ip) ==
    /\ Hit(ip).count > MaxRequests
    /\ hits' = [hits EXCEPT ![ip] = Hit(ip)]
    /\ UNCHANGED <<vars, account, attempts, access, guesses, passed>>

Dispatch(ip) ==
    /\ Hit(ip).count <= MaxRequests
    /\ hits' = [hits EXCEPT ![ip] = Hit(ip)]

(* A request that is let through and does not touch the guard.             *)
Handled(ip) ==
    /\ Dispatch(ip)
    /\ UNCHANGED attempts
    /\ Remember(guesses, [passed EXCEPT ![ip] = Noted(@)])

---------------------------------------------------------------------------
(* InMemoryUserRepository.                                                 *)

GetByEmail(email) == {u \in Users : account[u] # NoAccount /\ account[u].email = email}

GetByUsername(username) ==
    {u \in Users : account[u] # NoAccount /\ account[u].username = username}

NewUser(email, username) ==
    [email |-> email, username |-> username, profile |-> CHOOSE p \in Profiles : TRUE]

(* RegisterUser.  u is a fresh id; what is refused changes nothing.        *)
RegisterUser(u, email, username) ==
    /\ account[u] = NoAccount
    /\ account' = IF GetByEmail(Normal[email]) = {} /\ GetByUsername(username) = {}
                  THEN [account EXCEPT ![u] = NewUser(Normal[email], username)]
                  ELSE account
    /\ UNCHANGED <<vars, access>>

(* InMemoryBruteForceGuard.                                                *)
IsBlocked(k) ==
    Running(attempts[k], FailureWindow) /\ attempts[k].count >= MaxFailures

(* Wrong variant: the guard counts an address under the email as written.  *)
KeyAsWritten(email, ip) == <<email, ip>>

GuardKey(email, ip) == <<Normal[email], ip>>

(* LoginUser without success: nothing is tried while the key is blocked,   *)
(* and is_blocked drops an entry whose window is over.                     *)
LoginBlocked(email, ip) ==
    /\ IsBlocked(GuardKey(email, ip))
    /\ UNCHANGED <<vars, account, access>>
    /\ Handled(ip)

LoginFails(email, ip) ==
    LET k == GuardKey(email, ip)
    IN  /\ ~IsBlocked(k)
        /\ UNCHANGED <<vars, account, access>>
        /\ Dispatch(ip)
        /\ attempts' = [attempts EXCEPT ![k] = Count(@, FailureWindow, MaxFailures)]
        /\ Remember([guesses EXCEPT ![<<Normal[email], ip>>] = Noted(@)],
                    [passed EXCEPT ![ip] = Noted(@)])

(* The right password of u: register_success comes before is_active.       *)
LoginAccepted(u, email, ip) ==
    LET k == GuardKey(email, ip)
    IN  /\ u \in GetByEmail(Normal[email])
        /\ ~IsBlocked(k)
        /\ Dispatch(ip)
        /\ attempts' = [attempts EXCEPT ![k] = NoEntry]
        /\ Remember([guesses EXCEPT ![k] = {}], [passed EXCEPT ![ip] = Noted(@)])
        /\ UNCHANGED account

LoginInactive(u, email, ip) ==
    /\ u \notin active
    /\ UNCHANGED <<vars, access>>
    /\ LoginAccepted(u, email, ip)

(* JwtTokenService.issue_access_token, which reads the clock itself.       *)
IssueAccessToken(s) == access' = [access EXCEPT ![s] = now' + AccessTtl]

LoginUser(u, email, ip, s, t) ==
    /\ session[s].user = u
    /\ Login(u, s, t)
    /\ IssueAccessToken(s)
    /\ LoginAccepted(u, email, ip)

---------------------------------------------------------------------------
RefreshAccessToken(t, ip) ==
    /\ \/ DetectReuse(t) /\ UNCHANGED access
       \/ Refresh(t) /\ IF token' = token THEN UNCHANGED access
                                           ELSE IssueAccessToken(token[t].session)
    /\ Handled(ip)
    /\ UNCHANGED account

LogoutUser(t, ip) ==
    /\ Logout(t)
    /\ Handled(ip)
    /\ UNCHANGED <<account, access>>

(* decode_access_token: the signature and exp are all that is looked at.   *)
Decodes(s) == now < access[s]

(* GetCurrentUser reads the user, or refuses one who is not active.        *)
(* UpdateProfile and UpdateSettings do not ask for is_active.              *)
GetCurrentUser(s, ip) ==
    /\ Decodes(s)
    /\ UNCHANGED <<vars, account, access>>
    /\ Handled(ip)

UpdateProfile(s, profile, ip) ==
    /\ Decodes(s)
    /\ account' = [account EXCEPT ![session[s].user].profile = profile]
    /\ UNCHANGED <<vars, access>>
    /\ Handled(ip)

(* Settings are left out of the account.                                   *)
UpdateSettings(s, ip) ==
    /\ Decodes(s)
    /\ UNCHANGED <<vars, account, access>>
    /\ Handled(ip)

---------------------------------------------------------------------------
Request(ip) ==
    \/ TooManyRequests(ip)
    \/ \E u \in Users, email \in Emails, username \in Usernames :
          RegisterUser(u, email, username) /\ Handled(ip)
    \/ \E email \in Emails : LoginBlocked(email, ip) \/ LoginFails(email, ip)
    \/ \E u \in Users, email \in Emails :
          \/ LoginInactive(u, email, ip)
          \/ \E s \in Sessions, t \in Tokens : LoginUser(u, email, ip, s, t)
    \/ \E t \in Tokens : RefreshAccessToken(t, ip) \/ LogoutUser(t, ip)
    \/ \E s \in Sessions :
          \/ GetCurrentUser(s, ip) \/ UpdateSettings(s, ip)
          \/ \E profile \in Profiles : UpdateProfile(s, profile, ip)

(* User.activate and deactivate, which nothing calls, and time.            *)
Elsewhere ==
    /\ Tick \/ \E u \in Users : account[u] # NoAccount /\ SetActive(u)
    /\ Remember(guesses, passed)
    /\ UNCHANGED <<account, attempts, hits, access>>

NextAccounts == Elsewhere \/ \E ip \in Ips : Request(ip)

SpecAccounts == InitAccounts /\ [][NextAccounts]_allVars

---------------------------------------------------------------------------
AccountsTypeOK ==
    /\ TypeOK
    /\ account \in [Users -> {NoAccount} \cup
                              [email : Emails, username : Usernames, profile : Profiles]]
    /\ attempts \in [Keys -> {NoEntry} \cup [count : 1..MaxFailures, since : 0..MaxTime]]
    /\ hits \in [Ips -> {NoEntry} \cup [count : 1..(MaxRequests + 1), since : 0..MaxTime]]
    /\ access \in [Sessions -> 0..(MaxTime + AccessTtl)]
    /\ guesses \in [Keys -> SUBSET [at : 0..MaxTime, nth : Nat \ {0}]]
    /\ passed \in [Ips -> SUBSET [at : 0..MaxTime, nth : Nat \ {0}]]

(* Whatever way the email is written, one address tries fewer than twice   *)
(* max_failures wrong passwords of an account within any window, unless    *)
(* it knows a right one; and fewer than twice max_requests requests are    *)
(* let through from it (a fixed window may end between two bursts).        *)
AttemptsBounded ==
    /\ \A k \in Keys : Cardinality(guesses[k]) < 2 * MaxFailures
    /\ \A ip \in Ips : Cardinality(passed[ip]) < 2 * MaxRequests

(* Nobody is kept out by being kept out: a key is blocked only after       *)
(* max_failures wrong passwords, and a request turned away only after      *)
(* max_requests were let through, within the last window.                  *)
TurnedAwayForCause ==
    /\ \A k \in Keys : IsBlocked(k) => Cardinality(guesses[k]) >= MaxFailures
    /\ \A ip \in Ips : Hit(ip).count > MaxRequests => Cardinality(passed[ip]) >= MaxRequests

(* Access tokens cannot be withdrawn, but none is issued for a session     *)
(* that was revoked or a user who was deactivated, and however often it    *)
(* was refreshed, access ends access_token_ttl_seconds after its session,  *)
(* but for the two pauses between checking that session and signing.       *)
AccessEnds ==
    [][\A s \in Sessions :
          /\ session[s].state = "revoked" \/ session[s].user \notin active =>
                access'[s] = access[s]
          /\ session'[s].state # "new" =>
                access'[s] < session'[s].expires + AccessTtl + 2 * Pause]_allVars
=============================================================================

------------------------- MODULE IdentitySessions -------------------------
(***************************************************************************)
(* Sessions and refresh tokens: LoginUser, RefreshAccessToken, LogoutUser  *)
(* on InMemoryIdentityUnitOfWork, and the entities Session, RefreshToken   *)
(* and User.is_active.                                                     *)
(*                                                                         *)
(* The in-memory repositories never wait, so a use case is one step of the *)
(* event loop; but the clock runs on inside it.  RefreshAccessToken reads  *)
(* it four times, LoginUser twice, and the answers may differ: the last    *)
(* reading, now', is the one the access token is signed with.              *)
(***************************************************************************)
EXTENDS Naturals

CONSTANTS Users, Sessions, Tokens,
          NoSession, NoToken,
          Ttl,       \* refresh_token_ttl_seconds
          Pause,     \* bound of the time between two clock readings
          MaxTime    \* bound of the clock

ASSUME IdentityAssumption ==
    /\ NoSession \notin Sessions
    /\ NoToken \notin Tokens
    /\ Ttl \in Nat \ {0}
    /\ Pause \in Nat
    /\ MaxTime \in Nat

VARIABLES now,
          active,    \* users with is_active
          session,   \* SessionRepository: "new" ids are not in it yet
          token,     \* RefreshTokenRepository: no session, not issued yet
          reused     \* sessions a RefreshTokenReusedError was raised for

vars == <<now, active, session, token, reused>>

Times == 0..(MaxTime + Ttl)

Init ==
    /\ now = 0
    /\ active = Users
    /\ session \in [Sessions -> [state : {"new"}, user : Users, expires : {0}]]
    /\ token = [t \in Tokens |-> [session |-> NoSession, expires |-> 0,
                                  rotatedTo |-> NoToken, revoked |-> FALSE]]
    /\ reused = {}

---------------------------------------------------------------------------
Issued(t) == token[t].session # NoSession

Of(s) == {t \in Tokens : token[t].session = s}

IsRotated(t) == token[t].rotatedTo # NoToken

(* What the next clock reading of a use case may return, within the bounds. *)
Later(t) == {n \in t..(t + Pause) : n <= MaxTime}

NewSession(u, time) == [state |-> "open", user |-> u, expires |-> time + Ttl]

NewToken(s, time) == [session |-> s, expires |-> time + Ttl,
                      rotatedTo |-> NoToken, revoked |-> FALSE]

(* LoginUser, once the password is accepted: a session and its first       *)
(* token, which expire together.  s and t are fresh ids.                   *)
Login(u, s, t) ==
    /\ u \in active
    /\ session[s].state = "new"
    /\ ~Issued(t)
    /\ session' = [session EXCEPT ![s] = NewSession(u, now)]
    /\ token' = [token EXCEPT ![t] = NewToken(s, now)]
    /\ now' \in Later(now)
    /\ UNCHANGED <<active, reused>>

(* Revoke a session and every token issued under it, rotated ones too.     *)
RevokeChain(s) ==
    /\ session' = [session EXCEPT ![s].state = "revoked"]
    /\ token' = [t \in Tokens |-> IF t \in Of(s)
                                  THEN [token[t] EXCEPT !.revoked = TRUE]
                                  ELSE token[t]]

(* LogoutUser: any token ever issued closes its session.                   *)
Logout(t) ==
    /\ Issued(t)
    /\ RevokeChain(token[t].session)
    /\ UNCHANGED <<now, active, reused>>

(* Wrong variant: a reuse is answered with an error and nothing else.      *)
RejectReuse(t) ==
    /\ Issued(t)
    /\ IsRotated(t)
    /\ reused' = reused \cup {token[t].session}
    /\ UNCHANGED <<now, active, session, token>>

(* RefreshAccessToken with a token that has been rotated: reuse.           *)
DetectReuse(t) ==
    /\ Issued(t)
    /\ IsRotated(t)
    /\ reused' = reused \cup {token[t].session}
    /\ RevokeChain(token[t].session)
    /\ UNCHANGED <<now, active>>

(* Wrong variants: the session's expiry, or both revocations, not checked. *)
PassesUnexpired(t, mid) ==
    LET s == token[t].session
    IN  /\ Issued(t) /\ ~IsRotated(t)
        /\ ~token[t].revoked /\ now < token[t].expires
        /\ session[s].state = "open"
        /\ session[s].user \in active

PassesUnrevoked(t, mid) ==
    LET s == token[t].session
    IN  /\ Issued(t) /\ ~IsRotated(t)
        /\ now < token[t].expires
        /\ mid < session[s].expires
        /\ session[s].user \in active

(* Every check before rotate.  token.is_expired() reads the clock now,     *)
(* session.is_expired() at mid.  A token's user is its session's.          *)
Passes(t, mid) ==
    LET s == token[t].session
    IN  /\ Issued(t) /\ ~IsRotated(t)
        /\ ~token[t].revoked /\ now < token[t].expires
        /\ session[s].state = "open" /\ mid < session[s].expires
        /\ session[s].user \in active

(* Wrong variant: a successor is issued without marking the token.         *)
IssueUnrotated(t, u, late) ==
    /\ late < token[t].expires
    /\ ~Issued(u)
    /\ token' = [token EXCEPT ![u] = NewToken(token[t].session, late)]
    /\ now' \in Later(late)
    /\ UNCHANGED <<active, session, reused>>

(* rotate succeeds: the token is spent and its successor issued.  Only     *)
(* last_seen_at of the session changes, which nothing reads.               *)
Issue(t, u, late) ==
    /\ late < token[t].expires
    /\ ~Issued(u)
    /\ token' = [token EXCEPT ![t].rotatedTo = u,
                              ![u] = NewToken(token[t].session, late)]
    /\ now' \in Later(late)
    /\ UNCHANGED <<active, session, reused>>

(* rotate finds the token expired by its own, later reading of the clock,  *)
(* and raises RefreshTokenReusedError; nothing is revoked.                 *)
MisreportReuse(t, late) ==
    /\ late >= token[t].expires
    /\ reused' = reused \cup {token[t].session}
    /\ now' = late
    /\ UNCHANGED <<active, session, token>>

Refresh(t) ==
    \E mid \in Later(now) :
        /\ Passes(t, mid)
        /\ \E late \in Later(mid) :
              \/ \E u \in Tokens : Issue(t, u, late)
              \/ MisreportReuse(t, late)

(* User.activate and User.deactivate.                                      *)
SetActive(u) ==
    /\ active' = IF u \in active THEN active \ {u} ELSE active \cup {u}
    /\ UNCHANGED <<now, session, token, reused>>

Tick ==
    /\ now < MaxTime
    /\ now' = now + 1
    /\ UNCHANGED <<active, session, token, reused>>

Next ==
    \/ \E u \in Users, s \in Sessions, t \in Tokens : Login(u, s, t)
    \/ \E t \in Tokens : Logout(t) \/ DetectReuse(t) \/ Refresh(t)
    \/ \E u \in Users : SetActive(u)
    \/ Tick

Spec == Init /\ [][Next]_vars

---------------------------------------------------------------------------
TypeOK ==
    /\ now \in 0..MaxTime
    /\ active \subseteq Users
    /\ session \in [Sessions -> [state : {"new", "open", "revoked"},
                                 user : Users, expires : Times]]
    /\ token \in [Tokens -> [session : Sessions \cup {NoSession}, expires : Times,
                             rotatedTo : Tokens \cup {NoToken}, revoked : BOOLEAN]]
    /\ reused \subseteq Sessions

(* A token that refresh would not turn away for what happened to it.       *)
Alive(t) == ~IsRotated(t) /\ ~token[t].revoked

(* An open session has exactly one token left alive, so a client is never  *)
(* locked out by rotation and never has two ways in; any other session has *)
(* none (RefreshAccessToken, LogoutUser: a logout is a complete            *)
(* revocation).                                                            *)
OneWayIn ==
    \A s \in Sessions :
        /\ session[s].state = "open" =>
              \E t \in Of(s) : Alive(t) /\ \A u \in Of(s) : Alive(u) => u = t
        /\ session[s].state # "open" => \A t \in Of(s) : ~Alive(t)

(* After a RefreshTokenReusedError nobody gets in through that session any *)
(* more: it is revoked, or was over already.  (rotate raises the error     *)
(* also for a token that expires under the use case's hands, without       *)
(* revoking anything; that this leaves nothing open rests on first tokens  *)
(* expiring with their session and later ones not before it.)              *)
ReuseClosesSession ==
    \A s \in reused : session[s].state = "revoked" \/ now >= session[s].expires

(* A session closed by logout or reuse is never opened again and no token  *)
(* is issued under it any more.                                            *)
RevokedIsFinal ==
    [][\A s \in Sessions :
          session[s].state = "revoked" =>
              session'[s].state = "revoked" /\ Of(s)' = Of(s)]_vars

(* Rotation does not prolong a session: its end stays where login put it,  *)
(* and no token is issued to a refresh that begins after it, although the  *)
(* tokens themselves expire later and later.                               *)
SessionNotProlonged ==
    [][\A s \in Sessions :
          session[s].state # "new" =>
              /\ session'[s].expires = session[s].expires
              /\ now >= session[s].expires => Of(s)' = Of(s)]_vars
===========================================================================

--------------------------- MODULE AccountsProofs ---------------------------
(***************************************************************************)
(* IdentitySessions, type correctness and its four properties; then        *)
(* Accounts, whose sessions are those of IdentitySessions, so that all of  *)
(* it holds there too, and access ends; then the guard against guessing    *)
(* and the limit on requests.  For every set of users, sessions, tokens    *)
(* and addresses, all limits and all times to live.                        *)
(***************************************************************************)
EXTENDS Accounts, OrderedProofs

(* A token is issued under a session that was opened, and does not expire  *)
(* before it.                                                              *)
TokensFit ==
    \A t \in Tokens :
        Issued(t) =>
            /\ session[token[t].session].state # "new"
            /\ session[token[t].session].expires <= token[t].expires

(* Reuse is only reported for sessions that were opened.                   *)
ReusedOpened == \A s \in reused : session[s].state # "new"

(* No session ends later than one that is opened now would, so a token     *)
(* issued now does not expire before its session.                          *)
EndsWithinTtl == \A s \in Sessions : session[s].expires <= now + Ttl

IInv == /\ TypeOK /\ TokensFit /\ ReusedOpened /\ EndsWithinTtl
        /\ OneWayIn /\ ReuseClosesSession

---------------------------------------------------------------------------
(* What each group of actions does, field by field.                        *)

(* A login.                                                                *)
LEMMA LoginEffect ==
    ASSUME TypeOK, NEW u \in Users, NEW s \in Sessions, NEW t \in Tokens, Login(u, s, t)
    PROVE  /\ session[s].state = "new" /\ ~Issued(t)
           /\ now' \in Nat /\ now <= now' /\ now' <= now + Pause
           /\ reused' = reused /\ active' = active
           /\ session'[s] = [state |-> "open", user |-> u, expires |-> now + Ttl]
           /\ \A q \in Sessions \ {s} : session'[q] = session[q]
           /\ token'[t] = NewToken(s, now)
           /\ \A v \in Tokens \ {t} : token'[v] = token[v]
           /\ TypeOK'
<1>1. now + Ttl \in Times
  BY IdentityAssumption DEF TypeOK, Times
<1>2. NewToken(s, now) \in [session : Sessions \cup {NoSession}, expires : Times,
                            rotatedTo : Tokens \cup {NoToken}, revoked : BOOLEAN]
  BY <1>1 DEF NewToken
<1>3. now' \in 0..MaxTime /\ now <= now' /\ now' <= now + Pause
  BY IdentityAssumption DEF Login, Later, TypeOK
<1>4. TypeOK'
  BY <1>1, <1>2, <1>3 DEF Login, NewSession, TypeOK
<1> QED
  BY <1>3, <1>4 DEF Login, NewSession, TypeOK

(* The revocation of a whole session.                                      *)
LEMMA ChainEffect ==
    ASSUME TypeOK, NEW s \in Sessions, RevokeChain(s)
    PROVE  /\ \A q \in Sessions :
                 /\ session'[q].state = IF q = s THEN "revoked" ELSE session[q].state
                 /\ session'[q].expires = session[q].expires
           /\ \A t \in Tokens :
                 /\ token'[t].session = token[t].session
                 /\ token'[t].expires = token[t].expires
                 /\ token'[t].rotatedTo = token[t].rotatedTo
                 /\ token'[t].revoked = (token[t].revoked \/ token[t].session = s)
           /\ session' \in [Sessions -> [state : {"new", "open", "revoked"},
                                         user : Users, expires : Times]]
           /\ token' \in [Tokens -> [session : Sessions \cup {NoSession}, expires : Times,
                                     rotatedTo : Tokens \cup {NoToken}, revoked : BOOLEAN]]
<1>1. \A q \in Sessions : session'[q] = IF q = s THEN [session[q] EXCEPT !.state = "revoked"]
                                        ELSE session[q]
  BY DEF RevokeChain, TypeOK
<1>2. \A t \in Tokens : token'[t] = IF token[t].session = s
                                    THEN [token[t] EXCEPT !.revoked = TRUE] ELSE token[t]
  BY DEF RevokeChain, Of
<1>3. \A t \in Tokens : token[t] \in [session : Sessions \cup {NoSession}, expires : Times,
                                      rotatedTo : Tokens \cup {NoToken}, revoked : BOOLEAN]
  BY DEF TypeOK
<1>4. \A q \in Sessions : session[q] \in [state : {"new", "open", "revoked"},
                                          user : Users, expires : Times]
  BY DEF TypeOK
<1>5. token' \in [Tokens -> [session : Sessions \cup {NoSession}, expires : Times,
                             rotatedTo : Tokens \cup {NoToken}, revoked : BOOLEAN]]
  BY <1>2, <1>3 DEF RevokeChain
<1>6. session' \in [Sessions -> [state : {"new", "open", "revoked"},
                                 user : Users, expires : Times]]
  BY <1>1, <1>4 DEF RevokeChain, TypeOK
<1>7. \A t \in Tokens :
         /\ token'[t].session = token[t].session
         /\ token'[t].expires = token[t].expires
         /\ token'[t].rotatedTo = token[t].rotatedTo
         /\ token'[t].revoked = (token[t].revoked \/ token[t].session = s)
  <2> TAKE t \in Tokens
  <2>1. CASE token[t].session = s
    BY <1>2, <1>3, <2>1
  <2>2. CASE token[t].session # s
    BY <1>2, <1>3, <2>2
  <2> QED
    BY <2>1, <2>2
<1> QED
  BY <1>1, <1>4, <1>5, <1>6, <1>7

(* A rotation.                                                             *)
LEMMA IssueEffect ==
    ASSUME TypeOK, NEW t \in Tokens, NEW u \in Tokens, NEW mid \in Later(now),
           NEW late \in Later(mid), Passes(t, mid), Issue(t, u, late)
    PROVE  /\ token[t].session \in Sessions /\ t # u /\ ~Issued(u)
           /\ now \in Nat /\ mid \in Nat /\ now <= mid /\ mid <= late
           /\ late \in Nat /\ late <= mid + Pause
           /\ now' \in Nat /\ late <= now' /\ now' <= late + Pause
           /\ session[token[t].session].state = "open"
           /\ mid < session[token[t].session].expires
           /\ session' = session /\ reused' = reused
           /\ token'[t] = [token[t] EXCEPT !.rotatedTo = u]
           /\ token'[u] = NewToken(token[t].session, late)
           /\ \A v \in Tokens \ {t, u} : token'[v] = token[v]
           /\ TypeOK'
<1>1. /\ late \in 0..MaxTime /\ mid \in 0..MaxTime /\ now <= mid /\ mid <= late
      /\ late <= mid + Pause
  BY IdentityAssumption DEF Later, TypeOK
<1>a. now' \in 0..MaxTime /\ late <= now' /\ now' <= late + Pause
  BY <1>1, IdentityAssumption DEF Later, Issue
<1>2. late + Ttl \in Times
  BY <1>1, IdentityAssumption DEF Times
<1>3. token[t].session \in Sessions
  BY DEF TypeOK, Passes, Issued
<1>4. NewToken(token[t].session, late)
         \in [session : Sessions \cup {NoSession}, expires : Times,
              rotatedTo : Tokens \cup {NoToken}, revoked : BOOLEAN]
  BY <1>2, <1>3 DEF NewToken
<1>5. t # u
  BY DEF Passes, Issue
<1>6. TypeOK'
  BY <1>a, <1>4 DEF TypeOK, Issue
<1> QED
  BY <1>1, <1>a, <1>3, <1>5, <1>6 DEF TypeOK, Issue, Passes

---------------------------------------------------------------------------
(* Initially nothing is open.                                              *)
LEMMA InitInv == Init => IInv
<1> SUFFICES ASSUME Init PROVE IInv
  OBVIOUS
<1>1. TypeOK
  BY IdentityAssumption DEF Init, TypeOK, Times
<1>2. \A t \in Tokens : token[t].session = NoSession
  BY DEF Init
<1>3. \A s \in Sessions : session[s].state = "new" /\ Of(s) = {}
  BY <1>2, IdentityAssumption DEF Init, Of
<1>4. TokensFit /\ ReusedOpened /\ ReuseClosesSession
  BY <1>2 DEF Init, TokensFit, ReusedOpened, ReuseClosesSession, Issued
<1>5. OneWayIn
  BY <1>3 DEF OneWayIn
<1>6. EndsWithinTtl
  BY IdentityAssumption DEF Init, EndsWithinTtl
<1> QED
  BY <1>1, <1>4, <1>5, <1>6 DEF IInv

(* A login opens a session with one token, and touches no other.           *)
LEMMA LoginInv ==
    ASSUME IInv, NEW u \in Users, NEW s \in Sessions, NEW t \in Tokens, Login(u, s, t)
    PROVE  IInv'
<1> USE DEF IInv
<1>1. /\ session[s].state = "new" /\ ~Issued(t)
      /\ now' \in Nat /\ now <= now' /\ reused' = reused
      /\ session'[s] = [state |-> "open", user |-> u, expires |-> now + Ttl]
      /\ \A q \in Sessions \ {s} : session'[q] = session[q]
      /\ token'[t] = NewToken(s, now)
      /\ \A v \in Tokens \ {t} : token'[v] = token[v]
      /\ TypeOK'
  BY LoginEffect
<1>2. now \in Nat /\ Ttl \in Nat
  BY IdentityAssumption DEF TypeOK
<1>3. \A v \in Tokens \ {t} : Issued(v) => token[v].session \in Sessions /\ token[v].session # s
  BY <1>1 DEF TypeOK, TokensFit, Issued
<1>4. TokensFit'
  BY <1>1, <1>2, <1>3, IdentityAssumption DEF TokensFit, Issued, NewToken
<1>5. ReusedOpened' /\ ReuseClosesSession'
  <2>1. s \notin reused
    BY <1>1 DEF ReusedOpened
  <2>2. \A q \in reused : /\ q \in Sessions /\ session'[q] = session[q]
                          /\ session[q].expires \in Nat
    BY <1>1, <2>1, IdentityAssumption DEF TypeOK, Times
  <2> QED
    BY <1>1, <1>2, <2>2 DEF ReusedOpened, ReuseClosesSession
<1>6. Of(s)' = {t} /\ Alive(t)'
  BY <1>1, <1>3, IdentityAssumption DEF Of, Alive, IsRotated, NewToken, Issued
<1>7. ASSUME NEW q \in Sessions, q # s
      PROVE  Of(q)' = Of(q) /\ \A v \in Of(q) : v \in Tokens /\ Alive(v)' = Alive(v)
  BY <1>1, <1>7, IdentityAssumption DEF Of, Alive, IsRotated, NewToken, Issued
<1>8. OneWayIn'
  <2> SUFFICES ASSUME NEW q \in Sessions
               PROVE  /\ session'[q].state = "open" =>
                            \E v \in Of(q)' : Alive(v)' /\ \A w \in Of(q)' : Alive(w)' => w = v
                      /\ session'[q].state # "open" => \A v \in Of(q)' : ~Alive(v)'
    BY DEF OneWayIn
  <2>1. CASE q = s
    BY <2>1, <1>1, <1>6
  <2>2. CASE q # s
    BY <2>2, <1>1, <1>7 DEF OneWayIn
  <2> QED
    BY <2>1, <2>2
<1>9. EndsWithinTtl'
  BY <1>1, <1>2 DEF EndsWithinTtl, TypeOK, Times
<1> QED
  BY <1>1, <1>4, <1>5, <1>8, <1>9

(* Revoking a whole session leaves none of its tokens alive.               *)
LEMMA ChainInv ==
    ASSUME IInv, NEW s \in Sessions, RevokeChain(s), session[s].state # "new",
           UNCHANGED <<now, active>>, reused' \in {reused, reused \cup {s}}
    PROVE  IInv'
<1> USE DEF IInv
<1>1. /\ \A q \in Sessions :
            /\ session'[q].state = IF q = s THEN "revoked" ELSE session[q].state
            /\ session'[q].expires = session[q].expires
      /\ \A t \in Tokens :
            /\ token'[t].session = token[t].session
            /\ token'[t].expires = token[t].expires
            /\ token'[t].rotatedTo = token[t].rotatedTo
            /\ token'[t].revoked = (token[t].revoked \/ token[t].session = s)
      /\ session' \in [Sessions -> [state : {"new", "open", "revoked"},
                                    user : Users, expires : Times]]
      /\ token' \in [Tokens -> [session : Sessions \cup {NoSession}, expires : Times,
                                rotatedTo : Tokens \cup {NoToken}, revoked : BOOLEAN]]
  BY ChainEffect
<1>2. TypeOK'
  BY <1>1 DEF TypeOK
<1>3. \A t \in Tokens : Issued(t)' = Issued(t) /\ (Issued(t) => token[t].session \in Sessions)
  BY <1>1 DEF Issued, TypeOK
<1>4. TokensFit'
  BY <1>1, <1>3 DEF TokensFit
<1>5. ReusedOpened' /\ ReuseClosesSession'
  BY <1>1 DEF ReusedOpened, ReuseClosesSession, TypeOK
<1>6. \A q \in Sessions : Of(q)' = Of(q)
  BY <1>1 DEF Of
<1>7. \A t \in Tokens : Alive(t)' <=> Alive(t) /\ token[t].session # s
  BY <1>1 DEF Alive, IsRotated
<1>8. OneWayIn'
  <2> SUFFICES ASSUME NEW q \in Sessions
               PROVE  /\ session'[q].state = "open" =>
                            \E v \in Of(q) : Alive(v)' /\ \A w \in Of(q) : Alive(w)' => w = v
                      /\ session'[q].state # "open" => \A v \in Of(q) : ~Alive(v)'
    BY <1>6 DEF OneWayIn
  <2>1. CASE q = s
    BY <2>1, <1>1, <1>7 DEF Of
  <2>2. CASE q # s
    BY <2>2, <1>1, <1>7 DEF Of, OneWayIn
  <2> QED
    BY <2>1, <2>2
<1>9. EndsWithinTtl'
  BY <1>1 DEF EndsWithinTtl
<1> QED
  BY <1>2, <1>4, <1>5, <1>8, <1>9

(* A rotation hands the session's one way in over to the new token.        *)
LEMMA IssueInv ==
    ASSUME IInv, NEW t \in Tokens, NEW u \in Tokens, NEW mid \in Later(now),
           NEW late \in Later(mid), Passes(t, mid), Issue(t, u, late)
    PROVE  IInv'
<1> USE DEF IInv
<1>0. PICK s \in Sessions : s = token[t].session
  BY IssueEffect
<1>1. /\ s \in Sessions /\ t # u /\ ~Issued(u)
      /\ now \in Nat /\ mid \in Nat /\ now <= mid /\ mid <= late
      /\ late \in Nat /\ now' \in Nat /\ late <= now'
      /\ session[s].state = "open"
      /\ mid < session[s].expires
      /\ session' = session /\ reused' = reused
      /\ token'[t] = [token[t] EXCEPT !.rotatedTo = u]
      /\ token'[u] = NewToken(s, late)
      /\ \A v \in Tokens \ {t, u} : token'[v] = token[v]
      /\ TypeOK'
  BY <1>0, IssueEffect
<1>2. token[t] \in [session : Sessions \cup {NoSession}, expires : Times,
                    rotatedTo : Tokens \cup {NoToken}, revoked : BOOLEAN]
  BY DEF TypeOK
<1>3. Issued(t) /\ late < token[t].expires /\ Alive(t)
  BY DEF Passes, Issue, Alive
<1>4. /\ now' \in Nat /\ Ttl \in Nat /\ token[t].expires \in Nat
      /\ \A q \in Sessions : session[q].expires \in Nat
  BY <1>1, IdentityAssumption DEF TypeOK, Times
<1>5. EndsWithinTtl'
  BY <1>1, <1>4 DEF EndsWithinTtl
<1>6. /\ token'[t].session = s /\ token'[t].expires = token[t].expires
      /\ token'[t].rotatedTo = u
  BY <1>0, <1>1, <1>2
<1>7. token'[u].session = s /\ token'[u].expires = late + Ttl
      /\ token'[u].rotatedTo = NoToken /\ ~token'[u].revoked
  BY <1>1 DEF NewToken
<1>8. TokensFit'
  <2> SUFFICES ASSUME NEW v \in Tokens, Issued(v)'
               PROVE  /\ session[token'[v].session].state # "new"
                      /\ session[token'[v].session].expires <= token'[v].expires
    BY <1>1 DEF TokensFit
  <2>1. CASE v = t
    BY <2>1, <1>0, <1>3, <1>6 DEF TokensFit
  <2>2. CASE v = u
    BY <2>2, <1>1, <1>4, <1>7 DEF EndsWithinTtl
  <2>3. CASE v # t /\ v # u
    BY <2>3, <1>1 DEF TokensFit, Issued
  <2> QED
    BY <2>1, <2>2, <2>3
<1>9. ReusedOpened' /\ ReuseClosesSession'
  BY <1>1, <1>4 DEF ReusedOpened, ReuseClosesSession, TypeOK
<1>10. \A v \in Tokens \ {t, u} : Alive(v)' = Alive(v) /\ token'[v].session = token[v].session
  BY <1>1 DEF Alive, IsRotated
<1>11. ~Alive(t)' /\ Alive(u)' /\ u \in Of(s)' /\ u \notin Of(s) /\ t \in Of(s)
  BY <1>0, <1>1, <1>6, <1>7, IdentityAssumption DEF Alive, IsRotated, Of, Issued
<1>12. OneWayIn'
  <2> SUFFICES ASSUME NEW q \in Sessions
               PROVE  /\ session[q].state = "open" =>
                            \E v \in Of(q)' : Alive(v)' /\ \A w \in Of(q)' : Alive(w)' => w = v
                      /\ session[q].state # "open" => \A v \in Of(q)' : ~Alive(v)'
    BY <1>1 DEF OneWayIn
  <2>1. CASE q = s
    <3>1. \A v \in Of(s) : Alive(v) => v = t
      BY <1>1, <1>3, <1>11 DEF OneWayIn
    <3>2. ASSUME NEW w \in Of(s)', Alive(w)' PROVE w = u
      <4>1. w \in Tokens /\ token'[w].session = s
        BY <3>2 DEF Of
      <4>2. CASE w # t /\ w # u
        BY <3>1, <3>2, <4>1, <4>2, <1>10 DEF Of
      <4> QED
        BY <3>2, <4>2, <1>11
    <3> QED
      BY <2>1, <3>2, <1>1, <1>11
  <2>2. CASE q # s
    <3>1. t \notin Of(q) /\ u \notin Of(q)
      BY <2>2, <1>0, <1>1, IdentityAssumption DEF Of, Issued
    <3>2. token'[t].session # q /\ token'[u].session # q
      BY <2>2, <1>6, <1>7
    <3>3. Of(q)' = Of(q)
      BY <3>1, <3>2, <1>10 DEF Of
    <3>4. \A v \in Of(q) : Alive(v)' = Alive(v)
      BY <3>1, <1>10 DEF Of
    <3> QED
      BY <3>3, <3>4 DEF OneWayIn
  <2> QED
    BY <2>1, <2>2
<1> QED
  BY <1>1, <1>5, <1>8, <1>9, <1>12

(* Neither the clock, nor a user, nor a late expiry touches a token.       *)
LEMMA QuietInv ==
    ASSUME IInv, UNCHANGED <<session, token>>,
           now' \in 0..MaxTime, now <= now', active' \subseteq Users,
           reused' \subseteq Sessions, reused \subseteq reused',
           \A s \in reused' \ reused : session[s].state # "new" /\ now' >= session[s].expires
    PROVE  IInv'
<1> USE DEF IInv
<1>1. TypeOK'
  BY DEF TypeOK
<1>2. /\ now \in Nat /\ now' \in Nat /\ Ttl \in Nat
      /\ \A s \in Sessions : session[s].expires \in Nat
  BY IdentityAssumption DEF TypeOK, Times
<1>3. TokensFit' /\ ReusedOpened'
  BY DEF TokensFit, ReusedOpened, Issued
<1>4. EndsWithinTtl'
  BY <1>2 DEF EndsWithinTtl
<1>5. ReuseClosesSession'
  BY <1>1, <1>2 DEF ReuseClosesSession, TypeOK
<1>6. OneWayIn'
  BY DEF OneWayIn, Of, Alive, IsRotated
<1> QED
  BY <1>1, <1>3, <1>4, <1>5, <1>6

(* What a misreported token tells: its session is over as well.            *)
LEMMA MisreportEffect ==
    ASSUME IInv, NEW t \in Tokens, NEW mid \in Later(now), NEW late \in Later(mid),
           Passes(t, mid), MisreportReuse(t, late)
    PROVE  /\ UNCHANGED <<session, token>>
           /\ now' \in 0..MaxTime /\ now <= now' /\ active' \subseteq Users
           /\ token[t].session \in Sessions
           /\ reused' = reused \cup {token[t].session}
           /\ session[token[t].session].state # "new"
           /\ now' >= session[token[t].session].expires
<1> USE DEF IInv
<1>1. late \in 0..MaxTime /\ mid \in 0..MaxTime /\ now <= mid /\ mid <= late
  BY IdentityAssumption DEF Later, TypeOK
<1>2. Issued(t) /\ token[t].session \in Sessions
  BY DEF Passes, TypeOK, Issued
<1>3. /\ session[token[t].session].state # "new"
      /\ session[token[t].session].expires <= token[t].expires
  BY <1>2 DEF TokensFit
<1>4. session[token[t].session].expires \in Nat /\ token[t].expires \in Nat
  BY <1>2, IdentityAssumption DEF TypeOK, Times
<1> QED
  BY <1>1, <1>2, <1>3, <1>4, IdentityAssumption DEF MisreportReuse, TypeOK

(* Every step.                                                             *)
LEMMA NextInv == IInv /\ [Next]_vars => IInv'
<1> SUFFICES ASSUME IInv, [Next]_vars PROVE IInv'
  OBVIOUS
<1> USE DEF IInv
<1>1. ASSUME NEW u \in Users, NEW s \in Sessions, NEW t \in Tokens, Login(u, s, t)
      PROVE  IInv'
  BY <1>1, LoginInv
<1>2. ASSUME NEW t \in Tokens, Logout(t) \/ DetectReuse(t) PROVE IInv'
  <2>1. /\ RevokeChain(token[t].session) /\ UNCHANGED <<now, active>>
        /\ reused' \in {reused, reused \cup {token[t].session}}
    BY <1>2 DEF Logout, DetectReuse
  <2>2. token[t].session \in Sessions /\ session[token[t].session].state # "new"
    BY <1>2 DEF Logout, DetectReuse, Issued, TypeOK, TokensFit
  <2> QED
    BY <2>1, <2>2, ChainInv
<1>3. ASSUME NEW t \in Tokens, NEW mid \in Later(now), NEW late \in Later(mid),
             Passes(t, mid), NEW u \in Tokens, Issue(t, u, late)
      PROVE  IInv'
  BY <1>3, IssueInv
<1>4. ASSUME NEW t \in Tokens, NEW mid \in Later(now), NEW late \in Later(mid),
             Passes(t, mid), MisreportReuse(t, late)
      PROVE  IInv'
  <2>1. /\ UNCHANGED <<session, token>>
        /\ now' \in 0..MaxTime /\ now <= now' /\ active' \subseteq Users
        /\ token[t].session \in Sessions
        /\ reused' = reused \cup {token[t].session}
        /\ session[token[t].session].state # "new"
        /\ now' >= session[token[t].session].expires
    BY <1>4, MisreportEffect
  <2>2. reused \subseteq Sessions
    BY DEF TypeOK
  <2> QED
    BY <2>1, <2>2, QuietInv
<1>5. ASSUME NEW u \in Users, SetActive(u) PROVE IInv'
  <2>1. /\ UNCHANGED <<session, token, reused>> /\ now' = now
        /\ now \in 0..MaxTime /\ active' \subseteq Users /\ reused \subseteq Sessions
    BY <1>5 DEF SetActive, TypeOK
  <2> QED
    BY <2>1, QuietInv, IdentityAssumption
<1>6. CASE Tick
  <2>1. /\ UNCHANGED <<session, token, reused>> /\ active' \subseteq Users
        /\ now' \in 0..MaxTime /\ now <= now' /\ reused \subseteq Sessions
    BY <1>6, IdentityAssumption DEF Tick, TypeOK
  <2> QED
    BY <2>1, QuietInv
<1>7. CASE UNCHANGED vars
  <2>1. /\ UNCHANGED <<session, token, reused>> /\ now' = now
        /\ now \in 0..MaxTime /\ active' \subseteq Users /\ reused \subseteq Sessions
    BY <1>7 DEF vars, TypeOK
  <2> QED
    BY <2>1, QuietInv, IdentityAssumption
<1> QED
  BY <1>1, <1>2, <1>3, <1>4, <1>5, <1>6, <1>7 DEF Next, Refresh

(* The invariant holds throughout.                                         *)
THEOREM Invariance == Spec => []IInv
BY InitInv, NextInv, PTL DEF Spec

(* Type correctness, for every value of the constants.                     *)
THEOREM TypeCorrect == Spec => []TypeOK
BY Invariance, PTL DEF IInv

(* Rotation, logout and reuse detection leave an open session exactly one  *)
(* token that works, and a closed one none.                                *)
THEOREM OneToken == Spec => []OneWayIn
BY Invariance, PTL DEF IInv

(* After a RefreshTokenReusedError the session is closed or over, even     *)
(* when the error came from the clock and revoked nothing.                 *)
THEOREM ReuseCloses == Spec => []ReuseClosesSession
BY Invariance, PTL DEF IInv

---------------------------------------------------------------------------
(* Only a login or a rotation adds a token to a session, and only to one   *)
(* that was new, or open and not over.                                     *)
LEMMA SessionSteps ==
    ASSUME IInv, [Next]_vars, NEW s \in Sessions, session[s].state # "new"
    PROVE  /\ session'[s].expires = session[s].expires
           /\ session[s].state = "revoked" => session'[s].state = "revoked"
           /\ \/ session[s].state = "open" /\ now < session[s].expires
              \/ Of(s)' = Of(s)
<1> USE DEF IInv
<1>1. ASSUME NEW u \in Users, NEW q \in Sessions, NEW t \in Tokens, Login(u, q, t)
      PROVE  session'[s] = session[s] /\ Of(s)' = Of(s)
  <2>1. /\ session[q].state = "new" /\ ~Issued(t)
        /\ \A r \in Sessions \ {q} : session'[r] = session[r]
        /\ token'[t] = NewToken(q, now)
        /\ \A v \in Tokens \ {t} : token'[v] = token[v]
    BY <1>1, LoginEffect
  <2>2. s # q /\ token[t].session # s /\ token'[t].session # s
    BY <2>1, IdentityAssumption DEF NewToken, Issued
  <2> QED
    BY <2>1, <2>2 DEF Of
<1>2. ASSUME NEW t \in Tokens, Logout(t) \/ DetectReuse(t)
      PROVE  /\ session'[s].expires = session[s].expires
             /\ session[s].state = "revoked" => session'[s].state = "revoked"
             /\ Of(s)' = Of(s)
  <2>1. RevokeChain(token[t].session) /\ token[t].session \in Sessions
    BY <1>2 DEF Logout, DetectReuse, Issued, TypeOK
  <2>2. /\ \A q \in Sessions :
              /\ session'[q].state = IF q = token[t].session THEN "revoked" ELSE session[q].state
              /\ session'[q].expires = session[q].expires
        /\ \A v \in Tokens : token'[v].session = token[v].session
    BY <2>1, ChainEffect
  <2> QED
    BY <2>2 DEF Of
<1>3. ASSUME NEW t \in Tokens, NEW mid \in Later(now), NEW late \in Later(mid),
             Passes(t, mid), NEW u \in Tokens, Issue(t, u, late)
      PROVE  /\ session'[s] = session[s]
             /\ \/ session[s].state = "open" /\ now < session[s].expires
                \/ Of(s)' = Of(s)
  <2>1. /\ token[t].session \in Sessions /\ ~Issued(u)
        /\ now \in Nat /\ mid \in Nat /\ now <= mid
        /\ session[token[t].session].state = "open"
        /\ mid < session[token[t].session].expires
        /\ session' = session
        /\ token'[t] = [token[t] EXCEPT !.rotatedTo = u]
        /\ token'[u] = NewToken(token[t].session, late)
        /\ \A v \in Tokens \ {t, u} : token'[v] = token[v]
    BY <1>3, IssueEffect
  <2>2. token[t] \in [session : Sessions \cup {NoSession}, expires : Times,
                      rotatedTo : Tokens \cup {NoToken}, revoked : BOOLEAN]
    BY DEF TypeOK
  <2>3. token'[t].session = token[t].session
    BY <2>1, <2>2
  <2>4. session[s].expires \in Nat
    BY IdentityAssumption DEF TypeOK, Times
  <2>5. CASE s = token[t].session
    BY <2>1, <2>4, <2>5
  <2>6. CASE s # token[t].session
    <3>1. token'[u].session # s /\ token[u].session # s
      BY <2>1, <2>6, IdentityAssumption DEF NewToken, Issued
    <3>2. \A v \in Tokens : token'[v].session = s <=> token[v].session = s
      BY <2>1, <2>3, <3>1
    <3> QED
      BY <2>1, <3>2 DEF Of
  <2> QED
    BY <2>5, <2>6
<1>4. CASE UNCHANGED <<session, token>>
  BY <1>4 DEF Of
<1> QED
  BY <1>1, <1>2, <1>3, <1>4
     DEF Next, Refresh, MisreportReuse, SetActive, Tick, vars

(* A revoked session stays revoked and gets no new token.                  *)
THEOREM RevocationLasts == Spec => RevokedIsFinal
<1>1. IInv /\ [Next]_vars =>
        [\A s \in Sessions :
            session[s].state = "revoked" =>
                session'[s].state = "revoked" /\ Of(s)' = Of(s)]_vars
  BY SessionSteps
<1> QED
  BY <1>1, Invariance, PTL DEF Spec, RevokedIsFinal

(* Rotation never prolongs a session.                                      *)
THEOREM NotProlonged == Spec => SessionNotProlonged
<1>1. IInv /\ [Next]_vars =>
        [\A s \in Sessions :
            session[s].state # "new" =>
                /\ session'[s].expires = session[s].expires
                /\ now >= session[s].expires => Of(s)' = Of(s)]_vars
  <2> SUFFICES ASSUME IInv, [Next]_vars, NEW s \in Sessions, session[s].state # "new"
               PROVE  /\ session'[s].expires = session[s].expires
                      /\ now >= session[s].expires => Of(s)' = Of(s)
    OBVIOUS
  <2>1. now \in Nat /\ session[s].expires \in Nat
    BY IdentityAssumption DEF IInv, TypeOK, Times
  <2> QED
    BY <2>1, SessionSteps
<1> QED
  BY <1>1, Invariance, PTL DEF Spec, SessionNotProlonged

---------------------------------------------------------------------------
(* Accounts.                                                               *)

AccessBounded ==
    /\ access \in [Sessions -> Int]
    /\ \A s \in Sessions :
          session[s].state # "new" => access[s] < session[s].expires + AccessTtl + 2 * Pause

---------------------------------------------------------------------------
(* The steps as steps of IdentitySessions.                                 *)
LEMMA RequestsStep == [NextAccounts]_allVars => [Next]_vars
<1> SUFFICES ASSUME [NextAccounts]_allVars PROVE [Next]_vars
  OBVIOUS
<1>1. CASE UNCHANGED allVars
  BY <1>1 DEF allVars
<1>2. CASE Elsewhere
  BY <1>2 DEF Elsewhere, Next
<1>3. ASSUME NEW ip \in Ips, Request(ip) PROVE [Next]_vars
  <2>1. CASE TooManyRequests(ip)
    BY <2>1 DEF TooManyRequests
  <2>2. CASE \E u \in Users, email \in Emails, username \in Usernames :
                RegisterUser(u, email, username) /\ Handled(ip)
    BY <2>2 DEF RegisterUser
  <2>3. CASE \E email \in Emails : LoginBlocked(email, ip) \/ LoginFails(email, ip)
    BY <2>3 DEF LoginBlocked, LoginFails
  <2>4. CASE \E u \in Users, email \in Emails : LoginInactive(u, email, ip)
    BY <2>4 DEF LoginInactive
  <2>5. CASE \E u \in Users, email \in Emails, s \in Sessions, t \in Tokens :
                LoginUser(u, email, ip, s, t)
    BY <2>5 DEF LoginUser, Next
  <2>6. CASE \E t \in Tokens : RefreshAccessToken(t, ip)
    BY <2>6 DEF RefreshAccessToken, Next
  <2>7. CASE \E t \in Tokens : LogoutUser(t, ip)
    BY <2>7 DEF LogoutUser, Next
  <2>8. CASE \E s \in Sessions :
                \/ GetCurrentUser(s, ip) \/ UpdateSettings(s, ip)
                \/ \E profile \in Profiles : UpdateProfile(s, profile, ip)
    BY <2>8 DEF GetCurrentUser, UpdateProfile, UpdateSettings
  <2> QED
    BY <1>3, <2>1, <2>2, <2>3, <2>4, <2>5, <2>6, <2>7, <2>8 DEF Request
<1> QED
  BY <1>1, <1>2, <1>3 DEF NextAccounts

(* The requests under /api/v1/auth use sessions as IdentitySessions does,  *)
(* whatever the guard and the middleware let through.                      *)
THEOREM ImplementsSessions == SpecAccounts => Spec
<1>1. InitAccounts => Init
  BY DEF InitAccounts
<1> QED
  BY <1>1, RequestsStep, PTL DEF SpecAccounts, Spec

---------------------------------------------------------------------------
(* What a step does to the tokens that give access: the one it issues is   *)
(* signed at most two pauses after its session was found open, and a       *)
(* session is only opened with its first access token.                     *)
StillNew(q) == session'[q].state # "new" => session[q].state # "new"

IssuedFor(s) ==
    /\ access' = [access EXCEPT ![s] = now' + AccessTtl]
    /\ session[s].state # "revoked" /\ session[s].user \in active
    /\ now' < session'[s].expires + 2 * Pause
    /\ \A q \in Sessions \ {s} : StillNew(q)

LEMMA LoginIssues ==
    ASSUME TypeOK, NEW u \in Users, NEW email \in Emails, NEW ip \in Ips, NEW s \in Sessions,
           NEW t \in Tokens, LoginUser(u, email, ip, s, t)
    PROVE  IssuedFor(s)
<1>1. Login(u, s, t) /\ session[s].user = u /\ access' = [access EXCEPT ![s] = now' + AccessTtl]
  BY DEF LoginUser, IssueAccessToken
<1>2. /\ session[s].state = "new" /\ now' \in Nat /\ now' <= now + Pause
      /\ session'[s] = [state |-> "open", user |-> u, expires |-> now + Ttl]
      /\ \A q \in Sessions \ {s} : session'[q] = session[q]
  BY <1>1, LoginEffect
<1>3. now \in Nat /\ Ttl \in Nat \ {0} /\ Pause \in Nat
  BY IdentityAssumption DEF TypeOK
<1>4. now' < session'[s].expires + 2 * Pause
  BY <1>2, <1>3
<1>5. u \in active
  BY <1>1 DEF Login
<1> QED
  BY <1>1, <1>2, <1>4, <1>5 DEF IssuedFor, StillNew

LEMMA RefreshIssues ==
    ASSUME TypeOK, NEW t \in Tokens, NEW ip \in Ips, RefreshAccessToken(t, ip), access' # access
    PROVE  token[t].session \in Sessions /\ IssuedFor(token[t].session)
<1> DEFINE s == token[t].session
<1>1. Refresh(t) /\ token' # token /\ access' = [access EXCEPT ![s] = now' + AccessTtl]
  BY DEF RefreshAccessToken, IssueAccessToken
<1>0. PICK mid \in Later(now) :
         Passes(t, mid) /\ \E late \in Later(mid), u \in Tokens : Issue(t, u, late)
  BY <1>1 DEF Refresh, MisreportReuse
<1>2. PICK late \in Later(mid), u \in Tokens : Passes(t, mid) /\ Issue(t, u, late)
  BY <1>0
<1>3. /\ s \in Sessions /\ mid \in Nat /\ late \in Nat /\ now' \in Nat
      /\ late <= mid + Pause /\ now' <= late + Pause
      /\ session[s].state = "open" /\ mid < session[s].expires /\ session' = session
  BY <1>2, IssueEffect
<1>4. session[s].expires \in Nat /\ Pause \in Nat
  BY <1>3, IdentityAssumption DEF TypeOK, Times
<1>5. session[s].user \in active
  BY <1>2 DEF Passes
<1> HIDE DEF s
<1>6. now' < session'[s].expires + 2 * Pause
  BY <1>3, <1>4
<1>7. IssuedFor(s)
  BY <1>1, <1>3, <1>5, <1>6 DEF IssuedFor, StillNew
<1> QED
  BY <1>3, <1>7 DEF s

LEMMA ClosingStaysNew ==
    ASSUME IInv, NEW t \in Tokens, Logout(t) \/ DetectReuse(t), NEW q \in Sessions
    PROVE  StillNew(q)
<1>1. /\ token[t].session \in Sessions /\ session[token[t].session].state # "new"
      /\ RevokeChain(token[t].session)
  BY DEF Logout, DetectReuse, Issued, IInv, TypeOK, TokensFit
<1>2. session'[q].state = IF q = token[t].session THEN "revoked" ELSE session[q].state
  BY <1>1, ChainEffect DEF IInv
<1> QED
  BY <1>1, <1>2 DEF StillNew

LEMMA AccessChanges ==
    ASSUME IInv, [NextAccounts]_allVars
    PROVE  \/ access' = access /\ \A q \in Sessions : StillNew(q)
           \/ \E s \in Sessions : IssuedFor(s)
<1>1. CASE UNCHANGED allVars
  BY <1>1 DEF allVars, accountVars, vars, StillNew
<1>2. CASE Elsewhere
  BY <1>2 DEF Elsewhere, Tick, SetActive, StillNew
<1>3. ASSUME NEW ip \in Ips, NEW u \in Users, NEW email \in Emails, NEW s \in Sessions,
             NEW t \in Tokens, LoginUser(u, email, ip, s, t)
      PROVE  IssuedFor(s)
  BY <1>3, LoginIssues DEF IInv
<1>4. ASSUME NEW ip \in Ips, NEW t \in Tokens, RefreshAccessToken(t, ip)
      PROVE  \/ access' = access /\ \A q \in Sessions : StillNew(q)
             \/ \E s \in Sessions : IssuedFor(s)
  <2>1. CASE access' # access
    BY <1>4, <2>1, RefreshIssues DEF IInv
  <2>2. CASE DetectReuse(t)
    BY <1>4, <2>1, <2>2, ClosingStaysNew
  <2>3. CASE Refresh(t) /\ access' = access
    BY <2>3 DEF Refresh, Issue, MisreportReuse, StillNew
  <2> QED
    BY <1>4, <2>1, <2>2, <2>3 DEF RefreshAccessToken
<1>5. ASSUME NEW ip \in Ips, NEW t \in Tokens, LogoutUser(t, ip)
      PROVE  access' = access /\ \A q \in Sessions : StillNew(q)
  BY <1>5, ClosingStaysNew DEF LogoutUser
<1>6. ASSUME NEW ip \in Ips, Request(ip)
      PROVE  \/ access' = access /\ session' = session
             \/ \E u \in Users, email \in Emails, s \in Sessions, t \in Tokens :
                   LoginUser(u, email, ip, s, t)
             \/ \E t \in Tokens : RefreshAccessToken(t, ip) \/ LogoutUser(t, ip)
  BY <1>6 DEF Request, TooManyRequests, RegisterUser, LoginBlocked, LoginFails,
     LoginInactive, GetCurrentUser, UpdateProfile, UpdateSettings, vars
<1>7. ASSUME session' = session PROVE \A q \in Sessions : StillNew(q)
  BY <1>7 DEF StillNew
<1> QED
  BY <1>1, <1>2, <1>3, <1>4, <1>5, <1>6, <1>7 DEF NextAccounts

(* No session is made to end sooner.                                       *)
LEMMA EndsLater ==
    ASSUME IInv, [Next]_vars, NEW s \in Sessions
    PROVE  session[s].expires <= session'[s].expires
<1>1. session[s].expires \in Nat /\ session[s].expires <= now + Ttl /\ TypeOK
  BY IdentityAssumption DEF TypeOK, Times, IInv, EndsWithinTtl
<1>2. CASE UNCHANGED vars
  BY <1>1, <1>2 DEF vars
<1>3. ASSUME NEW u \in Users, NEW q \in Sessions, NEW t \in Tokens, Login(u, q, t)
      PROVE  session[s].expires <= session'[s].expires
  BY <1>1, <1>3 DEF Login, NewSession, TypeOK
<1>4. ASSUME NEW q \in Sessions, RevokeChain(q)
      PROVE  session[s].expires <= session'[s].expires
  BY <1>1, <1>4, ChainEffect
<1>5. ASSUME NEW t \in Tokens, Logout(t) \/ DetectReuse(t)
      PROVE  session[s].expires <= session'[s].expires
  <2>1. token[t].session \in Sessions /\ RevokeChain(token[t].session)
    BY <1>1, <1>5 DEF Logout, DetectReuse, Issued, TypeOK
  <2> QED
    BY <2>1, <1>4
<1>6. ASSUME NEW t \in Tokens, Refresh(t) PROVE session' = session
  BY <1>6 DEF Refresh, Issue, MisreportReuse
<1>7. CASE Tick \/ \E u \in Users : SetActive(u)
  BY <1>1, <1>7 DEF Tick, SetActive
<1> QED
  BY <1>1, <1>2, <1>3, <1>5, <1>6, <1>7 DEF Next

LEMMA AccessInit == InitAccounts => AccessBounded
<1> SUFFICES ASSUME InitAccounts PROVE AccessBounded
  OBVIOUS
<1> QED
  BY AccountsAssumption DEF InitAccounts, Init, AccessBounded

LEMMA AccessStep ==
    ASSUME IInv, AccessBounded, [NextAccounts]_allVars
    PROVE  AccessBounded'
<1>1. TypeOK /\ TypeOK'
  BY NextInv, RequestsStep DEF IInv
<1>2. \A s \in Sessions : /\ session[s].expires \in Nat /\ session'[s].expires \in Nat
                          /\ session[s].expires <= session'[s].expires
  BY <1>1, EndsLater, RequestsStep, IdentityAssumption DEF TypeOK, Times
<1>3. now' \in Nat /\ AccessTtl \in Nat /\ Pause \in Nat
  BY <1>1, AccountsAssumption, IdentityAssumption DEF TypeOK
<1>4. ASSUME NEW s \in Sessions, access'[s] = access[s], StillNew(s), session'[s].state # "new"
      PROVE  access'[s] < session'[s].expires + AccessTtl + 2 * Pause
  <2>1. access[s] < session[s].expires + AccessTtl + 2 * Pause /\ access[s] \in Int
    BY <1>4 DEF AccessBounded, StillNew
  <2> QED
    BY <1>2, <1>3, <1>4, <2>1
<1>5. CASE access' = access /\ \A q \in Sessions : StillNew(q)
  BY <1>4, <1>5 DEF AccessBounded
<1>6. ASSUME NEW s \in Sessions, IssuedFor(s) PROVE AccessBounded'
  <2>1. /\ access' = [access EXCEPT ![s] = now' + AccessTtl]
        /\ now' < session'[s].expires + 2 * Pause
        /\ \A q \in Sessions \ {s} : StillNew(q)
    BY <1>6 DEF IssuedFor
  <2>2. access \in [Sessions -> Int] /\ now' + AccessTtl \in Int
    BY <1>3 DEF AccessBounded
  <2>3. access'[s] = now' + AccessTtl /\ access' \in [Sessions -> Int]
        /\ \A q \in Sessions \ {s} : access'[q] = access[q]
    BY <2>1, <2>2
  <2>4. access'[s] < session'[s].expires + AccessTtl + 2 * Pause
    BY <1>2, <1>3, <2>1, <2>3
  <2>5. \A q \in Sessions \ {s} :
           session'[q].state # "new" => access'[q] < session'[q].expires + AccessTtl + 2 * Pause
    BY <1>4, <2>1, <2>3
  <2> QED
    BY <2>3, <2>4, <2>5 DEF AccessBounded
<1> QED
  BY <1>5, <1>6, AccessChanges

(* Nothing that a client can do prolongs its access when its session is    *)
(* revoked or its user deactivated, nor beyond the session's end by more   *)
(* than the life of one access token and the two pauses of the use case    *)
(* that signed it.                                                         *)
THEOREM AccessIsWithdrawn == SpecAccounts => AccessEnds
<1>1. IInv /\ AccessBounded /\ [NextAccounts]_allVars =>
         [\A s \in Sessions :
             /\ session[s].state = "revoked" \/ session[s].user \notin active =>
                   access'[s] = access[s]
             /\ session'[s].state # "new" =>
                   access'[s] < session'[s].expires + AccessTtl + 2 * Pause]_allVars
  <2> SUFFICES ASSUME IInv, AccessBounded, [NextAccounts]_allVars, NEW s \in Sessions
               PROVE  /\ session[s].state = "revoked" \/ session[s].user \notin active =>
                            access'[s] = access[s]
                      /\ session'[s].state # "new" =>
                            access'[s] < session'[s].expires + AccessTtl + 2 * Pause
    OBVIOUS
  <2>1. session'[s].state # "new" =>
           access'[s] < session'[s].expires + AccessTtl + 2 * Pause
    BY AccessStep DEF AccessBounded
  <2>2. access'[s] = access[s] \/ (session[s].state # "revoked" /\ session[s].user \in active)
    BY AccessChanges DEF AccessBounded, IssuedFor
  <2> QED
    BY <2>1, <2>2
<1>2. SpecAccounts => []IInv
  BY ImplementsSessions, Invariance
<1> QED
  BY <1>1, <1>2, AccessInit, AccessStep, PTL DEF SpecAccounts, AccessEnds

(* Behind guard and middleware, too, an open session has one live token    *)
(* and any other none, and reuse closes a session.                         *)
THEOREM SessionsHold == SpecAccounts => [](OneWayIn /\ ReuseClosesSession)
<1> QED
  BY ImplementsSessions, OneToken, ReuseCloses, PTL

---------------------------------------------------------------------------
(* Guard and middleware.                                                   *)

(* An entry and the history it stands for, at a time: while its window     *)
(* runs, the entry counts what happened since it was opened, an event at   *)
(* its very start included, and fewer than most are older; once it has     *)
(* run, fewer than most are left.                                          *)
Runs(entry, window, time) == entry # NoEntry /\ time - entry.since < window

Since(events, entry) == {e \in events : e.at >= entry.since}

Before(events, entry) == {e \in events : e.at < entry.since}

AtMost(count, most) == IF count < most THEN count ELSE most

Tallies(entry, events, window, most, time) ==
    /\ IsFiniteSet(events)
    /\ \A e \in events : /\ e.at <= time /\ time - e.at < window
                         /\ e.at = time => e.nth <= Cardinality(At(events, time))
    /\ entry # NoEntry => entry.since <= time
    /\ Runs(entry, window, time) =>
          /\ \E e \in events : e.at = entry.since
          /\ Cardinality(Before(events, entry)) < most
          /\ Cardinality(Since(events, entry)) = AtMost(entry.count, most)
    /\ ~Runs(entry, window, time) =>
          /\ Cardinality(events) < most
          /\ \A e \in events : e.at < time

Event == [at : Nat, nth : Nat \ {0}]
Entry == [count : Nat \ {0}, since : Nat]

(* With time events fade; what an open window counts does not.             *)
LEMMA Fades ==
    ASSUME NEW entry \in {NoEntry} \cup Entry, NEW events \in SUBSET Event,
           NEW window \in Nat \ {0}, NEW most \in Nat \ {0},
           NEW time \in Nat, NEW later \in Nat, time <= later,
           Tallies(entry, events, window, most, time)
    PROVE  Tallies(entry, Recent(events, window, later), window, most, later)
<1> DEFINE left == Recent(events, window, later)
<1>1. /\ left \subseteq events /\ IsFiniteSet(events) /\ IsFiniteSet(left)
      /\ Cardinality(left) \in Nat /\ Cardinality(events) \in Nat
      /\ Cardinality(left) <= Cardinality(events)
  <2>1. left \in SUBSET events /\ IsFiniteSet(events)
    BY DEF Recent, Tallies
  <2> QED
    BY <2>1, FS_Subset, FS_CardinalityType
<1>2. \A e \in events : e.at \in Nat /\ e.at <= time /\ time - e.at < window
  BY DEF Event, Tallies
<1>3. \A e \in left : /\ e.at <= later /\ later - e.at < window
                      /\ e.at = later => e.nth <= Cardinality(At(left, later))
  <2>1. CASE later = time
    <3>1. left = events
      BY <1>2, <2>1 DEF Recent
    <3> QED
      BY <2>1, <3>1 DEF Tallies
  <2>2. CASE later # time
    BY <1>1, <1>2, <2>2 DEF Recent
  <2> QED
    BY <2>1, <2>2
<1>4. entry # NoEntry => entry.since \in Nat /\ entry.since <= time /\ entry.count \in Nat
  BY DEF Entry, Tallies
<1>5. ASSUME Runs(entry, window, later)
      PROVE  /\ \E e \in left : e.at = entry.since
             /\ Cardinality(Before(left, entry)) < most
             /\ Cardinality(Since(left, entry)) = AtMost(entry.count, most)
  <2>1. Runs(entry, window, time) /\ entry # NoEntry
    BY <1>4, <1>5 DEF Runs
  <2>2. PICK e \in events : e.at = entry.since
    BY <2>1 DEF Tallies
  <2>3. e \in left
    BY <1>5, <2>2 DEF Recent, Runs
  <2>4. Since(left, entry) = Since(events, entry)
    BY <1>1, <1>2, <1>4, <1>5, <2>1 DEF Since, Recent, Runs
  <2>5. /\ Cardinality(Before(left, entry)) \in Nat /\ Cardinality(Before(events, entry)) \in Nat
        /\ Cardinality(Before(left, entry)) <= Cardinality(Before(events, entry))
    <3>1. /\ Before(left, entry) \in SUBSET Before(events, entry)
          /\ Before(events, entry) \in SUBSET events
      BY <1>1 DEF Before
    <3> QED
      BY <1>1, <3>1, FS_Subset, FS_CardinalityType
  <2> QED
    BY <2>1, <2>2, <2>3, <2>4, <2>5 DEF Tallies
<1>6. ASSUME ~Runs(entry, window, later)
      PROVE  Cardinality(left) < most /\ \A e \in left : e.at < later
  <2>1. CASE Runs(entry, window, time)
    <3>1. entry # NoEntry /\ later - entry.since >= window /\ time < later
      BY <1>4, <1>6, <2>1 DEF Runs
    <3>2. PICK e \in events : e.at = entry.since
      BY <2>1 DEF Tallies
    <3>3. e \in Since(events, entry) /\ e \notin left
      BY <1>4, <3>1, <3>2 DEF Since, Recent
    <3>4. left \in SUBSET Since(events, entry)
      BY <1>2, <1>4, <3>1 DEF Since, Recent
    <3>5. IsFiniteSet(Since(events, entry)) /\ Cardinality(Since(events, entry)) <= most
      <4>1. Since(events, entry) \in SUBSET events
        BY DEF Since
      <4>2. Cardinality(Since(events, entry)) = AtMost(entry.count, most)
        BY <2>1 DEF Tallies
      <4> QED
        BY <1>1, <1>4, <3>1, <4>1, <4>2, FS_Subset DEF AtMost
    <3>6. left # Since(events, entry)
      BY <3>3
    <3>7. /\ Cardinality(Since(events, entry)) \in Nat
          /\ Cardinality(left) < Cardinality(Since(events, entry))
      BY <3>4, <3>5, <3>6, FS_Subset, FS_CardinalityType
    <3> QED
      BY <1>1, <1>2, <3>1, <3>5, <3>7
  <2>2. CASE ~Runs(entry, window, time)
    <3>1. Cardinality(events) < most /\ \A e \in events : e.at < time
      BY <2>2 DEF Tallies
    <3> QED
      BY <1>1, <1>2, <3>1
  <2> QED
    BY <2>1, <2>2
<1> QED
  BY <1>1, <1>3, <1>4, <1>5, <1>6 DEF Tallies

(* What may still be counted is counted.                                   *)
LEMMA Adds ==
    ASSUME NEW entry \in {NoEntry} \cup Entry, NEW events \in SUBSET Event,
           NEW window \in Nat \ {0}, NEW most \in Nat \ {0}, NEW time \in Nat,
           Tallies(entry, events, window, most, time),
           Runs(entry, window, time) => entry.count < most,
           NEW next,
           next = IF Runs(entry, window, time)
                  THEN [entry EXCEPT !.count = entry.count + 1]
                  ELSE [count |-> 1, since |-> time],
           NEW x, x = [at |-> time, nth |-> Cardinality(At(events, time)) + 1]
    PROVE  Tallies(next, events \cup {x}, window, most, time)
<1> DEFINE more == events \cup {x}
<1>1. /\ IsFiniteSet(events) /\ Cardinality(events) \in Nat
      /\ \A e \in events : e.at \in Nat /\ e.at <= time /\ time - e.at < window
      /\ \A e \in events : e.nth \in Nat
  BY FS_CardinalityType DEF Tallies, Event
<1>2. IsFiniteSet(At(events, time)) /\ Cardinality(At(events, time)) \in Nat
  <2>1. At(events, time) \in SUBSET events
    BY DEF At
  <2> QED
    BY <1>1, <2>1, FS_Subset, FS_CardinalityType
<1>3. x.at = time /\ x.nth = Cardinality(At(events, time)) + 1
  OBVIOUS
<1>4. x \notin events
  <2>1. x \in events => x.at = time /\ x.nth <= Cardinality(At(events, time))
    BY <1>3 DEF Tallies
  <2> QED
    BY ONLY <1>2, <1>3, <2>1
<1>5. IsFiniteSet(more)
  BY <1>1, FS_AddElement
<1>6. Cardinality(At(more, time)) = Cardinality(At(events, time)) + 1
  <2>1. At(more, time) = At(events, time) \cup {x} /\ x \notin At(events, time)
    BY <1>3, <1>4 DEF At
  <2> QED
    <3>1. Cardinality(At(events, time) \cup {x}) = Cardinality(At(events, time)) + 1
      BY <1>2, <2>1, FS_AddElement, Zenon
    <3> QED
      BY <2>1, <3>1, Zenon
<1>7. \A e \in more : /\ e.at <= time /\ time - e.at < window
                      /\ e.at = time => e.nth <= Cardinality(At(more, time))
  <2> TAKE e \in more
  <2>1. CASE e = x
    BY <1>2, <1>3, <1>6, <2>1
  <2>2. CASE e \in events
    <3>1. e.at = time => e.nth <= Cardinality(At(events, time))
      BY <2>2 DEF Tallies
    <3> QED
      BY <1>1, <1>2, <1>6, <2>2, <3>1
  <2> QED
    BY <2>1, <2>2
<1>8. CASE Runs(entry, window, time)
  <2>1. /\ entry # NoEntry /\ entry \in Entry /\ entry.since <= time
        /\ entry.count \in Nat /\ entry.since \in Nat
        /\ next.count = entry.count + 1 /\ next.since = entry.since
    BY <1>8 DEF Runs, Entry, Tallies
  <2>2. next # NoEntry /\ Runs(next, window, time)
    <3>1. next \in [count : Nat, since : Nat]
      BY <1>8, <2>1 DEF Entry
    <3>2. next # NoEntry
      BY <3>1, AccountsAssumption
    <3> QED
      BY <1>8, <2>1, <3>2 DEF Runs
  <2>3. Before(more, next) = Before(events, entry)
    BY <1>3, <2>1 DEF Before
  <2>4. Cardinality(Since(more, next)) = entry.count + 1
    <3>1. Since(more, next) = Since(events, entry) \cup {x} /\ x \notin Since(events, entry)
      BY <1>3, <1>4, <2>1 DEF Since
    <3>2. Since(events, entry) \in SUBSET events
      BY DEF Since
    <3>3. Cardinality(Since(events, entry)) = entry.count
      BY <1>8 DEF Tallies, AtMost
    <3>4. IsFiniteSet(Since(events, entry))
      BY <1>1, <3>2, FS_Subset
    <3> QED
      <4>1. Cardinality(Since(events, entry) \cup {x}) = Cardinality(Since(events, entry)) + 1
        BY <3>1, <3>4, FS_AddElement, Zenon
      <4> QED
        BY <3>1, <3>3, <4>1, Zenon
  <2>5. AtMost(next.count, most) = entry.count + 1
    BY <1>8, <2>1 DEF AtMost
  <2>6. /\ \E e \in events : e.at = entry.since
        /\ Cardinality(Before(events, entry)) < most
    BY <1>8 DEF Tallies
  <2> QED
    <3>1. \E e \in more : e.at = next.since
      BY <2>1, <2>6
    <3>2. next.since <= time
      BY <2>1
    <3> QED
      BY <1>5, <1>7, <2>2, <2>3, <2>4, <2>5, <2>6, <3>1, <3>2 DEF Tallies
<1>9. CASE ~Runs(entry, window, time)
  <2>1. next = [count |-> 1, since |-> time] /\ next.since = time /\ next.count = 1
    BY <1>9
  <2>2. next # NoEntry /\ Runs(next, window, time)
    <3>1. next \in [count : Nat, since : Nat]
      BY <2>1
    <3>2. next # NoEntry
      BY <3>1, AccountsAssumption
    <3> QED
      BY <2>1, <3>2 DEF Runs
  <2>3. Cardinality(events) < most /\ \A e \in events : e.at < time
    BY <1>9 DEF Tallies
  <2>4. Before(more, next) = events
    BY <1>3, <2>1, <2>3 DEF Before
  <2>5. Since(more, next) = {x}
    BY <1>1, <1>3, <2>1, <2>3 DEF Since
  <2>6. Cardinality({x}) = 1
    BY FS_Singleton
  <2>7. AtMost(next.count, most) = 1
    BY <2>1 DEF AtMost
  <2>8. \E e \in more : e.at = next.since
    BY <1>3, <2>1
  <2> QED
    BY <1>5, <1>7, <2>1, <2>2, <2>3, <2>4, <2>5, <2>6, <2>7, <2>8 DEF Tallies
<1> QED
  BY <1>8, <1>9

(* What an entry tells of its history.                                     *)
LEMMA Bounds ==
    ASSUME NEW entry \in {NoEntry} \cup Entry, NEW events \in SUBSET Event,
           NEW window \in Nat \ {0}, NEW most \in Nat \ {0}, NEW time \in Nat,
           Tallies(entry, events, window, most, time)
    PROVE  /\ Cardinality(events) < 2 * most
           /\ Runs(entry, window, time) /\ entry.count >= most => Cardinality(events) >= most
<1>1. IsFiniteSet(events) /\ Cardinality(events) \in Nat
  BY FS_CardinalityType DEF Tallies
<1>2. CASE Runs(entry, window, time)
  <2>1. entry.count \in Nat /\ entry.since \in Nat
    BY <1>2 DEF Runs, Entry
  <2>2. /\ Cardinality(Before(events, entry)) < most
        /\ Cardinality(Since(events, entry)) = AtMost(entry.count, most)
    BY <1>2 DEF Tallies
  <2>3. Before(events, entry) \in SUBSET events /\ Since(events, entry) \in SUBSET events
    BY DEF Before, Since
  <2>4. /\ IsFiniteSet(Before(events, entry)) /\ IsFiniteSet(Since(events, entry))
        /\ Cardinality(Before(events, entry)) \in Nat /\ Cardinality(Since(events, entry)) \in Nat
    BY <1>1, <2>3, FS_Subset, FS_CardinalityType
  <2>5. \A e \in events : e.at \in Nat
    BY DEF Event
  <2>6. /\ events = Before(events, entry) \cup Since(events, entry)
        /\ Before(events, entry) \cap Since(events, entry) = {}
    BY <2>1, <2>5 DEF Before, Since
  <2>7. Cardinality(events) = Cardinality(Before(events, entry)) + Cardinality(Since(events, entry))
    <3> DEFINE A == Before(events, entry)
               B == Since(events, entry)
    <3>1. Cardinality(A \cup B) = Cardinality(A) + Cardinality(B) - Cardinality(A \cap B)
      BY <2>4, FS_Union
    <3>2. Cardinality(A \cap B) = 0
      BY <2>6, FS_EmptySet
    <3>3. Cardinality(A \cup B) = Cardinality(events)
      BY <2>6
    <3>4. Cardinality(A) \in Nat /\ Cardinality(B) \in Nat
      BY <2>4
    <3> HIDE DEF A, B
    <3>5. Cardinality(events) = Cardinality(A) + Cardinality(B)
      BY ONLY <3>1, <3>2, <3>3, <3>4
    <3> QED
      BY ONLY <3>5 DEF A, B
  <2> QED
    <3>1. AtMost(entry.count, most) \in Nat /\ AtMost(entry.count, most) <= most
      BY <2>1 DEF AtMost
    <3>2. entry.count >= most => AtMost(entry.count, most) = most
      BY <2>1 DEF AtMost
    <3> QED
      BY <2>2, <2>4, <2>7, <3>1, <3>2
<1>3. CASE ~Runs(entry, window, time)
  BY <1>1, <1>3 DEF Tallies
<1> QED
  BY <1>2, <1>3

---------------------------------------------------------------------------
(* Every account's key and every address, by what its entry counts; who    *)
(* has a session has an account, and who has access has had a session.     *)
GuardCounts ==
    \A k \in Keys : Tallies(attempts[k], guesses[k], FailureWindow, MaxFailures, now)

MiddlewareCounts ==
    \A ip \in Ips : Tallies(hits[ip], passed[ip], RequestWindow, MaxRequests, now)

AccountsKnown ==
    \A s \in Sessions :
        /\ session[s].state # "new" => account[session[s].user] # NoAccount
        /\ access[s] > 0 => session[s].state # "new"

AccountsInv == /\ IInv /\ AccountsTypeOK /\ AccountsKnown
               /\ GuardCounts /\ MiddlewareCounts

LEMMA ClockGoesOn ==
    ASSUME TypeOK, [NextAccounts]_allVars
    PROVE  now \in 0..MaxTime /\ now' \in 0..MaxTime /\ now <= now'
<1>1. now \in 0..MaxTime /\ MaxTime \in Nat
  BY IdentityAssumption DEF TypeOK
<1>2. [Next]_vars
  BY RequestsStep
<1>3. ASSUME NEW t \in Tokens, Refresh(t) PROVE now' \in 0..MaxTime /\ now <= now'
  BY <1>1, <1>3, IdentityAssumption DEF Refresh, Issue, MisreportReuse, Later
<1>4. ASSUME NEW u \in Users, NEW s \in Sessions, NEW t \in Tokens, Login(u, s, t)
      PROVE  now' \in 0..MaxTime /\ now <= now'
  BY <1>1, <1>4, IdentityAssumption DEF Login, Later
<1> QED
  BY <1>1, <1>2, <1>3, <1>4 DEF Next, vars, Logout, DetectReuse, SetActive, Tick

(* A request is turned away, or let through and remembered.                *)
LEMMA RequestPasses ==
    ASSUME NEW ip \in Ips, Request(ip)
    PROVE  \/ TooManyRequests(ip)
           \/ /\ Dispatch(ip)
              /\ \/ /\ attempts' = attempts
                    /\ Remember(guesses, [passed EXCEPT ![ip] = Noted(@)])
                 \/ \E email \in Emails : LoginFails(email, ip)
                 \/ \E u \in Users, email \in Emails :
                       LoginAccepted(u, email, ip)
<1>1. ASSUME NEW u \in Users, NEW email \in Emails, NEW s \in Sessions, NEW t \in Tokens,
             LoginUser(u, email, ip, s, t)
      PROVE  Dispatch(ip) /\ LoginAccepted(u, email, ip)
  BY <1>1 DEF LoginUser, LoginAccepted
<1>2. ASSUME NEW u \in Users, NEW email \in Emails, LoginInactive(u, email, ip)
      PROVE  Dispatch(ip) /\ LoginAccepted(u, email, ip)
  BY <1>2 DEF LoginInactive, LoginAccepted
<1>3. ASSUME NEW email \in Emails, LoginFails(email, ip) PROVE Dispatch(ip)
  BY <1>3 DEF LoginFails
<1>4. \/ TooManyRequests(ip) \/ Handled(ip)
      \/ \E email \in Emails : LoginFails(email, ip)
      \/ \E u \in Users, email \in Emails :
            \/ LoginInactive(u, email, ip)
            \/ \E s \in Sessions, t \in Tokens : LoginUser(u, email, ip, s, t)
  BY DEF Request, LoginBlocked, RefreshAccessToken, LogoutUser, GetCurrentUser,
     UpdateProfile, UpdateSettings
<1> QED
  BY <1>1, <1>2, <1>3, <1>4 DEF Handled

LEMMA GuardTypes ==
    ASSUME AccountsTypeOK
    PROVE  /\ \A k \in Keys : /\ attempts[k] \in {NoEntry} \cup Entry
                              /\ attempts[k] # NoEntry => attempts[k].count <= MaxFailures
                              /\ guesses[k] \in SUBSET Event
           /\ \A ip \in Ips : hits[ip] \in {NoEntry} \cup Entry /\ passed[ip] \in SUBSET Event
           /\ FailureWindow \in Nat \ {0} /\ RequestWindow \in Nat \ {0}
           /\ MaxFailures \in Nat \ {0} /\ MaxRequests \in Nat \ {0}
<1>1. 0..MaxTime \subseteq Nat /\ 1..MaxFailures \subseteq Nat \ {0}
      /\ 1..(MaxRequests + 1) \subseteq Nat \ {0}
  BY IdentityAssumption, AccountsAssumption
<1>2. [at : 0..MaxTime, nth : Nat \ {0}] \subseteq Event
  BY <1>1 DEF Event
<1>3. \A k \in Keys : /\ attempts[k] \in {NoEntry} \cup [count : 1..MaxFailures, since : 0..MaxTime]
                      /\ guesses[k] \in SUBSET Event
  BY <1>2 DEF AccountsTypeOK
<1>4. \A ip \in Ips :
         /\ hits[ip] \in {NoEntry} \cup [count : 1..(MaxRequests + 1), since : 0..MaxTime]
         /\ passed[ip] \in SUBSET Event
  BY <1>2 DEF AccountsTypeOK
<1>5. [count : 1..(MaxRequests + 1), since : 0..MaxTime] \subseteq Entry
  BY <1>1 DEF Entry
<1>6. \A e \in [count : 1..MaxFailures, since : 0..MaxTime] : e \in Entry /\ e.count <= MaxFailures
  BY <1>1, AccountsAssumption DEF Entry
<1> QED
  BY <1>3, <1>4, <1>5, <1>6, AccountsAssumption

(* What a step does to one key of the guard ...                            *)
LEMMA GuardStep ==
    ASSUME AccountsTypeOK, [NextAccounts]_allVars, NEW k \in Keys
    PROVE  \/ /\ attempts'[k] = attempts[k]
              /\ \/ guesses'[k] = guesses[k] /\ now' = now
                 \/ guesses'[k] = Recent(guesses[k], FailureWindow, now')
           \/ /\ now' = now /\ ~IsBlocked(k)
              /\ attempts'[k] = Count(attempts[k], FailureWindow, MaxFailures)
              /\ guesses'[k] = Recent(Noted(guesses[k]), FailureWindow, now)
           \/ /\ attempts'[k] = NoEntry /\ guesses'[k] = {}
<1> USE DEF Remember
<1>1. attempts = [q \in Keys |-> attempts[q]] /\ guesses = [q \in Keys |-> guesses[q]]
  BY DEF AccountsTypeOK
<1>2. \A email \in Emails, ip \in Ips : <<Normal[email], ip>> \in Keys
  BY AccountsAssumption DEF Keys
<1>3. CASE UNCHANGED allVars
  BY <1>3 DEF allVars, accountVars, vars
<1>4. CASE Elsewhere
  BY <1>4 DEF Elsewhere
<1>5. ASSUME NEW ip \in Ips, TooManyRequests(ip)
      PROVE  attempts' = attempts /\ guesses' = guesses /\ now' = now
  BY <1>5 DEF TooManyRequests, vars
<1>6. ASSUME NEW ip \in Ips, NEW email \in Emails, LoginFails(email, ip)
      PROVE  \/ /\ attempts'[k] = attempts[k]
                /\ guesses'[k] = Recent(guesses[k], FailureWindow, now')
             \/ /\ now' = now /\ ~IsBlocked(k)
                /\ attempts'[k] = Count(attempts[k], FailureWindow, MaxFailures)
                /\ guesses'[k] = Recent(Noted(guesses[k]), FailureWindow, now)
  <2> DEFINE g == <<Normal[email], ip>>
  <2>1. /\ now' = now /\ ~IsBlocked(g)
        /\ attempts' = [attempts EXCEPT ![g] = Count(@, FailureWindow, MaxFailures)]
        /\ guesses' = [q \in Keys |->
                         Recent([guesses EXCEPT ![g] = Noted(@)][q], FailureWindow, now')]
        /\ g \in Keys
    BY <1>2, <1>6 DEF LoginFails, GuardKey, vars
  <2> HIDE DEF g
  <2>2. CASE k = g
    BY <1>1, <2>1, <2>2
  <2>3. CASE k # g
    BY <1>1, <2>1, <2>3
  <2> QED
    BY <2>2, <2>3
<1>7. ASSUME NEW ip \in Ips, NEW u \in Users, NEW email \in Emails,
             LoginAccepted(u, email, ip)
      PROVE  \/ /\ attempts'[k] = attempts[k]
                /\ guesses'[k] = Recent(guesses[k], FailureWindow, now')
             \/ attempts'[k] = NoEntry /\ guesses'[k] = {}
  <2> DEFINE g == <<Normal[email], ip>>
  <2>1. /\ attempts' = [attempts EXCEPT ![g] = NoEntry]
        /\ guesses' = [q \in Keys |-> Recent([guesses EXCEPT ![g] = {}][q], FailureWindow, now')]
        /\ g \in Keys
    BY <1>2, <1>7 DEF LoginAccepted, GuardKey
  <2> HIDE DEF g
  <2>2. CASE k = g
    BY <1>1, <2>1, <2>2 DEF Recent
  <2>3. CASE k # g
    BY <1>1, <2>1, <2>3
  <2> QED
    BY <2>2, <2>3
<1>8. ASSUME NEW ip \in Ips, attempts' = attempts,
             Remember(guesses, [passed EXCEPT ![ip] = Noted(@)])
      PROVE  /\ attempts'[k] = attempts[k]
             /\ guesses'[k] = Recent(guesses[k], FailureWindow, now')
  BY <1>8
<1>9. ASSUME NEW ip \in Ips, Request(ip)
      PROVE  \/ TooManyRequests(ip)
             \/ attempts' = attempts /\ Remember(guesses, [passed EXCEPT ![ip] = Noted(@)])
             \/ \E email \in Emails : LoginFails(email, ip)
             \/ \E u \in Users, email \in Emails : LoginAccepted(u, email, ip)
  BY <1>9, RequestPasses
<1> HIDE DEF Remember
<1>10. ASSUME NEW ip \in Ips, Request(ip)
       PROVE  \/ /\ attempts'[k] = attempts[k]
                 /\ \/ guesses'[k] = guesses[k] /\ now' = now
                    \/ guesses'[k] = Recent(guesses[k], FailureWindow, now')
              \/ /\ now' = now /\ ~IsBlocked(k)
                 /\ attempts'[k] = Count(attempts[k], FailureWindow, MaxFailures)
                 /\ guesses'[k] = Recent(Noted(guesses[k]), FailureWindow, now)
              \/ /\ attempts'[k] = NoEntry /\ guesses'[k] = {}
  BY <1>5, <1>6, <1>7, <1>8, <1>9, <1>10
<1> QED
  BY <1>3, <1>4, <1>10 DEF NextAccounts

(* ... and to one address of the middleware.                               *)
LEMMA DispatchStep ==
    ASSUME AccountsTypeOK, [NextAccounts]_allVars, NEW ip \in Ips
    PROVE  \/ /\ hits'[ip] = hits[ip]
              /\ \/ passed'[ip] = passed[ip] /\ now' = now
                 \/ passed'[ip] = Recent(passed[ip], RequestWindow, now')
           \/ /\ now' = now /\ Hit(ip).count > MaxRequests
              /\ hits'[ip] = Hit(ip) /\ passed'[ip] = passed[ip]
           \/ /\ Hit(ip).count <= MaxRequests
              /\ hits'[ip] = Hit(ip)
              /\ passed'[ip] = Recent(Noted(passed[ip]), RequestWindow, now')
<1> USE DEF Remember
<1>1. hits = [q \in Ips |-> hits[q]] /\ passed = [q \in Ips |-> passed[q]]
  BY DEF AccountsTypeOK
<1>2. CASE UNCHANGED allVars
  BY <1>2 DEF allVars, accountVars, vars
<1>3. CASE Elsewhere
  BY <1>3 DEF Elsewhere
<1>4. ASSUME NEW p \in Ips, TooManyRequests(p)
      PROVE  /\ now' = now /\ passed' = passed
             /\ IF p = ip THEN Hit(ip).count > MaxRequests /\ hits'[ip] = Hit(ip)
                          ELSE hits'[ip] = hits[ip]
  <2>1. /\ hits' = [hits EXCEPT ![p] = Hit(p)] /\ Hit(p).count > MaxRequests
        /\ now' = now /\ passed' = passed
    BY <1>4 DEF TooManyRequests, vars
  <2> QED
    BY <1>1, <2>1
<1>5. ASSUME NEW p \in Ips, Dispatch(p), NEW wrong,
             Remember(wrong, [passed EXCEPT ![p] = Noted(@)])
      PROVE  IF p = ip THEN /\ Hit(ip).count <= MaxRequests /\ hits'[ip] = Hit(ip)
                            /\ passed'[ip] = Recent(Noted(passed[ip]), RequestWindow, now')
                       ELSE /\ hits'[ip] = hits[ip]
                            /\ passed'[ip] = Recent(passed[ip], RequestWindow, now')
  <2>1. /\ hits' = [hits EXCEPT ![p] = Hit(p)] /\ Hit(p).count <= MaxRequests
        /\ passed' = [q \in Ips |->
                        Recent([passed EXCEPT ![p] = Noted(@)][q], RequestWindow, now')]
    BY <1>5 DEF Dispatch
  <2>2. CASE p = ip
    BY <1>1, <2>1, <2>2
  <2>3. CASE p # ip
    BY <1>1, <2>1, <2>3
  <2> QED
    BY <2>2, <2>3
<1> HIDE DEF Remember
<1>6. ASSUME NEW p \in Ips, Request(p)
      PROVE  \/ TooManyRequests(p)
             \/ /\ Dispatch(p)
                /\ \/ Remember(guesses, [passed EXCEPT ![p] = Noted(@)])
                   \/ \E email \in Emails :
                         Remember([guesses EXCEPT ![<<Normal[email], p>>] = Noted(@)],
                                  [passed EXCEPT ![p] = Noted(@)])
                   \/ \E email \in Emails :
                         Remember([guesses EXCEPT ![GuardKey(email, p)] = {}],
                                  [passed EXCEPT ![p] = Noted(@)])
  BY <1>6, RequestPasses DEF LoginFails, LoginAccepted
<1>7. ASSUME NEW p \in Ips, Dispatch(p), Remember(guesses, [passed EXCEPT ![p] = Noted(@)])
      PROVE  IF p = ip THEN /\ Hit(ip).count <= MaxRequests /\ hits'[ip] = Hit(ip)
                            /\ passed'[ip] = Recent(Noted(passed[ip]), RequestWindow, now')
                       ELSE /\ hits'[ip] = hits[ip]
                            /\ passed'[ip] = Recent(passed[ip], RequestWindow, now')
  BY <1>5, <1>7
<1>8. ASSUME NEW p \in Ips, Dispatch(p), NEW email \in Emails,
             Remember([guesses EXCEPT ![<<Normal[email], p>>] = Noted(@)],
                      [passed EXCEPT ![p] = Noted(@)])
      PROVE  IF p = ip THEN /\ Hit(ip).count <= MaxRequests /\ hits'[ip] = Hit(ip)
                            /\ passed'[ip] = Recent(Noted(passed[ip]), RequestWindow, now')
                       ELSE /\ hits'[ip] = hits[ip]
                            /\ passed'[ip] = Recent(passed[ip], RequestWindow, now')
  BY <1>5, <1>8
<1>9. ASSUME NEW p \in Ips, Dispatch(p), NEW email \in Emails,
             Remember([guesses EXCEPT ![GuardKey(email, p)] = {}],
                      [passed EXCEPT ![p] = Noted(@)])
      PROVE  IF p = ip THEN /\ Hit(ip).count <= MaxRequests /\ hits'[ip] = Hit(ip)
                            /\ passed'[ip] = Recent(Noted(passed[ip]), RequestWindow, now')
                       ELSE /\ hits'[ip] = hits[ip]
                            /\ passed'[ip] = Recent(passed[ip], RequestWindow, now')
  BY <1>5, <1>9
<1>10. CASE \E p \in Ips : Request(p)
  BY <1>4, <1>6, <1>7, <1>8, <1>9, <1>10
<1> QED
  BY <1>2, <1>3, <1>10 DEF NextAccounts

LEMMA GuardCountsStep ==
    ASSUME AccountsTypeOK, GuardCounts, [NextAccounts]_allVars
    PROVE  GuardCounts'
<1> SUFFICES ASSUME NEW k \in Keys
             PROVE  Tallies(attempts'[k], guesses'[k], FailureWindow, MaxFailures, now')
  BY DEF GuardCounts
<1>1. /\ attempts[k] \in {NoEntry} \cup Entry /\ guesses[k] \in SUBSET Event
      /\ FailureWindow \in Nat \ {0} /\ MaxFailures \in Nat \ {0}
      /\ attempts[k] # NoEntry => attempts[k].count <= MaxFailures
  BY GuardTypes
<1>2. now \in Nat /\ now' \in Nat /\ now <= now'
  BY ClockGoesOn, IdentityAssumption DEF AccountsTypeOK
<1>3. Tallies(attempts[k], guesses[k], FailureWindow, MaxFailures, now)
  BY DEF GuardCounts
<1>4. CASE attempts'[k] = attempts[k] /\ guesses'[k] = guesses[k] /\ now' = now
  BY <1>3, <1>4
<1>5. CASE /\ attempts'[k] = attempts[k]
           /\ guesses'[k] = Recent(guesses[k], FailureWindow, now')
  BY <1>1, <1>2, <1>3, <1>5, Fades
<1>6. CASE /\ now' = now /\ ~IsBlocked(k)
           /\ attempts'[k] = Count(attempts[k], FailureWindow, MaxFailures)
           /\ guesses'[k] = Recent(Noted(guesses[k]), FailureWindow, now)
  <2> DEFINE e == attempts[k]
             next == Count(e, FailureWindow, MaxFailures)
             x == [at |-> now, nth |-> Cardinality(At(guesses[k], now)) + 1]
  <2>1. Runs(e, FailureWindow, now) <=> Running(e, FailureWindow)
    BY DEF Runs, Running
  <2>2. Runs(e, FailureWindow, now) => e.count < MaxFailures
    BY <1>1, <1>6, <2>1 DEF IsBlocked, Running, Entry
  <2>3. next = IF Runs(e, FailureWindow, now)
               THEN [e EXCEPT !.count = e.count + 1] ELSE [count |-> 1, since |-> now]
    BY <2>1, <2>2 DEF Count
  <2>4. next \in Entry
    BY <1>1, <1>2, <2>3 DEF Entry, Runs
  <2>5. Cardinality(At(guesses[k], now)) \in Nat
    <3>1. At(guesses[k], now) \in SUBSET guesses[k] /\ IsFiniteSet(guesses[k])
      BY <1>3 DEF At, Tallies
    <3> QED
      BY <3>1, FS_Subset, FS_CardinalityType
  <2>6. guesses[k] \cup {x} \in SUBSET Event
    BY <1>1, <1>2, <2>5 DEF Event
  <2> HIDE DEF next, x
  <2>7. Tallies(next, guesses[k] \cup {x}, FailureWindow, MaxFailures, now)
    BY <1>1, <1>2, <1>3, <2>2, <2>3, Adds DEF x
  <2>8. Tallies(next, Recent(guesses[k] \cup {x}, FailureWindow, now),
                FailureWindow, MaxFailures, now)
    BY <1>1, <1>2, <2>4, <2>6, <2>7, Fades
  <2> QED
    BY <1>6, <2>8 DEF next, x, Noted
<1>7. CASE attempts'[k] = NoEntry /\ guesses'[k] = {}
  <2>1. IsFiniteSet({}) /\ Cardinality({}) = 0
    BY FS_EmptySet
  <2> QED
    BY <1>1, <1>7, <2>1 DEF Tallies, Runs
<1> QED
  BY <1>4, <1>5, <1>6, <1>7, GuardStep

LEMMA MiddlewareCountsStep ==
    ASSUME AccountsTypeOK, MiddlewareCounts, [NextAccounts]_allVars
    PROVE  MiddlewareCounts'
<1> SUFFICES ASSUME NEW ip \in Ips
             PROVE  Tallies(hits'[ip], passed'[ip], RequestWindow, MaxRequests, now')
  BY DEF MiddlewareCounts
<1> DEFINE e == hits[ip]
<1>1. /\ e \in {NoEntry} \cup Entry /\ passed[ip] \in SUBSET Event
      /\ RequestWindow \in Nat \ {0} /\ MaxRequests \in Nat \ {0}
  BY GuardTypes
<1>2. now \in Nat /\ now' \in Nat /\ now <= now'
  BY ClockGoesOn, IdentityAssumption DEF AccountsTypeOK
<1>3. Tallies(e, passed[ip], RequestWindow, MaxRequests, now)
  BY DEF MiddlewareCounts
<1>4. Runs(e, RequestWindow, now) <=> Running(e, RequestWindow)
  BY DEF Runs, Running
<1>5. Runs(e, RequestWindow, now) => /\ e # NoEntry /\ e \in Entry
                                     /\ e.count \in Nat \ {0} /\ e.since \in Nat
  BY <1>1 DEF Runs, Entry
<1>6. CASE hits'[ip] = e /\ passed'[ip] = passed[ip] /\ now' = now
  BY <1>3, <1>6
<1>7. CASE hits'[ip] = e /\ passed'[ip] = Recent(passed[ip], RequestWindow, now')
  BY <1>1, <1>2, <1>3, <1>7, Fades
<1>8. CASE /\ now' = now /\ Hit(ip).count > MaxRequests
           /\ hits'[ip] = Hit(ip) /\ passed'[ip] = passed[ip]
  <2>1. Runs(e, RequestWindow, now)
    BY <1>1, <1>4, <1>8 DEF Hit, Count
  <2>2. Hit(ip) = [e EXCEPT !.count = IF e.count < MaxRequests + 1 THEN e.count + 1
                                                                  ELSE MaxRequests + 1]
    BY <1>4, <2>1 DEF Hit, Count
  <2>3. Hit(ip) \in Entry /\ Hit(ip).since = e.since /\ e.count >= MaxRequests
    BY <1>1, <1>5, <1>8, <2>1, <2>2 DEF Entry
  <2>4. AtMost(Hit(ip).count, MaxRequests) = AtMost(e.count, MaxRequests)
    BY <1>1, <1>5, <1>8, <2>1, <2>3 DEF AtMost, Entry
  <2>5. Hit(ip) # NoEntry
    BY <2>3, AccountsAssumption DEF Entry
  <2>6. /\ Since(passed[ip], Hit(ip)) = Since(passed[ip], e)
        /\ Before(passed[ip], Hit(ip)) = Before(passed[ip], e)
        /\ Runs(Hit(ip), RequestWindow, now)
    BY <2>1, <2>3, <2>5 DEF Since, Before, Runs
  <2>7. Tallies(Hit(ip), passed[ip], RequestWindow, MaxRequests, now)
    BY <1>3, <1>5, <2>1, <2>3, <2>4, <2>6 DEF Tallies
  <2> QED
    BY <1>8, <2>7
<1>9. CASE /\ Hit(ip).count <= MaxRequests
           /\ hits'[ip] = Hit(ip)
           /\ passed'[ip] = Recent(Noted(passed[ip]), RequestWindow, now')
  <2> DEFINE next == Hit(ip)
             x == [at |-> now, nth |-> Cardinality(At(passed[ip], now)) + 1]
  <2>1. Runs(e, RequestWindow, now) => e.count < MaxRequests
    BY <1>1, <1>4, <1>5, <1>9 DEF Hit, Count
  <2>2. next = IF Runs(e, RequestWindow, now)
               THEN [e EXCEPT !.count = e.count + 1] ELSE [count |-> 1, since |-> now]
    BY <1>1, <1>4, <1>5, <2>1 DEF Hit, Count
  <2>3. next \in Entry
    BY <1>2, <1>5, <2>2 DEF Entry
  <2>4. Cardinality(At(passed[ip], now)) \in Nat
    <3>1. At(passed[ip], now) \in SUBSET passed[ip] /\ IsFiniteSet(passed[ip])
      BY <1>3 DEF At, Tallies
    <3> QED
      BY <3>1, FS_Subset, FS_CardinalityType
  <2>5. passed[ip] \cup {x} \in SUBSET Event
    BY <1>1, <1>2, <2>4 DEF Event
  <2> HIDE DEF next, x
  <2>6. Tallies(next, passed[ip] \cup {x}, RequestWindow, MaxRequests, now)
    BY <1>1, <1>2, <1>3, <2>1, <2>2, Adds DEF x
  <2>7. Tallies(next, Recent(passed[ip] \cup {x}, RequestWindow, now'),
                RequestWindow, MaxRequests, now')
    BY <1>1, <1>2, <2>3, <2>5, <2>6, Fades
  <2> QED
    BY <1>9, <2>7 DEF next, x, Noted
<1> QED
  BY <1>6, <1>7, <1>8, <1>9, DispatchStep

---------------------------------------------------------------------------
(* Types.                                                                  *)

(* Entries stay within their limits, and histories within the clock.       *)
LEMMA CountTypes ==
    ASSUME NEW entry, NEW window, NEW most \in Nat \ {0}, now \in 0..MaxTime,
           entry \in {NoEntry} \cup [count : 1..most, since : 0..MaxTime]
    PROVE  Count(entry, window, most) \in [count : 1..most, since : 0..MaxTime]
<1>1. CASE Running(entry, window)
  <2>1. entry \in [count : 1..most, since : 0..MaxTime]
    BY <1>1 DEF Running
  <2> QED
    BY <1>1, <2>1 DEF Count
<1>2. CASE ~Running(entry, window)
  BY <1>2 DEF Count
<1> QED
  BY <1>1, <1>2

LEMMA NotedTypes ==
    ASSUME now \in 0..MaxTime, NEW events \in SUBSET [at : 0..MaxTime, nth : Nat \ {0}],
           IsFiniteSet(events)
    PROVE  Noted(events) \in SUBSET [at : 0..MaxTime, nth : Nat \ {0}]
<1>1. At(events, now) \in SUBSET events
  BY DEF At
<1>2. Cardinality(At(events, now)) \in Nat
  BY <1>1, FS_Subset, FS_CardinalityType
<1> QED
  BY <1>2 DEF Noted

(* All four are functions still.                                           *)
LEMMA GuardDomains ==
    ASSUME AccountsTypeOK, [NextAccounts]_allVars
    PROVE  /\ attempts' = [k \in Keys |-> attempts'[k]]
           /\ guesses' = [k \in Keys |-> guesses'[k]]
           /\ hits' = [ip \in Ips |-> hits'[ip]]
           /\ passed' = [ip \in Ips |-> passed'[ip]]
<1>1. /\ attempts = [k \in Keys |-> attempts[k]] /\ guesses = [k \in Keys |-> guesses[k]]
      /\ hits = [ip \in Ips |-> hits[ip]] /\ passed = [ip \in Ips |-> passed[ip]]
  BY DEF AccountsTypeOK
<1>2. ASSUME NEW g, NEW p, Remember(g, p)
      PROVE  /\ guesses' = [k \in Keys |-> guesses'[k]]
             /\ passed' = [ip \in Ips |-> passed'[ip]]
  BY <1>2 DEF Remember
<1>3. CASE UNCHANGED allVars
  BY <1>1, <1>3 DEF allVars, accountVars
<1>4. CASE Elsewhere
  BY <1>1, <1>2, <1>4 DEF Elsewhere
<1>5. ASSUME NEW ip \in Ips, Request(ip)
      PROVE  /\ attempts' = [k \in Keys |-> attempts'[k]]
             /\ guesses' = [k \in Keys |-> guesses'[k]]
             /\ hits' = [q \in Ips |-> hits'[q]]
             /\ passed' = [q \in Ips |-> passed'[q]]
  <2>1. CASE TooManyRequests(ip)
    BY <1>1, <2>1 DEF TooManyRequests
  <2>2. CASE ~TooManyRequests(ip)
    <3>1. hits' = [hits EXCEPT ![ip] = Hit(ip)]
      BY <1>5, <2>2, RequestPasses DEF Dispatch
    <3>2. \/ /\ attempts' = attempts
             /\ Remember(guesses, [passed EXCEPT ![ip] = Noted(@)])
          \/ \E email \in Emails : LoginFails(email, ip)
          \/ \E u \in Users, email \in Emails : LoginAccepted(u, email, ip)
      BY <1>5, <2>2, RequestPasses
    <3>3. CASE /\ attempts' = attempts
               /\ Remember(guesses, [passed EXCEPT ![ip] = Noted(@)])
      BY <1>1, <1>2, <3>1, <3>3
    <3>4. ASSUME NEW email \in Emails, LoginFails(email, ip)
          PROVE  /\ attempts' = [k \in Keys |-> attempts'[k]]
                 /\ guesses' = [k \in Keys |-> guesses'[k]]
                 /\ passed' = [q \in Ips |-> passed'[q]]
      <4>1. attempts' = [attempts EXCEPT ![GuardKey(email, ip)]
                                           = Count(@, FailureWindow, MaxFailures)]
        BY <3>4 DEF LoginFails
      <4>2. Remember([guesses EXCEPT ![<<Normal[email], ip>>] = Noted(@)],
                     [passed EXCEPT ![ip] = Noted(@)])
        BY <3>4 DEF LoginFails
      <4> QED
        BY <1>1, <1>2, <4>1, <4>2
    <3>5. ASSUME NEW u \in Users, NEW email \in Emails, LoginAccepted(u, email, ip)
          PROVE  /\ attempts' = [k \in Keys |-> attempts'[k]]
                 /\ guesses' = [k \in Keys |-> guesses'[k]]
                 /\ passed' = [q \in Ips |-> passed'[q]]
      <4>1. attempts' = [attempts EXCEPT ![GuardKey(email, ip)] = NoEntry]
        BY <3>5 DEF LoginAccepted
      <4>2. Remember([guesses EXCEPT ![GuardKey(email, ip)] = {}],
                     [passed EXCEPT ![ip] = Noted(@)])
        BY <3>5 DEF LoginAccepted
      <4> QED
        BY <1>1, <1>2, <4>1, <4>2
    <3> QED
      BY <1>1, <3>1, <3>2, <3>3, <3>4, <3>5
  <2> QED
    BY <2>1, <2>2
<1> QED
  BY <1>3, <1>4, <1>5 DEF NextAccounts

LEMMA GuardTypesStep ==
    ASSUME AccountsTypeOK, GuardCounts, MiddlewareCounts, [NextAccounts]_allVars
    PROVE  /\ attempts' \in [Keys -> {NoEntry} \cup [count : 1..MaxFailures, since : 0..MaxTime]]
           /\ hits' \in [Ips -> {NoEntry} \cup [count : 1..(MaxRequests + 1), since : 0..MaxTime]]
           /\ guesses' \in [Keys -> SUBSET [at : 0..MaxTime, nth : Nat \ {0}]]
           /\ passed' \in [Ips -> SUBSET [at : 0..MaxTime, nth : Nat \ {0}]]
<1>1. now \in 0..MaxTime /\ MaxFailures \in Nat \ {0} /\ MaxRequests + 1 \in Nat \ {0}
  BY ClockGoesOn, AccountsAssumption DEF AccountsTypeOK
<1>2. ASSUME NEW k \in Keys
      PROVE  /\ attempts'[k] \in {NoEntry} \cup [count : 1..MaxFailures, since : 0..MaxTime]
             /\ guesses'[k] \in SUBSET [at : 0..MaxTime, nth : Nat \ {0}]
  <2>1. /\ attempts[k] \in {NoEntry} \cup [count : 1..MaxFailures, since : 0..MaxTime]
        /\ guesses[k] \in SUBSET [at : 0..MaxTime, nth : Nat \ {0}]
        /\ IsFiniteSet(guesses[k])
    BY DEF AccountsTypeOK, GuardCounts, Tallies
  <2>2. /\ Count(attempts[k], FailureWindow, MaxFailures)
              \in [count : 1..MaxFailures, since : 0..MaxTime]
        /\ Noted(guesses[k]) \in SUBSET [at : 0..MaxTime, nth : Nat \ {0}]
    BY <1>1, <2>1, CountTypes, NotedTypes
  <2> QED
    BY <2>1, <2>2, GuardStep DEF Recent
<1>3. ASSUME NEW ip \in Ips
      PROVE  /\ hits'[ip] \in {NoEntry} \cup [count : 1..(MaxRequests + 1), since : 0..MaxTime]
             /\ passed'[ip] \in SUBSET [at : 0..MaxTime, nth : Nat \ {0}]
  <2>1. /\ hits[ip] \in {NoEntry} \cup [count : 1..(MaxRequests + 1), since : 0..MaxTime]
        /\ passed[ip] \in SUBSET [at : 0..MaxTime, nth : Nat \ {0}]
        /\ IsFiniteSet(passed[ip])
    BY DEF AccountsTypeOK, MiddlewareCounts, Tallies
  <2>2. /\ Hit(ip) \in [count : 1..(MaxRequests + 1), since : 0..MaxTime]
        /\ Noted(passed[ip]) \in SUBSET [at : 0..MaxTime, nth : Nat \ {0}]
    BY <1>1, <2>1, CountTypes, NotedTypes DEF Hit
  <2> QED
    BY <2>1, <2>2, DispatchStep DEF Recent
<1> QED
  BY <1>2, <1>3, GuardDomains

(* What a step does to accounts, and to the users of sessions.             *)
LEMMA AccountChanges ==
    ASSUME IInv, AccountsTypeOK, AccountsKnown, [NextAccounts]_allVars
    PROVE  /\ account' \in [Users -> {NoAccount} \cup
                                     [email : Emails, username : Usernames, profile : Profiles]]
           /\ \A u \in Users : account[u] # NoAccount => account'[u] # NoAccount
<1> DEFINE Known == [email : Emails, username : Usernames, profile : Profiles]
<1>1. account \in [Users -> {NoAccount} \cup Known] /\ NoAccount \notin Known
  BY AccountsAssumption DEF AccountsTypeOK
<1>2. ASSUME NEW u \in Users, NEW email \in Emails, NEW username \in Usernames,
             RegisterUser(u, email, username)
      PROVE  account' = account \/ \E a \in Known : account' = [account EXCEPT ![u] = a]
  <2>1. NewUser(Normal[email], username) \in Known
    BY AccountsAssumption DEF NewUser
  <2> QED
    BY <1>2, <2>1 DEF RegisterUser
<1>3. ASSUME NEW s \in Sessions, NEW profile \in Profiles, NEW ip \in Ips,
             UpdateProfile(s, profile, ip)
      PROVE  \E u \in Users, a \in Known : account' = [account EXCEPT ![u] = a]
  <2>1. session[s].user \in Users /\ access[s] > 0
    BY <1>3 DEF UpdateProfile, Decodes, AccountsTypeOK, TypeOK
  <2>2. account[session[s].user] \in Known
    BY <1>1, <2>1 DEF AccountsKnown
  <2>3. [account[session[s].user] EXCEPT !.profile = profile] \in Known
    BY <2>2
  <2>4. account' = [account EXCEPT ![session[s].user]
                                     = [account[session[s].user] EXCEPT !.profile = profile]]
    BY <1>3 DEF UpdateProfile
  <2> QED
    BY <2>1, <2>3, <2>4
<1>4. ASSUME NEW ip \in Ips, Request(ip)
      PROVE  account' = account \/ \E u \in Users, a \in Known : account' = [account EXCEPT ![u] = a]
  <2>1. ASSUME NEW email \in Emails, LoginBlocked(email, ip) \/ LoginFails(email, ip)
        PROVE  account' = account
    BY <2>1 DEF LoginBlocked, LoginFails
  <2>2. ASSUME NEW u \in Users, NEW email \in Emails,
               \/ LoginInactive(u, email, ip)
               \/ \E s \in Sessions, t \in Tokens : LoginUser(u, email, ip, s, t)
        PROVE  account' = account
    <3>1. LoginAccepted(u, email, ip)
      BY <2>2 DEF LoginInactive, LoginUser
    <3> QED
      BY <3>1 DEF LoginAccepted
  <2>3. ASSUME NEW t \in Tokens, RefreshAccessToken(t, ip) \/ LogoutUser(t, ip)
        PROVE  account' = account
    BY <2>3 DEF RefreshAccessToken, LogoutUser
  <2>4. ASSUME NEW s \in Sessions, GetCurrentUser(s, ip) \/ UpdateSettings(s, ip)
        PROVE  account' = account
    BY <2>4 DEF GetCurrentUser, UpdateSettings
  <2>5. CASE TooManyRequests(ip)
    BY <2>5 DEF TooManyRequests
  <2> QED
    BY <1>2, <1>3, <1>4, <2>1, <2>2, <2>3, <2>4, <2>5 DEF Request
<1>5. account' = account \/ \E u \in Users, a \in Known : account' = [account EXCEPT ![u] = a]
  BY <1>4 DEF NextAccounts, Elsewhere, allVars, accountVars
<1> QED
  BY <1>1, <1>5

LEMMA SessionUsers ==
    ASSUME IInv, [NextAccounts]_allVars, NEW s \in Sessions
    PROVE  /\ session'[s].user = session[s].user
           /\ session[s].state # "new" => session'[s].state # "new"
           /\ session'[s].state # "new" =>
                 session[s].state # "new" \/ account[session[s].user] # NoAccount
<1>1. TypeOK /\ TokensFit
  BY DEF IInv
<1>2. ASSUME NEW q \in Sessions, RevokeChain(q), session[q].state # "new"
      PROVE  /\ session'[s].user = session[s].user
             /\ session'[s].state # "new" <=> session[s].state # "new"
  <2>1. session' = [session EXCEPT ![q].state = "revoked"]
    BY <1>2 DEF RevokeChain
  <2>2. \A r \in Sessions : session[r] \in [state : {"new", "open", "revoked"},
                                            user : Users, expires : Times]
    BY <1>1 DEF TypeOK
  <2>3. session = [r \in Sessions |-> session[r]]
    BY <1>1 DEF TypeOK
  <2> QED
    BY <1>2, <2>1, <2>2, <2>3
<1>3. ASSUME NEW t \in Tokens, Logout(t) \/ DetectReuse(t)
      PROVE  /\ session'[s].user = session[s].user
             /\ session'[s].state # "new" <=> session[s].state # "new"
  <2>1. token[t].session \in Sessions /\ RevokeChain(token[t].session)
    BY <1>1, <1>3 DEF Logout, DetectReuse, Issued, TypeOK
  <2>2. session[token[t].session].state # "new"
    BY <1>1, <1>3 DEF Logout, DetectReuse, TokensFit
  <2> QED
    BY <1>2, <2>1, <2>2
<1>4. ASSUME NEW t \in Tokens, Refresh(t) PROVE session' = session
  BY <1>4 DEF Refresh, Issue, MisreportReuse
<1>5. ASSUME NEW u \in Users, NEW email \in Emails, NEW ip \in Ips, NEW q \in Sessions,
             NEW t \in Tokens, LoginUser(u, email, ip, q, t)
      PROVE  /\ session'[s].user = session[s].user
             /\ session[s].state # "new" => session'[s].state # "new"
             /\ session'[s].state # "new" =>
                   session[s].state # "new" \/ account[session[s].user] # NoAccount
  <2>1. /\ session[q].user = u /\ session[q].state = "new"
        /\ session'[q] = [state |-> "open", user |-> u, expires |-> now + Ttl]
        /\ \A r \in Sessions \ {q} : session'[r] = session[r]
        /\ account[u] # NoAccount
    BY <1>1, <1>5, LoginEffect DEF LoginUser, LoginAccepted, GetByEmail
  <2> QED
    BY <2>1
<1>6. ASSUME NEW ip \in Ips, Request(ip)
      PROVE  \/ session' = session
             \/ \E t \in Tokens : Logout(t) \/ DetectReuse(t) \/ Refresh(t)
             \/ \E u \in Users, email \in Emails, q \in Sessions, t \in Tokens :
                   LoginUser(u, email, ip, q, t)
  BY <1>6 DEF Request, TooManyRequests, RegisterUser, LoginBlocked, LoginFails, LoginInactive,
     RefreshAccessToken, LogoutUser, GetCurrentUser, UpdateProfile, UpdateSettings, vars
<1>7. CASE Elsewhere \/ UNCHANGED allVars
  BY <1>7 DEF Elsewhere, Tick, SetActive, allVars, vars
<1> QED
  BY <1>3, <1>4, <1>5, <1>6, <1>7 DEF NextAccounts

(* Access is given to sessions that were opened.                           *)
LEMMA AccessOpened ==
    ASSUME IInv, [NextAccounts]_allVars, NEW s \in Sessions, access'[s] # access[s],
           access \in [Sessions -> Int]
    PROVE  session'[s].state # "new"
<1>1. TypeOK /\ TokensFit
  BY DEF IInv
<1>2. ASSUME NEW u \in Users, NEW email \in Emails, NEW ip \in Ips, NEW q \in Sessions,
             NEW t \in Tokens, LoginUser(u, email, ip, q, t)
      PROVE  session'[s].state # "new"
  <2>1. Login(u, q, t) /\ access' = [access EXCEPT ![q] = now' + AccessTtl]
    BY <1>2 DEF LoginUser, IssueAccessToken
  <2>2. session'[q] = [state |-> "open", user |-> u, expires |-> now + Ttl]
    BY <1>1, <2>1, LoginEffect
  <2> QED
    BY <2>1, <2>2
<1>3. ASSUME NEW t \in Tokens, NEW ip \in Ips, RefreshAccessToken(t, ip)
      PROVE  session'[s].state # "new"
  <2>1. /\ Refresh(t)
        /\ access' = [access EXCEPT ![token[t].session] = now' + AccessTtl]
    BY <1>3 DEF RefreshAccessToken, IssueAccessToken
  <2>2. s = token[t].session
    BY <2>1
  <2>3. Issued(t) /\ session' = session
    BY <2>1 DEF Refresh, Issue, MisreportReuse, Passes
  <2> QED
    BY <1>1, <2>2, <2>3 DEF TokensFit
<1>4. access' # access
  OBVIOUS
<1> QED
  BY <1>2, <1>3, <1>4 DEF NextAccounts, Request, Elsewhere, allVars, accountVars,
     TooManyRequests, RegisterUser, LoginBlocked, LoginFails, LoginInactive, LogoutUser,
     GetCurrentUser, UpdateProfile, UpdateSettings

LEMMA AccountsInitially == InitAccounts => AccountsInv
<1> SUFFICES ASSUME InitAccounts PROVE AccountsInv
  OBVIOUS
<1>1. IInv /\ TypeOK
  BY InitInv DEF InitAccounts, IInv
<1>2. AccountsTypeOK
  BY <1>1, IdentityAssumption, AccountsAssumption DEF InitAccounts, AccountsTypeOK
<1>3. AccountsKnown
  BY DEF InitAccounts, Init, AccountsKnown
<1>4. IsFiniteSet({}) /\ Cardinality({}) = 0
  BY FS_EmptySet
<1>5. GuardCounts /\ MiddlewareCounts
  BY <1>4, AccountsAssumption DEF InitAccounts, GuardCounts, MiddlewareCounts, Tallies, Runs
<1> QED
  BY <1>1, <1>2, <1>3, <1>5 DEF AccountsInv

LEMMA AccountsStep == AccountsInv /\ [NextAccounts]_allVars => AccountsInv'
<1> SUFFICES ASSUME AccountsInv, [NextAccounts]_allVars PROVE AccountsInv'
  OBVIOUS
<1> USE DEF AccountsInv
<1>1. IInv' /\ TypeOK /\ TypeOK'
  BY RequestsStep, NextInv DEF IInv
<1>2. AccessTtl \in Nat /\ MaxTime \in Nat /\ now' \in 0..MaxTime
  BY <1>1, IdentityAssumption, AccountsAssumption DEF TypeOK
<1>3. \/ access' = access
      \/ \E s \in Sessions : access' = [access EXCEPT ![s] = now' + AccessTtl]
  BY AccessChanges DEF IssuedFor
<1>4. access' \in [Sessions -> 0..(MaxTime + AccessTtl)]
  BY <1>2, <1>3 DEF AccountsTypeOK
<1>5. AccountsTypeOK'
  BY <1>1, <1>4, AccountChanges, GuardTypesStep DEF AccountsTypeOK
<1>6. GuardCounts' /\ MiddlewareCounts'
  BY GuardCountsStep, MiddlewareCountsStep
<1>7. \A s \in Sessions : session'[s].state # "new" => account'[session'[s].user] # NoAccount
  <2> SUFFICES ASSUME NEW s \in Sessions, session'[s].state # "new"
               PROVE  account'[session'[s].user] # NoAccount
    OBVIOUS
  <2>1. session'[s].user = session[s].user /\ session[s].user \in Users
    BY <1>1, SessionUsers DEF TypeOK
  <2>2. account[session[s].user] # NoAccount
    BY SessionUsers DEF AccountsKnown
  <2> QED
    BY <2>1, <2>2, AccountChanges
<1>8. \A s \in Sessions : access'[s] # access[s] => session'[s].state # "new"
  <2>1. access \in [Sessions -> Int]
    BY <1>2 DEF AccountsTypeOK
  <2> QED
    BY <2>1, AccessOpened
<1>9. AccountsKnown'
  BY <1>7, <1>8, SessionUsers DEF AccountsKnown
<1> QED
  BY <1>1, <1>5, <1>6, <1>9

(* Windows, tallies and histories fit each other throughout.               *)
THEOREM AccountsInvariance == SpecAccounts => []AccountsInv
<1> QED
  BY AccountsInitially, AccountsStep, PTL DEF SpecAccounts

(* Accounts, entries, histories and what is left of every access keep      *)
(* their types; a profile is only ever written to an account there is.     *)
THEOREM AccountsTypeCorrect == SpecAccounts => []AccountsTypeOK
<1> QED
  BY AccountsInvariance, PTL DEF AccountsInv

(* However long the windows and whatever the limits, two windows that meet *)
(* let through fewer than twice the limit.                                 *)
THEOREM LimitsHold == SpecAccounts => []AttemptsBounded
<1>1. AccountsInv => AttemptsBounded
  <2> SUFFICES ASSUME AccountsInv PROVE AttemptsBounded
    OBVIOUS
  <2>1. AccountsTypeOK /\ GuardCounts /\ MiddlewareCounts /\ now \in Nat
    BY IdentityAssumption DEF AccountsInv, AccountsTypeOK, TypeOK
  <2>2. ASSUME NEW k \in Keys PROVE Cardinality(guesses[k]) < 2 * MaxFailures
    BY <2>1, GuardTypes, Bounds DEF GuardCounts
  <2>3. ASSUME NEW ip \in Ips PROVE Cardinality(passed[ip]) < 2 * MaxRequests
    BY <2>1, GuardTypes, Bounds DEF MiddlewareCounts
  <2> QED
    BY <2>2, <2>3 DEF AttemptsBounded
<1> QED
  BY <1>1, AccountsInvariance, PTL

(* Whoever is turned away has used up the limit within the last window:    *)
(* what is refused does not lengthen the refusal.                          *)
THEOREM CauseHolds == SpecAccounts => []TurnedAwayForCause
<1>1. AccountsInv => TurnedAwayForCause
  <2> SUFFICES ASSUME AccountsInv PROVE TurnedAwayForCause
    OBVIOUS
  <2>1. AccountsTypeOK /\ GuardCounts /\ MiddlewareCounts /\ now \in Nat
    BY IdentityAssumption DEF AccountsInv, AccountsTypeOK, TypeOK
  <2>2. ASSUME NEW k \in Keys, IsBlocked(k) PROVE Cardinality(guesses[k]) >= MaxFailures
    <3>1. Runs(attempts[k], FailureWindow, now) /\ attempts[k].count >= MaxFailures
      BY <2>2 DEF IsBlocked, Running, Runs
    <3> QED
      BY <2>1, <3>1, GuardTypes, Bounds DEF GuardCounts
  <2>3. ASSUME NEW ip \in Ips, Hit(ip).count > MaxRequests
        PROVE  Cardinality(passed[ip]) >= MaxRequests
    <3>1. hits[ip] \in {NoEntry} \cup Entry /\ MaxRequests \in Nat \ {0}
      BY <2>1, GuardTypes
    <3>2. Running(hits[ip], RequestWindow)
      BY <2>3, <3>1 DEF Hit, Count
    <3>3. Runs(hits[ip], RequestWindow, now) /\ hits[ip].count >= MaxRequests
      BY <2>3, <3>1, <3>2 DEF Hit, Count, Running, Runs, Entry
    <3> QED
      BY <2>1, <3>3, GuardTypes, Bounds DEF MiddlewareCounts
  <2> QED
    BY <2>2, <2>3 DEF TurnedAwayForCause
<1> QED
  BY <1>1, AccountsInvariance, PTL
=============================================================================

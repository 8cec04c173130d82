--------------------------- MODULE PlaybackProofs ---------------------------
(***************************************************************************)
(* Playback: type correctness, the age of answers, which sessions are      *)
(* completed, and that two ways to choose a source agree; for every set of *)
(* clients, sources and priorities and whatever progress they save.        *)
(***************************************************************************)
EXTENDS Playback, FiniteSetTheorems, TLAPS

(* The sources an entry lacks were added when its rows had been read.      *)
CacheFits ==
    cache # None =>
        /\ cache.expires <= now + Ttl
        /\ \A i \in DOMAIN added : i > cache.count => cache.expires <= added[i] + Ttl + MaxRead

(* So were those that a reader lacks, and no read lasts too long.          *)
ReadingFits ==
    \A c \in Clients :
        reading[c] # None =>
            /\ now <= reading[c].since + MaxRead
            /\ \A i \in DOMAIN added : i > reading[c].count => reading[c].since <= added[i]

HasCompleted ==
    \A s \in Sessions :
        session[s].status = "completed" <=> \E p \in saved[s] : NearComplete(p)

(* The progress of a session was saved in it.                              *)
ProgressSaved == \A s \in Sessions : session[s].progress \in saved[s] \cup {None}

PlaybackInv == /\ TypeOK /\ CacheFits /\ ReadingFits
               /\ HasCompleted /\ ProgressSaved

---------------------------------------------------------------------------
LEMMA InitType == Init => TypeOK
<1> SUFFICES ASSUME Init PROVE TypeOK
  OBVIOUS
<1>1. NoSession \in [status : {"none", "active", "completed"},
                    source : ChosenSources \cup {None},
                    quality : ChosenQualities \cup {None},
                    subtitle : ChosenLanguages \cup {None},
                    progress : SavedProgress \cup {None}]
  BY DEF NoSession
<1>2. now \in 0..MaxTime /\ sources \in Seq(Sources) /\ added \in Seq(Nat)
      /\ Len(added) = Len(sources) /\ Len(sources) = 0
  BY PlaybackAssumption DEF Init
<1> QED
  BY <1>1, <1>2 DEF Init, TypeOK

LEMMA AddSourceType ==
    ASSUME TypeOK, NEW source \in Sources, AddSource(source)
    PROVE  /\ TypeOK'
           /\ sources \in Seq(Sources) /\ added \in Seq(Nat) /\ Len(added) = Len(sources)
           /\ sources' = Append(sources, source) /\ added' = Append(added, now)
           /\ UNCHANGED <<now, cache, reading, session, saved>>
<1>1. /\ sources' = Append(sources, source) /\ added' = Append(added, now)
      /\ UNCHANGED <<now, cache, reading, session, saved>>
  BY DEF AddSource
<1>2. /\ sources \in Seq(Sources) /\ added \in Seq(Nat) /\ Len(added) = Len(sources)
      /\ now \in 0..now
  BY DEF TypeOK
<1>3. /\ sources' \in Seq(Sources) /\ added' \in Seq(Nat)
      /\ Len(added') = Len(sources') /\ Len(sources') = Len(sources) + 1
  BY <1>1, <1>2
<1>4. Len(sources) \in Nat
  BY <1>2
<1>5. cache' \in [count : 0..Len(sources'), expires : 0..(MaxTime + Ttl)] \cup {None}
  BY <1>1, <1>3, <1>4 DEF TypeOK
<1>6. reading' \in [Clients -> [count : 0..Len(sources'), since : 0..now'] \cup {None}]
  BY <1>1, <1>3, <1>4 DEF TypeOK
<1> QED
  BY <1>1, <1>2, <1>3, <1>5, <1>6 DEF TypeOK

LEMMA GetPlaybackType ==
    ASSUME TypeOK, NEW c \in Clients, GetPlayback(c)
    PROVE  TypeOK'
<1>1. CASE AskUncached(c)
  <2>1. Len(sources) \in Nat /\ Len(sources) \in 0..Len(sources) /\ now \in 0..now
    BY DEF TypeOK
  <2> QED
    BY <1>1, <2>1 DEF AskUncached, TypeOK
<1>2. CASE Answer(c)
  <2>1. now + Ttl \in 0..(MaxTime + Ttl)
    BY PlaybackAssumption DEF TypeOK
  <2> QED
    BY <1>2, <2>1 DEF Answer, TypeOK
<1> QED
  BY <1>1, <1>2 DEF GetPlayback

LEMMA TickType ==
    ASSUME TypeOK, Tick
    PROVE  TypeOK'
<1>1. now' \in 0..MaxTime /\ 0..now \subseteq 0..now'
  BY PlaybackAssumption DEF Tick, TypeOK
<1>2. added' \in Seq(Nat) /\ \A i \in DOMAIN added' : added'[i] <= now'
  <2>1. now \in Nat /\ now' = now + 1 /\ added' = added
    BY DEF Tick, TypeOK
  <2>2. \A i \in DOMAIN added : added[i] \in Nat /\ added[i] <= now
    BY DEF TypeOK
  <2> QED
    BY <2>1, <2>2 DEF TypeOK
<1>3. reading' \in [Clients -> [count : 0..Len(sources'), since : 0..now'] \cup {None}]
  BY <1>1 DEF Tick, TypeOK
<1> QED
  BY <1>1, <1>2, <1>3 DEF Tick, TypeOK

---------------------------------------------------------------------------
(* The sessions.                                                           *)

SessionRecords == [status : {"none", "active", "completed"},
                   source : ChosenSources \cup {None},
                   quality : ChosenQualities \cup {None},
                   subtitle : ChosenLanguages \cup {None},
                   progress : SavedProgress \cup {None}]

(* What a selection in a session, and nothing else, changes.               *)
LEMMA SelectEffect ==
    ASSUME TypeOK, NEW s \in Sessions, NEW record \in SessionRecords,
           session' = [session EXCEPT ![s] = record],
           UNCHANGED <<now, sources, added, cache, reading, saved>>
    PROVE  /\ TypeOK'
           /\ session'[s] = record
           /\ \A q \in Sessions \ {s} : session'[q] = session[q] /\ saved'[q] = saved[q]
<1>1. session \in [Sessions -> SessionRecords]
  BY DEF TypeOK, SessionRecords
<1>2. /\ session' \in [Sessions -> SessionRecords]
      /\ session'[s] = record
      /\ \A q \in Sessions \ {s} : session'[q] = session[q]
  BY <1>1
<1>3. TypeOK'
  <2> HIDE DEF SessionRecords
  <2>1. session' \in [Sessions -> [status : {"none", "active", "completed"},
                                   source : ChosenSources \cup {None},
                                   quality : ChosenQualities \cup {None},
                                   subtitle : ChosenLanguages \cup {None},
                                   progress : SavedProgress \cup {None}]]
    BY <1>2 DEF SessionRecords
  <2> QED
    BY <2>1 DEF TypeOK
<1> QED
  BY <1>2, <1>3

(* What a client does with its session: begin it, select, save progress.   *)
LEMMA WatchEffect ==
    ASSUME TypeOK, NEW s \in Sessions, Watch(s)
    PROVE  /\ UNCHANGED <<now, sources, added, cache, reading>>
           /\ TypeOK'
           /\ \A q \in Sessions \ {s} : session'[q] = session[q] /\ saved'[q] = saved[q]
           /\ \/ /\ saved' = saved /\ session'[s].progress \in {session[s].progress, None}
                 /\ session'[s].status = "completed" <=> session[s].status = "completed"
              \/ \E p \in SavedProgress :
                    /\ saved'[s] = saved[s] \cup {p}
                    /\ session'[s].progress = p
                    /\ session'[s].status = StatusAfter(session[s].status, p)
                    /\ session[s].status # "none"
<1> USE DEF Update
<1>1. CASE CreatePlaybackSession(s)
  BY <1>1 DEF CreatePlaybackSession, Exists, NoSession, TypeOK
<1>2. CASE SelectPlaybackSource(s)
  <2>1. PICK source \in ChosenSources :
            /\ session' = [session EXCEPT ![s] = [session[s] EXCEPT !.source = source]]
            /\ UNCHANGED <<now, sources, added, cache, reading, saved>>
    BY <1>2 DEF SelectPlaybackSource
  <2> HIDE <1>2
  <2> DEFINE record == [session[s] EXCEPT !.source = source]
  <2>2. session[s] \in SessionRecords
    BY DEF TypeOK, SessionRecords
  <2>3. /\ record \in SessionRecords
        /\ record.status = session[s].status
        /\ record.progress = session[s].progress
    BY <2>2 DEF SessionRecords
  <2>4. session' = [session EXCEPT ![s] = record]
    BY <2>1
  <2> HIDE DEF record
  <2>5. /\ TypeOK' /\ session'[s] = record
        /\ \A q \in Sessions \ {s} : session'[q] = session[q] /\ saved'[q] = saved[q]
    BY <2>1, <2>3, <2>4, SelectEffect
  <2> QED
    BY <2>1, <2>3, <2>5
<1>3. CASE SelectPlaybackQuality(s)
  <2>1. PICK quality \in ChosenQualities :
            /\ session' = [session EXCEPT ![s] = [session[s] EXCEPT !.quality = quality]]
            /\ UNCHANGED <<now, sources, added, cache, reading, saved>>
    BY <1>3 DEF SelectPlaybackQuality
  <2> HIDE <1>3
  <2> DEFINE record == [session[s] EXCEPT !.quality = quality]
  <2>2. session[s] \in SessionRecords
    BY DEF TypeOK, SessionRecords
  <2>3. /\ record \in SessionRecords
        /\ record.status = session[s].status
        /\ record.progress = session[s].progress
    BY <2>2 DEF SessionRecords
  <2>4. session' = [session EXCEPT ![s] = record]
    BY <2>1
  <2> HIDE DEF record
  <2>5. /\ TypeOK' /\ session'[s] = record
        /\ \A q \in Sessions \ {s} : session'[q] = session[q] /\ saved'[q] = saved[q]
    BY <2>1, <2>3, <2>4, SelectEffect
  <2> QED
    BY <2>1, <2>3, <2>5
<1>4. CASE SelectPlaybackSubtitle(s)
  <2>1. PICK language \in ChosenLanguages \cup {None} :
            /\ session' = [session EXCEPT ![s] = [session[s] EXCEPT !.subtitle = language]]
            /\ UNCHANGED <<now, sources, added, cache, reading, saved>>
    BY <1>4 DEF SelectPlaybackSubtitle
  <2> HIDE <1>4
  <2> DEFINE record == [session[s] EXCEPT !.subtitle = language]
  <2>2. session[s] \in SessionRecords
    BY DEF TypeOK, SessionRecords
  <2>3. /\ record \in SessionRecords
        /\ record.status = session[s].status
        /\ record.progress = session[s].progress
    BY <2>2 DEF SessionRecords
  <2>4. session' = [session EXCEPT ![s] = record]
    BY <2>1
  <2> HIDE DEF record
  <2>5. /\ TypeOK' /\ session'[s] = record
        /\ \A q \in Sessions \ {s} : session'[q] = session[q] /\ saved'[q] = saved[q]
    BY <2>1, <2>3, <2>4, SelectEffect
  <2> QED
    BY <2>1, <2>3, <2>5
<1>5. ASSUME NEW p \in SavedProgress, SaveWatchProgress(s, p)
      PROVE  /\ UNCHANGED <<now, sources, added, cache, reading>>
             /\ TypeOK'
             /\ \A q \in Sessions \ {s} : session'[q] = session[q] /\ saved'[q] = saved[q]
             /\ saved'[s] = saved[s] \cup {p}
             /\ session'[s].progress = p
             /\ session'[s].status = StatusAfter(session[s].status, p)
             /\ session[s].status # "none"
  <2>1. StatusAfter(session[s].status, p) \in {"none", "active", "completed"}
    BY DEF StatusAfter, TypeOK
  <2>2. /\ UNCHANGED <<now, sources, added, cache, reading>>
        /\ session' = [session EXCEPT ![s] =
                          [session[s] EXCEPT
                              !.progress = p,
                              !.status = StatusAfter(session[s].status, p)]]
        /\ saved' = [saved EXCEPT ![s] = saved[s] \cup {p}]
        /\ session[s].status # "none"
    BY <1>5 DEF SaveWatchProgress, Exists
  <2> HIDE <1>5
  <2> QED
    BY <2>1, <2>2 DEF TypeOK
<1> QED
  BY <1>1, <1>2, <1>3, <1>4, <1>5 DEF Watch

LEMMA TypeStep == TypeOK /\ [Next]_vars => TypeOK'
<1> SUFFICES ASSUME TypeOK, [Next]_vars PROVE TypeOK'
  OBVIOUS
<1>1. CASE UNCHANGED vars
  BY <1>1 DEF vars, TypeOK
<1> QED
  BY <1>1, AddSourceType, GetPlaybackType, WatchEffect, TickType DEF Next

---------------------------------------------------------------------------
(* What readers and the cache hold is as old as it may be.                 *)

LEMMA AgeInit == Init => CacheFits /\ ReadingFits
  BY DEF Init, CacheFits, ReadingFits

LEMMA AgeStep ==
    ASSUME TypeOK, CacheFits, ReadingFits, [Next]_vars
    PROVE  CacheFits' /\ ReadingFits'
<1> USE PlaybackAssumption
<1>0. /\ now \in Nat /\ Len(added) = Len(sources) /\ Len(added) \in Nat
      /\ DOMAIN added = 1..Len(added)
      /\ \A i \in DOMAIN added : added[i] \in 0..now
  BY DEF TypeOK
<1>1. ASSUME UNCHANGED <<now, added, cache, reading>>
      PROVE  CacheFits' /\ ReadingFits'
  BY <1>1 DEF CacheFits, ReadingFits
<1>2. ASSUME NEW source \in Sources, AddSource(source)
      PROVE  CacheFits' /\ ReadingFits'
  <2>1. /\ UNCHANGED <<now, cache, reading>> /\ added \in Seq(Nat)
        /\ added' = Append(added, now)
    BY <1>2, AddSourceType
  <2>2. /\ DOMAIN added' = 1..(Len(added) + 1) /\ added'[Len(added) + 1] = now
        /\ \A i \in 1..Len(added) : added'[i] = added[i]
    BY <2>1, <1>0
  <2>3. CacheFits'
    <3>1. CASE cache = None
      BY <2>1, <3>1 DEF CacheFits
    <3>2. CASE cache # None
      <4>1. cache.expires \in Nat /\ cache.count \in 0..Len(added)
        BY <1>0, <3>2 DEF TypeOK
      <4>2. cache.expires <= now + Ttl
        BY <3>2 DEF CacheFits
      <4>3. cache.count \in Nat
        BY <4>1, <1>0
      <4>4. ASSUME NEW i \in DOMAIN added', i > cache.count
            PROVE  cache.expires <= added'[i] + Ttl + MaxRead
        <5>1. CASE i = Len(added) + 1
          <6>1. added'[i] = now
            BY <5>1, <2>2
          <6> QED
            BY <6>1, <4>1, <4>2, <1>0
        <5>2. CASE i \in 1..Len(added)
          <6>1. added'[i] = added[i] /\ i \in DOMAIN added
            BY <5>2, <2>2, <1>0
          <6> QED
            BY <6>1, <4>4, <3>2 DEF CacheFits
        <5> QED
          BY <5>1, <5>2, <2>2, <1>0
      <4> QED
        BY <4>2, <4>4, <2>1 DEF CacheFits
    <3> QED
      BY <3>1, <3>2
  <2>4. ReadingFits'
    <3>1. ASSUME NEW c \in Clients, reading[c] # None
          PROVE  /\ now <= reading[c].since + MaxRead
                 /\ \A i \in DOMAIN added' :
                       i > reading[c].count => reading[c].since <= added'[i]
      <4>1. reading[c].count \in Nat /\ reading[c].since \in 0..now
        BY <1>0, <3>1 DEF TypeOK
      <4>2. /\ now <= reading[c].since + MaxRead
            /\ \A i \in DOMAIN added :
                  i > reading[c].count => reading[c].since <= added[i]
        BY <3>1 DEF ReadingFits
      <4>3. ASSUME NEW i \in DOMAIN added', i > reading[c].count
            PROVE  reading[c].since <= added'[i]
        <5>1. CASE i = Len(added) + 1
          BY <5>1, <2>2, <4>1, <1>0
        <5>2. CASE i \in 1..Len(added)
          BY <5>2, <2>2, <4>2, <4>3, <1>0
        <5> QED
          BY <5>1, <5>2, <2>2, <1>0
      <4> QED
        BY <4>2, <4>3
    <3> QED
      BY <3>1, <2>1 DEF ReadingFits
  <2> QED
    BY <2>3, <2>4
<1>3. ASSUME NEW c \in Clients, AskUncached(c)
      PROVE  CacheFits' /\ ReadingFits'
  <2>1. /\ UNCHANGED <<now, sources, added>> /\ cache' = None
        /\ reading' = [reading EXCEPT ![c] = [count |-> Len(sources), since |-> now]]
    BY <1>3 DEF AskUncached
  <2>2. ReadingFits'
    BY <1>0, <2>1 DEF ReadingFits, TypeOK
  <2> QED
    BY <2>1, <2>2 DEF CacheFits
<1>4. ASSUME NEW c \in Clients, Answer(c)
      PROVE  CacheFits' /\ ReadingFits'
  <2>1. /\ UNCHANGED <<now, sources, added>> /\ reading[c] # None
        /\ cache' = [count |-> reading[c].count, expires |-> now + Ttl]
        /\ reading' = [reading EXCEPT ![c] = None]
    BY <1>4 DEF Answer
  <2>2. /\ now <= reading[c].since + MaxRead
        /\ \A i \in DOMAIN added : i > reading[c].count => reading[c].since <= added[i]
        /\ reading[c].since \in Nat /\ reading[c].count \in Nat
    BY <1>0, <2>1 DEF ReadingFits, TypeOK
  <2>3. CacheFits'
    <3>1. /\ cache'.count = reading[c].count /\ cache'.expires = now + Ttl
          /\ Ttl \in Nat /\ MaxRead \in Nat
      BY <2>1
    <3>2. ASSUME NEW i \in DOMAIN added, i > reading[c].count
          PROVE  now + Ttl <= added[i] + Ttl + MaxRead
      <4>1. reading[c].since <= added[i] /\ added[i] \in Nat
        BY <1>0, <2>2, <3>2
      <4> QED
        BY <1>0, <2>2, <3>1, <4>1
    <3>3. now + Ttl <= now + Ttl
      BY <1>0, <3>1
    <3> QED
      BY <2>1, <3>1, <3>2, <3>3 DEF CacheFits
  <2>4. ASSUME NEW d \in Clients, reading'[d] # None
        PROVE  reading[d] # None /\ reading'[d] = reading[d]
    BY <2>1, <2>4 DEF TypeOK
  <2>5. ReadingFits'
    BY <2>1, <2>4 DEF ReadingFits
  <2> QED
    BY <2>3, <2>5
<1>5. CASE Tick
  <2>1. /\ now' = now + 1 /\ UNCHANGED <<added, cache, reading>>
        /\ \A c \in Clients : reading[c] # None => now < reading[c].since + MaxRead
    BY <1>5 DEF Tick
  <2>2. \A c \in Clients : reading[c] # None => now' <= reading[c].since + MaxRead
    <3>1. \A c \in Clients : reading[c] # None => reading[c].since \in Nat
      BY <1>0 DEF TypeOK
    <3> QED
      BY <1>0, <2>1, <3>1
  <2>3. ReadingFits'
    BY <2>1, <2>2 DEF ReadingFits
  <2>4. CacheFits'
    <3>1. cache # None => cache.expires \in Nat
      BY DEF TypeOK
    <3> QED
      BY <1>0, <2>1, <3>1 DEF CacheFits
  <2> QED
    BY <2>3, <2>4
<1>6. ASSUME NEW s \in Sessions, Watch(s)
      PROVE  CacheFits' /\ ReadingFits'
  <2>1. UNCHANGED <<now, sources, added, cache, reading>>
    BY <1>6, WatchEffect
  <2> QED
    BY <1>1, <2>1
<1>7. CASE UNCHANGED vars
  BY <1>1, <1>7 DEF vars
<1> HIDE DEF CacheFits, ReadingFits
<1> QED
  BY <1>2, <1>3, <1>4, <1>5, <1>6, <1>7 DEF Next, GetPlayback

---------------------------------------------------------------------------
(* Completion and progress.                                                *)

LEMMA SessionInit == Init => HasCompleted /\ ProgressSaved
  BY DEF Init, HasCompleted, ProgressSaved, NoSession

LEMMA SessionStep ==
    ASSUME TypeOK, HasCompleted, ProgressSaved, [Next]_vars
    PROVE  HasCompleted' /\ ProgressSaved'
<1>1. CASE UNCHANGED <<session, saved>>
  BY <1>1 DEF HasCompleted, ProgressSaved
<1>2. ASSUME NEW s \in Sessions, Watch(s)
      PROVE  HasCompleted' /\ ProgressSaved'
  <2>1. \A q \in Sessions \ {s} : session'[q] = session[q] /\ saved'[q] = saved[q]
    BY <1>2, WatchEffect
  <2>2. CASE /\ saved' = saved /\ session'[s].progress \in {session[s].progress, None}
             /\ session'[s].status = "completed" <=> session[s].status = "completed"
    BY <2>1, <2>2 DEF HasCompleted, ProgressSaved
  <2>3. ASSUME NEW p \in SavedProgress,
               saved'[s] = saved[s] \cup {p},
               session'[s].progress = p,
               session'[s].status = StatusAfter(session[s].status, p),
               session[s].status # "none"
        PROVE  HasCompleted' /\ ProgressSaved'
    <3>1. session'[s].status = "completed" <=>
             NearComplete(p) \/ session[s].status = "completed"
      BY <2>3 DEF StatusAfter, TypeOK
    <3>2. session'[s].status = "completed" <=>
             \E q \in saved'[s] : NearComplete(q)
      BY <2>3, <3>1 DEF HasCompleted
    <3> QED
      BY <2>1, <2>3, <3>2 DEF HasCompleted, ProgressSaved
  <2> QED
    BY <1>2, <2>2, <2>3, WatchEffect
<1> QED
  BY <1>1, <1>2 DEF Next, vars, GetPlayback, AskUncached, Answer, Tick, AddSource

LEMMA CompletedFollows ==
    ASSUME TypeOK, HasCompleted, ProgressSaved
    PROVE  CompletedIfWatched
<1> SUFFICES ASSUME NEW s \in Sessions
             PROVE  /\ ResumePoint(s).completed => session[s].status = "completed"
                    /\ ResumePoint(s).position # 0 =>
                          \E p \in saved[s] :
                              p.position = ResumePoint(s).position /\ ~NearComplete(p)
  BY DEF CompletedIfWatched, HasCompleted
<1> DEFINE p == session[s].progress
<1>1. p \in saved[s] \cup {None}
  BY DEF ProgressSaved
<1>2. CASE p = None
  BY <1>2 DEF ResumePoint
<1>3. CASE p # None /\ NearComplete(p)
  BY <1>1, <1>3 DEF ResumePoint, HasCompleted
<1>4. CASE p # None /\ ~NearComplete(p)
  BY <1>1, <1>4 DEF ResumePoint
<1> QED
  BY <1>2, <1>3, <1>4

---------------------------------------------------------------------------
LEMMA PlaybackInvariance == Spec => []PlaybackInv
<1>1. Init => PlaybackInv
  BY InitType, AgeInit, SessionInit DEF PlaybackInv
<1>2. PlaybackInv /\ [Next]_vars => PlaybackInv'
  BY TypeStep, AgeStep, SessionStep DEF PlaybackInv
<1> QED
  BY <1>1, <1>2, PTL DEF Spec

(* Catalog, cache, readers and sessions keep their types.                  *)
THEOREM TypeCorrect == Spec => []TypeOK
<1> QED
  BY PlaybackInvariance, PTL DEF PlaybackInv

(* Nothing is served from the cache a ttl and a read after a source was    *)
(* added, nor read a read after it, without that source: however readers   *)
(* overtake each other in storing what they read.                          *)
THEOREM AnswersStayYoung == Spec => []AnswersYoung
<1>1. PlaybackInv => AnswersYoung
  <2> SUFFICES ASSUME PlaybackInv, NEW i \in DOMAIN added
               PROVE  /\ added[i] + Ttl + MaxRead <= now => (Live => i <= cache.count)
                      /\ added[i] + MaxRead < now =>
                            \A c \in Clients : reading[c] # None => i <= reading[c].count
    BY DEF AnswersYoung
  <2> USE PlaybackAssumption
  <2>1. now \in Nat /\ added[i] \in Nat /\ i \in Nat
    BY DEF PlaybackInv, TypeOK
  <2>2. ASSUME added[i] + Ttl + MaxRead <= now, Live PROVE i <= cache.count
    <3>1. cache.count \in Nat /\ cache.expires \in Nat /\ now < cache.expires
      BY <2>2 DEF Live, PlaybackInv, TypeOK
    <3> QED
      BY <2>1, <2>2, <3>1 DEF Live, PlaybackInv, CacheFits
  <2>3. ASSUME added[i] + MaxRead < now, NEW c \in Clients, reading[c] # None
        PROVE  i <= reading[c].count
    <3>1. reading[c].count \in Nat /\ reading[c].since \in Nat
      BY <2>3 DEF PlaybackInv, TypeOK
    <3> QED
      BY <2>1, <2>3, <3>1 DEF PlaybackInv, ReadingFits
  <2> QED
    BY <2>2, <2>3
<1> QED
  BY <1>1, PlaybackInvariance, PTL

(* A session is COMPLETED exactly if progress near the end was ever saved  *)
(* in it, and is resumed where it was left or at the start.                *)
THEOREM Completion == Spec => []CompletedIfWatched
<1>1. PlaybackInv => CompletedIfWatched
  BY CompletedFollows DEF PlaybackInv
<1> QED
  BY <1>1, PlaybackInvariance, PTL

---------------------------------------------------------------------------
(* Two ways to choose a source.                                            *)

LEMMA TwoSmaller ==
    ASSUME NEW a, NEW b, DOMAIN a = {1, 2}
    PROVE  Smaller(a, b) <=> \/ a[1] < b[1]
                             \/ a[1] = b[1] /\ a[2] < b[2]
<1>1. 1..(1 - 1) = {} /\ 1..(2 - 1) = {1}
  OBVIOUS
<1> QED
  BY <1>1 DEF Smaller

LEMMA FourSmaller ==
    ASSUME NEW a, NEW b, DOMAIN a = {1, 2, 3, 4}
    PROVE  Smaller(a, b) <=> \/ a[1] < b[1]
                             \/ a[1] = b[1] /\ a[2] < b[2]
                             \/ a[1] = b[1] /\ a[2] = b[2] /\ a[3] < b[3]
                             \/ a[1] = b[1] /\ a[2] = b[2] /\ a[3] = b[3] /\ a[4] < b[4]
<1>1. /\ 1..(1 - 1) = {} /\ 1..(2 - 1) = {1}
      /\ 1..(3 - 1) = {1, 2} /\ 1..(4 - 1) = {1, 2, 3}
  OBVIOUS
<1> QED
  BY <1>1 DEF Smaller

(* Above means ranked before, and any provider with a priority before      *)
(* those without.                                                          *)
LEMMA RanksFollow ==
    ASSUME NEW x, NEW y, x.provider \in DOMAIN Priority,
           IF y.provider \in DOMAIN Priority
           THEN Priority[y.provider] < Priority[x.provider] ELSE TRUE
    PROVE  ProviderRank(x) < ProviderRank(y)
<1> DEFINE above(s) == {p \in DOMAIN Priority : Priority[p] > Priority[s.provider]}
           top == IF y.provider \in DOMAIN Priority THEN above(y) ELSE DOMAIN Priority
<1> USE PlaybackAssumption
<1>1. above(x) \subseteq top /\ x.provider \in top /\ x.provider \notin above(x)
  OBVIOUS
<1>2. IsFiniteSet(top) /\ Cardinality(top) \in Nat
  <2>1. top \subseteq DOMAIN Priority
    OBVIOUS
  <2> QED
    BY <2>1, FS_Subset, FS_CardinalityType
<1>3. Cardinality(above(x)) < Cardinality(top)
  <2>1. /\ Cardinality(above(x)) <= Cardinality(top) /\ IsFiniteSet(above(x))
        /\ Cardinality(top) = Cardinality(above(x)) => top = above(x)
    BY <1>1, <1>2, FS_Subset
  <2>2. Cardinality(above(x)) \in Nat
    BY <2>1, FS_CardinalityType
  <2> QED
    BY <1>1, <1>2, <2>1, <2>2
<1> QED
  BY <1>3 DEF ProviderRank

LEMMA RankType ==
    ASSUME NEW x PROVE ProviderRank(x) \in Nat
<1> USE PlaybackAssumption
<1>1. IsFiniteSet({p \in DOMAIN Priority : Priority[p] > Priority[x.provider]})
  BY FS_Subset
<1> QED
  BY <1>1, FS_CardinalityType DEF ProviderRank

LEMMA RanksAgree ==
    ASSUME PrioritiesDiffer, NEW x, NEW y
    PROVE  /\ PriorityOf(x) \in Int /\ PriorityOf(y) \in Int
           /\ PriorityOf(x) > PriorityOf(y) => ProviderRank(x) < ProviderRank(y)
           /\ PriorityOf(x) = PriorityOf(y) => ProviderRank(x) = ProviderRank(y)
<1> USE PlaybackAssumption DEF PrioritiesDiffer
<1>1. PriorityOf(x) \in Int /\ PriorityOf(y) \in Int
  BY DEF PriorityOf
<1>2. ASSUME PriorityOf(x) > PriorityOf(y) PROVE ProviderRank(x) < ProviderRank(y)
  <2>1. /\ x.provider \in DOMAIN Priority
        /\ IF y.provider \in DOMAIN Priority
           THEN Priority[y.provider] < Priority[x.provider] ELSE TRUE
    BY <1>2 DEF PriorityOf
  <2> QED
    BY <2>1, RanksFollow
<1>3. ASSUME PriorityOf(x) = PriorityOf(y) PROVE ProviderRank(x) = ProviderRank(y)
  <2>1. CASE x.provider \in DOMAIN Priority
    <3>1. x.provider = y.provider
      BY <1>3, <2>1 DEF PriorityOf
    <3> QED
      BY <3>1 DEF ProviderRank
  <2>2. CASE x.provider \notin DOMAIN Priority
    <3>1. y.provider \notin DOMAIN Priority
      BY <1>3, <2>2 DEF PriorityOf
    <3> QED
      BY <2>2, <3>1 DEF ProviderRank
  <2> QED
    BY <2>1, <2>2
<1> QED
  BY <1>1, <1>2, <1>3

(* The keys, place by place.                                               *)
LEMMA BestKeyIs ==
    ASSUME NEW x \in Sources, NEW q
    PROVE  LET k == BestKey(x, q)
           IN  /\ DOMAIN k = {1, 2, 3, 4}
               /\ k[1] = IF x.quality = q THEN 0 ELSE 1
               /\ k[2] = ProviderRank(x) /\ k[3] = -PriorityOf(x) /\ k[4] = -QualityRank(x)
  BY DEF BestKey

LEMMA PlainKeyIs ==
    ASSUME NEW x \in Sources
    PROVE  LET k == PlainKey(x)
           IN  DOMAIN k = {1, 2} /\ k[1] = -PriorityOf(x) /\ k[2] = -QualityRank(x)
  BY DEF PlainKey

(* Among the sources of one quality both keys sort alike.                  *)
LEMMA KeysAgree ==
    ASSUME PrioritiesDiffer, NEW x \in Sources, NEW y \in Sources, x.quality = y.quality
    PROVE  /\ Smaller(BestKey(x, x.quality), BestKey(y, x.quality)) <=>
                 Smaller(PlainKey(x), PlainKey(y))
           /\ BestKey(x, x.quality) = BestKey(y, x.quality) <=> PlainKey(x) = PlainKey(y)
<1> DEFINE r == -QualityRank(x)
           rx == ProviderRank(x)
           ry == ProviderRank(y)
           px == PriorityOf(x)
           py == PriorityOf(y)
<1>1. r \in Int /\ QualityRank(y) = QualityRank(x)
  BY PlaybackAssumption DEF IsSource, Qualities, QualityRank, Aggregate!STREAM_QUALITY_RANK
<1>2. rx \in Int /\ ry \in Int /\ px \in Int /\ py \in Int
  BY RanksAgree, RankType
<1>3. (px > py => rx < ry) /\ (px = py => rx = ry) /\ (py > px => ry < rx)
  BY RanksAgree
<1>4. Smaller(BestKey(x, x.quality), BestKey(y, x.quality)) <=>
         \/ rx < ry
         \/ rx = ry /\ -px < -py
  <2> DEFINE a == BestKey(x, x.quality)
             b == BestKey(y, x.quality)
  <2>1. /\ DOMAIN a = {1, 2, 3, 4}
        /\ a[1] = 0 /\ a[2] = rx /\ a[3] = -px /\ a[4] = r
        /\ b[1] = 0 /\ b[2] = ry /\ b[3] = -py /\ b[4] = r
    BY <1>1, BestKeyIs
  <2> HIDE DEF a, b, r, rx, ry, px, py
  <2>2. Smaller(a, b) <=> \/ rx < ry
                          \/ rx = ry /\ -px < -py
    BY <1>1, <2>1, FourSmaller
  <2> QED
    BY <2>2 DEF a, b
<1>5. Smaller(PlainKey(x), PlainKey(y)) <=> -px < -py \/ (-px = -py /\ r < r)
  BY <1>1, PlainKeyIs, TwoSmaller
<1>6. /\ BestKey(x, x.quality) = BestKey(y, x.quality) <=> rx = ry /\ -px = -py
      /\ PlainKey(x) = PlainKey(y) <=> -px = -py
  BY <1>1 DEF BestKey, PlainKey
<1> HIDE DEF r, rx, ry, px, py
<1> QED
  BY <1>1, <1>2, <1>3, <1>4, <1>5, <1>6

(* A source of the preferred quality is before any other.                  *)
LEMMA PreferredFirst ==
    ASSUME NEW x \in Sources, NEW y \in Sources, y.quality # x.quality
    PROVE  /\ Smaller(BestKey(x, x.quality), BestKey(y, x.quality))
           /\ ~Smaller(BestKey(y, x.quality), BestKey(x, x.quality))
           /\ BestKey(x, x.quality) # BestKey(y, x.quality)
<1>1. BestKey(x, x.quality)[1] = 0 /\ BestKey(y, x.quality)[1] = 1
  BY BestKeyIs
<1>2. DOMAIN BestKey(x, x.quality) = {1, 2, 3, 4} /\ DOMAIN BestKey(y, x.quality) = {1, 2, 3, 4}
  BY BestKeyIs
<1> QED
  BY <1>1, <1>2, FourSmaller

(* Preferring a quality and asking for it choose the same source.          *)
THEOREM Agreement == Spec => []ChoicesAgree
<1>1. TypeOK => ChoicesAgree
  <2> SUFFICES ASSUME TypeOK, PrioritiesDiffer, NEW q \in Qualities, OfQuality(q) # {}
               PROVE  SelectBest(q) = SelectByQuality(q)
    BY DEF ChoicesAgree
  <2> DEFINE best == [i \in Candidates |-> BestKey(sources[i], q)]
             plain == [i \in OfQuality(q) |-> PlainKey(sources[i])]
  <2>1. \A i \in Candidates : sources[i] \in Sources /\ i \in Nat
    <3>1. sources \in Seq(Sources) /\ Candidates \subseteq 1..Len(sources)
      BY DEF Candidates, TypeOK
    <3> QED
      BY <3>1
  <2>2. /\ OfQuality(q) \subseteq Candidates
        /\ \A i \in OfQuality(q) : sources[i].quality = q
        /\ \A i \in Candidates \ OfQuality(q) : sources[i].quality # q
    BY DEF OfQuality
  <2>3. \A i, j \in OfQuality(q) :
            /\ Smaller(best[i], best[j]) <=> Smaller(plain[i], plain[j])
            /\ best[i] = best[j] <=> plain[i] = plain[j]
    BY <2>1, <2>2, KeysAgree
  <2>4. \A i \in OfQuality(q), j \in Candidates \ OfQuality(q) :
            /\ Smaller(best[i], best[j]) /\ ~Smaller(best[j], best[i])
            /\ best[i] # best[j]
    BY <2>1, <2>2, PreferredFirst
  <2>5. DOMAIN best = Candidates /\ DOMAIN plain = OfQuality(q)
    OBVIOUS
  <2> HIDE DEF best, plain
  <2>6. \A i \in Firsts(best) : i \in OfQuality(q)
    BY <2>2, <2>4, <2>5 DEF Firsts
  <2>7. \A i \in OfQuality(q) : i \in Firsts(best) <=> i \in Firsts(plain)
    BY <2>2, <2>3, <2>4, <2>5 DEF Firsts
  <2>8. Firsts(best) = Firsts(plain)
    BY <2>5, <2>6, <2>7 DEF Firsts
  <2> QED
    BY <2>8 DEF FirstBy, SelectBest, SelectByQuality, best, plain
<1> QED
  BY <1>1, TypeCorrect, PTL
=============================================================================

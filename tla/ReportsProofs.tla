---------------------------- MODULE ReportsProofs ----------------------------
(* Proofs about ElectionHistory and Reports, for every set of keys, size of  *)
(* the ring and of the file, and number of rows, days and faults.            *)
EXTENDS Reports, SequenceTheorems, TLAPS

USE HistoryAssumption, ReportsAssumption

-----------------------------------------------------------------------------
(* The history.                                                              *)

\* The newest rows of a sequence: a suffix of it, no longer than the ring.
LEMMA NewestFacts ==
    ASSUME NEW S, NEW s \in Seq(S)
    PROVE  /\ Newest(s) \in Seq(S)
           /\ Len(Newest(s)) <= RingMax
           /\ Len(Newest(s)) <= Len(s)
           /\ s # <<>> => /\ Newest(s) # <<>>
                          /\ Newest(s)[Len(Newest(s))] = s[Len(s)]
           /\ s = <<>> => Newest(s) = <<>>
           /\ \A i \in 1..Len(Newest(s)) :
                 /\ i + (Len(s) - Len(Newest(s))) \in 1..Len(s)
                 /\ Newest(s)[i] = s[i + (Len(s) - Len(Newest(s)))]
<1>1. Len(s) \in Nat
  OBVIOUS
<1>2. CASE Len(s) > RingMax
  <2> DEFINE m == Len(s) - RingMax + 1
  <2>1. Newest(s) = SubSeq(s, m, Len(s))
    BY <1>2 DEF Newest
  <2>2. m \in Int /\ Len(s) \in Int /\ \A i \in m..Len(s) : s[i] \in S
    BY <1>1, <1>2
  <2>3. /\ SubSeq(s, m, Len(s)) \in Seq(S)
        /\ Len(SubSeq(s, m, Len(s))) = IF m <= Len(s) THEN Len(s) - m + 1 ELSE 0
        /\ \A i \in 1..(Len(s) - m + 1) : SubSeq(s, m, Len(s))[i] = s[m + i - 1]
    BY <2>2, SubSeqProperties
  <2>4. Newest(s) \in Seq(S) /\ Len(Newest(s)) = RingMax
    BY <1>1, <1>2, <2>1, <2>3
  <2>5. \A i \in 1..RingMax :
           /\ i + (Len(s) - RingMax) \in 1..Len(s)
           /\ Newest(s)[i] = s[i + (Len(s) - RingMax)]
    <3> TAKE i \in 1..RingMax
    <3>1. i \in 1..(Len(s) - m + 1) /\ m + i - 1 = i + (Len(s) - RingMax)
      BY <1>1, <1>2
    <3>2. QED BY <1>1, <1>2, <2>1, <2>3, <3>1
  <2>6. RingMax + (Len(s) - RingMax) = Len(s) /\ RingMax \in 1..RingMax
    BY <1>1
  <2>7. Newest(s) # <<>> /\ s # <<>>
    BY <1>1, <1>2, <2>4
  <2>8. QED BY <1>1, <1>2, <2>4, <2>5, <2>6, <2>7
<1>3. CASE ~(Len(s) > RingMax)
  <2>1. Newest(s) = s
    BY <1>3 DEF Newest
  <2>2. QED BY <1>1, <1>3, <2>1
<1>4. QED BY <1>2, <1>3

\* What the rows that are written have in common: the goroutines that are left
\* write rows that are not in the file, and no row is newer than the last.
Written ==
    /\ \A ev \in pending : ev[1] <= events /\ \A j \in DOMAIN file : file[j] # ev
    /\ \A j \in DOMAIN file : file[j][1] <= events

\* Repeated reports are compared with the last row of the ring.
LastIsLast == last = IF ring = <<>> THEN None ELSE ring[Len(ring)]

HistoryInv == HistoryTypes /\ LastIsLast /\ ShowsTheLatest /\ Written /\ RingIsBacked

LEMMA InitHistory == HistoryInit => HistoryInv
<1> SUFFICES ASSUME HistoryInit PROVE HistoryInv
  OBVIOUS
<1>1. <<>> \in Seq(Event) /\ Len(<<>>) = 0 /\ 0 <= RingMax /\ DOMAIN <<>> = {}
  OBVIOUS
<1>2. HistoryTypes
  <2>1. ring \in Seq(Event) /\ Len(ring) <= RingMax /\ file \in Seq(Event)
    BY <1>1 DEF HistoryInit
  <2>2. /\ last \in Event \cup {None} /\ current \in Key \cup {None}
        /\ fresh \subseteq Event /\ pending \subseteq Event /\ failed \subseteq Event
    BY DEF HistoryInit
  <2>3. events \in 0..MaxEvents /\ faults \in 0..MaxFaults
    BY DEF HistoryInit
  <2>4. torn \in BOOLEAN
    BY DEF HistoryInit
  <2>5. QED BY <2>1, <2>2, <2>3, <2>4 DEF HistoryTypes
<1>3. LastIsLast /\ ShowsTheLatest /\ Written /\ RingIsBacked
  BY <1>1 DEF HistoryInit, LastIsLast, ShowsTheLatest, Written, RingIsBacked
<1>4. QED BY <1>2, <1>3 DEF HistoryInv

\* A row that is logged is well typed, and is the last of the ring.
LEMMA LogFacts ==
    ASSUME HistoryTypes, NEW k \in Key, Log(k)
    PROVE  LET ev == <<events + 1, k>> IN
           /\ ev \in Event /\ ev[1] = events + 1 /\ ev[2] = k
           /\ events' \in 0..MaxEvents /\ events' = events + 1
           /\ ring' \in Seq(Event) /\ Len(ring') <= RingMax
           /\ ring' # <<>> /\ ring'[Len(ring')] = ev
           /\ \A i \in DOMAIN ring' :
                 ring'[i] = ev \/ \E j \in DOMAIN ring : ring[j] = ring'[i]
<1> DEFINE ev == <<events + 1, k>>
           s == Append(ring, ev)
<1>1. events \in Nat /\ events < MaxEvents /\ events' = events + 1
  BY DEF HistoryTypes, Log
<1>2. ev \in Event /\ ev[1] = events + 1 /\ ev[2] = k /\ events' \in 0..MaxEvents
  BY <1>1 DEF Event
<1>3. /\ ring \in Seq(Event) /\ ring' = Newest(s)
  BY DEF HistoryTypes, Log
<1> HIDE DEF ev
<1>4. /\ s \in Seq(Event) /\ Len(s) = Len(ring) + 1 /\ s # <<>>
      /\ s[Len(s)] = ev
      /\ \A i \in 1..Len(ring) : s[i] = ring[i]
  BY <1>2, <1>3
<1> HIDE DEF s
<1>5. /\ ring' \in Seq(Event) /\ Len(ring') <= RingMax /\ Len(ring') <= Len(s)
      /\ ring' # <<>> /\ ring'[Len(ring')] = ev
      /\ \A i \in 1..Len(ring') :
            /\ i + (Len(s) - Len(ring')) \in 1..Len(s)
            /\ ring'[i] = s[i + (Len(s) - Len(ring'))]
  BY <1>3, <1>4, NewestFacts
<1>6. ASSUME NEW i \in DOMAIN ring'
      PROVE  ring'[i] = ev \/ \E j \in DOMAIN ring : ring[j] = ring'[i]
  <2> DEFINE n == i + (Len(s) - Len(ring'))
  <2>0. DOMAIN ring' = 1..Len(ring')
    BY <1>5
  <2>1. n \in 1..Len(s) /\ ring'[i] = s[n]
    BY <1>5, <1>6, <2>0
  <2>2. CASE n = Len(s)
    BY <1>4, <2>1, <2>2
  <2>3. CASE n # Len(s)
    <3>1. n \in 1..Len(ring)
      BY <1>3, <1>4, <2>1, <2>3
    <3>2. QED BY <1>3, <1>4, <2>1, <3>1
  <2>4. QED BY <2>2, <2>3
<1>7. QED BY <1>1, <1>2, <1>5, <1>6 DEF ev

LEMMA ReportKeepsHistory ==
    ASSUME HistoryInv, NEW k \in Key, Report(k) PROVE HistoryInv'
<1>0. HistoryTypes /\ LastIsLast /\ Written /\ RingIsBacked /\ current' = k
      /\ UNCHANGED <<file, torn, failed, faults>>
  BY DEF HistoryInv, Report
<1>1. CASE IsRepeat(k) /\ UNCHANGED <<ring, last, fresh, pending, events>>
  <2>1. HistoryTypes' /\ LastIsLast' /\ Written' /\ RingIsBacked'
    BY <1>0, <1>1 DEF HistoryTypes, LastIsLast, Written, RingIsBacked
  <2>2. last # None /\ last[2] = k
    BY <1>1 DEF IsRepeat
  <2>3. ring # <<>> /\ ring[Len(ring)][2] = k
    BY <1>0, <2>2 DEF LastIsLast
  <2>4. ShowsTheLatest'
    BY <1>0, <1>1, <2>3 DEF ShowsTheLatest
  <2>5. QED BY <2>1, <2>4 DEF HistoryInv
<1>2. CASE Log(k)
  <2> DEFINE ev == <<events + 1, k>>
  <2>1. /\ ev \in Event /\ ev[1] = events + 1 /\ ev[2] = k
        /\ events' \in 0..MaxEvents /\ events' = events + 1 /\ events \in Nat
        /\ ring' \in Seq(Event) /\ Len(ring') <= RingMax
        /\ ring' # <<>> /\ ring'[Len(ring')] = ev
        /\ \A i \in DOMAIN ring' :
              ring'[i] = ev \/ \E j \in DOMAIN ring : ring[j] = ring'[i]
    BY <1>0, <1>2, LogFacts DEF HistoryTypes
  <2>2. last' = ev /\ fresh' = fresh \cup {ev} /\ pending' = pending \cup {ev}
    BY <1>2 DEF Log
  <2> HIDE DEF ev
  <2>3. HistoryTypes'
    BY <1>0, <2>1, <2>2 DEF HistoryTypes
  <2>4. LastIsLast' /\ ShowsTheLatest'
    BY <1>0, <2>1, <2>2 DEF LastIsLast, ShowsTheLatest
  <2>5. \A j \in DOMAIN file : file[j] \in Event /\ file[j][1] \in Nat
    BY <1>0 DEF HistoryTypes, Event
  <2>6. \A x \in pending : x[1] \in Nat
    BY <1>0 DEF HistoryTypes, Event
  <2>7. Written'
    BY <1>0, <2>1, <2>2, <2>5, <2>6 DEF Written
  <2>8. RingIsBacked'
    BY <1>0, <2>1, <2>2 DEF RingIsBacked
  <2>9. QED BY <2>3, <2>4, <2>7, <2>8 DEF HistoryInv
<1>3. QED BY <1>1, <1>2 DEF Report

LEMMA AgeKeepsHistory == HistoryInv /\ Age => HistoryInv'
BY DEF Age, HistoryInv, HistoryTypes, LastIsLast, ShowsTheLatest, Written, RingIsBacked

LEMMA WriteKeepsHistory ==
    ASSUME HistoryInv, NEW ev \in pending, WriteRow(ev) PROVE HistoryInv'
<1>0. /\ HistoryTypes /\ LastIsLast /\ ShowsTheLatest /\ Written /\ RingIsBacked
      /\ UNCHANGED <<ring, last, fresh, events, current>>
      /\ pending' = pending \ {ev}
  BY DEF HistoryInv, WriteRow
<1>1. LastIsLast' /\ ShowsTheLatest'
  BY <1>0 DEF LastIsLast, ShowsTheLatest
<1>2. CASE file' = Append(file, ev) /\ UNCHANGED <<torn, failed, faults>>
  <2>1. /\ file \in Seq(Event) /\ ev \in Event
        /\ DOMAIN file = 1..Len(file) /\ Len(file) \in Nat
    BY <1>0 DEF HistoryTypes
  <2>2. /\ file' \in Seq(Event)
        /\ DOMAIN file' = 1..(Len(file) + 1)
        /\ file'[Len(file) + 1] = ev
        /\ \A j \in DOMAIN file : j \in DOMAIN file' /\ file'[j] = file[j]
        /\ \A j \in DOMAIN file' : j = Len(file) + 1 \/ j \in DOMAIN file
    BY <1>2, <2>1
  <2>3. HistoryTypes'
    BY <1>0, <1>2, <2>2 DEF HistoryTypes
  <2>4. Written'
    BY <1>0, <2>2 DEF Written
  <2>5. RingIsBacked'
    <3>1. \A i \in DOMAIN ring :
             \/ ring[i] \in (pending \cup failed)'
             \/ \E j \in DOMAIN file' : file'[j] = ring[i]
      <4> TAKE i \in DOMAIN ring
      <4>1. CASE ring[i] = ev
        <5>1. Len(file) + 1 \in DOMAIN file'
          BY <2>1, <2>2
        <5>2. QED BY <2>2, <4>1, <5>1
      <4>2. CASE ring[i] # ev
        BY <1>0, <1>2, <2>2, <4>2 DEF RingIsBacked
      <4>3. QED BY <4>1, <4>2
    <3>2. \A i, j \in DOMAIN file' : file'[i] = file'[j] => i = j
      BY <1>0, <2>2 DEF RingIsBacked, Written
    <3>3. QED BY <1>0, <3>1, <3>2 DEF RingIsBacked
  <2>6. QED BY <1>1, <2>3, <2>4, <2>5 DEF HistoryInv
<1>3. CASE failed' = failed \cup {ev} /\ UNCHANGED file /\ torn' \in BOOLEAN
           /\ (Fault \/ UNCHANGED faults)
  <2>1. HistoryTypes'
    BY <1>0, <1>3 DEF HistoryTypes, Fault
  <2>2. Written' /\ RingIsBacked'
    BY <1>0, <1>3 DEF Written, RingIsBacked
  <2>3. QED BY <1>1, <2>1, <2>2 DEF HistoryInv
<1>4. QED BY <1>2, <1>3 DEF WriteRow

\* A file of rows that are all different is replaced, or not: what it holds then
\* was in it, and what it held of the newest rows it holds or has lost.
LEMMA RewriteFacts ==
    ASSUME NEW s \in Seq(Event), failed \subseteq Event, file = s, torn \in BOOLEAN,
           \A i, j \in DOMAIN s : s[i] = s[j] => i = j,
           Rewrite(s)
    PROVE  /\ file' \in Seq(Event) /\ torn' \in BOOLEAN
           /\ failed' \subseteq Event /\ failed \subseteq failed'
           /\ \A ev \in failed' : ev \in failed \/ \E j \in DOMAIN s : s[j] = ev
           /\ \A j \in DOMAIN file' : \E i \in DOMAIN s : s[i] = file'[j]
           /\ \A i, j \in DOMAIN file' : file'[i] = file'[j] => i = j
           /\ \A i \in DOMAIN Newest(s) :
                 Newest(s)[i] \in failed' \/ \E j \in DOMAIN file' : file'[j] = Newest(s)[i]
<1> DEFINE new == Newest(s)
<1>1. Len(s) \in Nat /\ DOMAIN s = 1..Len(s)
  OBVIOUS
<1>2. /\ new \in Seq(Event) /\ Len(new) \in Nat /\ DOMAIN new = 1..Len(new)
      /\ Len(new) <= Len(s)
      /\ \A i \in 1..Len(new) :
            /\ i + (Len(s) - Len(new)) \in 1..Len(s)
            /\ new[i] = s[i + (Len(s) - Len(new))]
  BY <1>1, NewestFacts
<1> HIDE DEF new
<1>3. \A i \in DOMAIN new : new[i] \in Event /\ \E j \in DOMAIN s : s[j] = new[i]
  BY <1>1, <1>2
<1>4. \A i, j \in DOMAIN new : new[i] = new[j] => i = j
  <2> SUFFICES ASSUME NEW i \in DOMAIN new, NEW j \in DOMAIN new, new[i] = new[j]
               PROVE  i = j
    OBVIOUS
  <2> DEFINE n == Len(s) - Len(new)
  <2>1. i + n \in DOMAIN s /\ j + n \in DOMAIN s /\ s[i + n] = s[j + n]
    BY <1>1, <1>2
  <2>2. i + n = j + n
    BY <2>1
  <2>3. QED BY <1>1, <1>2, <2>2
<1>5. CASE UNCHANGED <<file, torn, failed>>
  BY <1>3, <1>5 DEF new
<1>6. CASE Replace(new)
  <2>1. PICK n \in 0..Len(new) :
          /\ file' = SubSeq(new, 1, n)
          /\ torn' \in BOOLEAN
          /\ failed' = failed \cup {new[i] : i \in (n + 1)..Len(new)}
    BY <1>6 DEF Replace
  <2>2. /\ file' \in Seq(Event) /\ DOMAIN file' = 1..n /\ 1..n \subseteq DOMAIN new
        /\ \A i \in 1..n : file'[i] = new[i]
    <3>1. \A i \in 1..n : new[i] \in Event
      BY <1>2
    <3>2. /\ SubSeq(new, 1, n) \in Seq(Event)
          /\ Len(SubSeq(new, 1, n)) = IF 1 <= n THEN n - 1 + 1 ELSE 0
          /\ \A i \in 1..(n - 1 + 1) : SubSeq(new, 1, n)[i] = new[1 + i - 1]
      BY <1>2, <3>1, SubSeqProperties
    <3>3. Len(file') = n /\ file' \in Seq(Event)
      BY <1>2, <2>1, <3>2
    <3>4. \A i \in 1..n : i \in 1..(n - 1 + 1) /\ 1 + i - 1 = i
      OBVIOUS
    <3>5. QED BY <1>2, <2>1, <3>2, <3>3, <3>4
  <2>3. \A i \in DOMAIN new : i \in 1..n \/ i \in (n + 1)..Len(new)
    BY <1>2
  <2>4. \A i \in (n + 1)..Len(new) : i \in DOMAIN new
    BY <1>2
  <2>5. failed' \subseteq Event /\ failed \subseteq failed'
        /\ \A ev \in failed' : ev \in failed \/ \E j \in DOMAIN s : s[j] = ev
    BY <1>3, <2>1, <2>4
  <2>6. \A j \in DOMAIN file' : \E i \in DOMAIN s : s[i] = file'[j]
    BY <1>3, <2>2
  <2>7. \A i, j \in DOMAIN file' : file'[i] = file'[j] => i = j
    BY <1>4, <2>2
  <2>8. \A i \in DOMAIN new :
           new[i] \in failed' \/ \E j \in DOMAIN file' : file'[j] = new[i]
    BY <2>1, <2>2, <2>3
  <2>9. QED BY <2>1, <2>2, <2>5, <2>6, <2>7, <2>8 DEF new
<1>7. QED BY <1>5, <1>6 DEF Rewrite, new

LEMMA ReloadKeepsHistory == HistoryInv /\ Reload => HistoryInv'
<1> SUFFICES ASSUME HistoryInv, Reload PROVE HistoryInv'
  OBVIOUS
<1>0. HistoryTypes /\ Written /\ RingIsBacked
  BY DEF HistoryInv
<1>1. /\ file \in Seq(Event) /\ Len(file) \in Nat /\ DOMAIN file = 1..Len(file)
      /\ file # <<>> => file[Len(file)] \in Event
      /\ failed \subseteq Event /\ torn \in BOOLEAN
  BY <1>0 DEF HistoryTypes
<1> DEFINE new == Newest(file)
<1>2. /\ new \in Seq(Event) /\ Len(new) <= RingMax /\ Len(new) \in Nat
      /\ file # <<>> => new # <<>> /\ new[Len(new)] = file[Len(file)]
      /\ file = <<>> => new = <<>>
  BY <1>1, NewestFacts
<1>3. /\ ring' = new /\ pending' = {} /\ current' = None
      /\ last' = IF file = <<>> THEN None ELSE file[Len(file)]
      /\ UNCHANGED <<fresh, events>>
      /\ Fault /\ Rewrite(file)
  BY DEF Reload
<1>4. /\ file' \in Seq(Event) /\ torn' \in BOOLEAN
      /\ failed' \subseteq Event
      /\ \A j \in DOMAIN file' : \E i \in DOMAIN file : file[i] = file'[j]
      /\ \A i, j \in DOMAIN file' : file'[i] = file'[j] => i = j
      /\ \A i \in DOMAIN new :
            new[i] \in failed' \/ \E j \in DOMAIN file' : file'[j] = new[i]
  BY <1>0, <1>1, <1>3, RewriteFacts DEF RingIsBacked
<1> HIDE DEF new
<1>5. HistoryTypes'
  <2>1. ring' \in Seq(Event) /\ Len(ring') <= RingMax /\ last' \in Event \cup {None}
    BY <1>1, <1>2, <1>3
  <2>2. faults' \in 0..MaxFaults
    BY <1>0, <1>3 DEF HistoryTypes, Fault
  <2>3. QED BY <1>0, <1>3, <1>4, <2>1, <2>2 DEF HistoryTypes
<1>6. LastIsLast' /\ ShowsTheLatest'
  BY <1>2, <1>3 DEF LastIsLast, ShowsTheLatest
<1>7. Written'
  BY <1>0, <1>3, <1>4 DEF Written
<1>8. RingIsBacked'
  BY <1>3, <1>4 DEF RingIsBacked
<1>9. QED BY <1>5, <1>6, <1>7, <1>8 DEF HistoryInv

LEMMA StepKeepsHistory == HistoryInv /\ [HistoryNext]_historyVars => HistoryInv'
<1> SUFFICES ASSUME HistoryInv, [HistoryNext]_historyVars PROVE HistoryInv'
  OBVIOUS
<1>1. ASSUME NEW k \in Key, Report(k) PROVE HistoryInv'
  BY <1>1, ReportKeepsHistory
<1>2. ASSUME NEW ev \in pending, WriteRow(ev) PROVE HistoryInv'
  BY <1>2, WriteKeepsHistory
<1>3. CASE Age
  BY <1>3, AgeKeepsHistory
<1>4. CASE Reload
  BY <1>4, ReloadKeepsHistory
<1>5. CASE UNCHANGED historyVars
  BY <1>5 DEF historyVars, HistoryInv, HistoryTypes, LastIsLast, ShowsTheLatest,
              Written, RingIsBacked
<1>6. QED BY <1>1, <1>2, <1>3, <1>4, <1>5 DEF HistoryNext, LogStep

LEMMA HistoryInvariant == HistorySpec => []HistoryInv
BY InitHistory, StepKeepsHistory, PTL DEF HistorySpec

\* The last row of the history is what was last reported, whatever is left out
\* as a repetition, lost with a process or read from a file out of order.
THEOREM LatestIsShown == HistorySpec => []ShowsTheLatest
<1>1. HistoryInv => ShowsTheLatest
  BY DEF HistoryInv
<1>2. QED BY <1>1, HistoryInvariant, PTL

\* Every row of the history is in the file, on its way or lost by a failed write,
\* and none is there twice.
THEOREM HistoryIsBacked == HistorySpec => []RingIsBacked
<1>1. HistoryInv => RingIsBacked
  BY DEF HistoryInv
<1>2. QED BY <1>1, HistoryInvariant, PTL

-----------------------------------------------------------------------------
(* The reports.                                                              *)

ReportTypes ==
    /\ day \in Day /\ pusher \in [Pusher -> PusherState]
    /\ daily \in [Day -> Stored] /\ compiled \in [Day -> Stored]
    /\ auth \in {"unknown", "ok", "bad"}
    /\ work \in [Goroutine -> Work] /\ \A g \in Goroutine : Coherent(work[g])
    /\ promised \subseteq Day

\* A daily push whose SHA does not fit is refused because there is a report.
Refused ==
    \A g \in Goroutine :
        work[g].phase = "put" /\ work[g].file # Compiled /\ ~work[g].fits =>
            daily[work[g].file] # None

\* A day that a pusher has taken on has its report, or the push of the day is
\* still to come, or has not named its report yet, or is still going on.
Waits(d) == d = day /\ \E p \in Pusher : pusher[p] = "due"
Names(d) ==
    d = day /\ work["daily"].phase = "name" /\ \E p \in Pusher : pusher[p] = "nightly"
Covered(d) ==
    \/ daily[d] # None
    \/ Waits(d)
    \/ Names(d)
    \/ work["daily"].phase \in {"get", "put"} /\ work["daily"].file = d

NoGap == \A d \in promised : Covered(d)

ReportInv == ReportTypes /\ Refused /\ NoGap

\* The kinds of steps, as the invariants see them.
LEMMA Types ==
    /\ Idle \in Work /\ Coherent(Idle) /\ Idle.phase = "idle" /\ Idle.file = Compiled
    /\ Idle.sheet = None
    /\ NoReport \in [Day -> Stored]
    /\ Compiled \notin Day /\ Day \subseteq Nat
    /\ "daily" \in Goroutine /\ "other" \in Goroutine /\ "daily" # "other"
    /\ \A R \in Rows : R \in Stored /\ R # None
<1>1. NoReport \in [Day -> Stored]
  BY DEF NoReport, Stored
<1>2. /\ Idle \in Work /\ Idle.phase = "idle" /\ Idle.file = Compiled
      /\ Idle.sheet = None
  BY <1>1 DEF Idle, Work, Stored
<1>3. Coherent(Idle)
  BY DEF Idle, Coherent
<1>4. \A R \in Rows : R \in Stored /\ R # None
  BY DEF Rows, Stored
<1>5. QED BY <1>1, <1>2, <1>3, <1>4 DEF Compiled, Day, Goroutine

\* One goroutine goes on with w; nothing that is stored changes.
LEMMA BecomeFacts ==
    ASSUME ReportTypes, Refused, NEW g \in Goroutine, NEW w \in Work, Coherent(w),
           Become(g, w), UNCHANGED daily,
           w.phase = "put" /\ w.file # Compiled /\ ~w.fits => daily[w.file] # None
    PROVE  /\ work' \in [Goroutine -> Work] /\ \A x \in Goroutine : Coherent(work'[x])
           /\ Refused'
           /\ work'[g] = w
           /\ \A x \in Goroutine \ {g} : work'[x] = work[x]
<1>1. work \in [Goroutine -> Work] /\ work' = [work EXCEPT ![g] = w]
  BY DEF ReportTypes, Become
<1>2. /\ work' \in [Goroutine -> Work] /\ work'[g] = w
      /\ \A x \in Goroutine \ {g} : work'[x] = work[x]
  BY <1>1
<1>3. \A x \in Goroutine : Coherent(work'[x])
  BY <1>2 DEF ReportTypes
<1>4. Refused'
  BY <1>2 DEF Refused
<1>5. QED BY <1>2, <1>3, <1>4

\* Pushers that only wake up, begin or end their push leave those that are due.
LEMMA WaitsFacts ==
    ASSUME day' = day, NEW g, EndPush(g)
    PROVE  /\ \A d : Waits(d) => Waits(d)'
           /\ g # "daily" => pusher' = pusher
BY DEF EndPush, Waits

LEMMA EndPushTypes ==
    ASSUME NEW g, EndPush(g), pusher \in [Pusher -> PusherState]
    PROVE  pusher' \in [Pusher -> PusherState]
BY DEF EndPush, PusherState

LEMMA FailPushFacts ==
    ASSUME promised \subseteq Day, NEW g, NEW d, FailPush(g, d)
    PROVE  /\ promised' \subseteq promised /\ promised' \subseteq Day
           /\ g = "daily" => d \notin promised'
BY DEF FailPush

LEMMA InitReports == Init => ReportInv
<1> SUFFICES ASSUME Init PROVE ReportInv
  OBVIOUS
<1>1. /\ work = [g \in Goroutine |-> Idle]
      /\ \A g \in Goroutine : work[g] = Idle
  BY DEF Init
<1>2. day \in Day /\ pusher \in [Pusher -> PusherState] /\ promised = {}
  BY DEF Init, Day, PusherState
<1>3. ReportTypes
  BY <1>1, <1>2, Types DEF Init, ReportTypes
<1>4. Refused
  BY <1>1, Types DEF Refused
<1>5. NoGap
  BY <1>2 DEF NoGap
<1>6. QED BY <1>3, <1>4, <1>5 DEF ReportInv

LEMMA BuildFacts ==
    ASSUME HistoryTypes, ReportTypes, Refused, NEW g \in Goroutine, BuildDaily(g)
    PROVE  /\ work[g].phase = "idle"
           /\ work' \in [Goroutine -> Work] /\ \A x \in Goroutine : Coherent(work'[x])
           /\ Refused'
           /\ IF KnownBad THEN work' = work ELSE work'[g].phase = "name"
           /\ \A x \in Goroutine \ {g} : work'[x] = work[x]
<1>0. work[g].phase = "idle" /\ UNCHANGED <<day, daily, compiled, auth>>
  BY DEF BuildDaily
<1>1. CASE KnownBad
  <2>1. UNCHANGED work
    BY <1>1 DEF BuildDaily
  <2>2. Refused'
    BY <1>0, <2>1 DEF Refused
  <2>3. QED BY <1>0, <1>1, <2>1, <2>2 DEF ReportTypes
<1>2. CASE ~KnownBad
  <2> DEFINE R == ElectionSheet
             w == [Idle EXCEPT !.phase = "name", !.sheet = R]
  <2>1. R \in Rows
    BY DEF HistoryTypes, Rows, ElectionSheet
  <2>2. Idle.todo = {} /\ Idle.fits = FALSE
    BY DEF Idle
  <2>3. /\ w \in Work /\ w.phase = "name" /\ w.file = Compiled /\ w.sheet = R
        /\ w.todo = {} /\ w.fits = FALSE
    <3>1. R \in Stored
      BY <2>1, Types
    <3>2. QED BY <2>2, <3>1, Types DEF Work
  <2>4. w.sheet # None
    BY <2>1, <2>3, Types
  <2>5. Become(g, w)
    BY <1>2 DEF BuildDaily
  <2> HIDE DEF w, R
  <2>6. Coherent(w)
    BY <2>3, <2>4 DEF Coherent
  <2>7. QED BY <1>0, <1>2, <2>3, <2>5, <2>6, BecomeFacts
<1>3. QED BY <1>1, <1>2

LEMMA PushOnceKeepsReports ==
    ASSUME HistoryTypes, ReportInv, NEW p \in Pusher, PushOnce(p) PROVE ReportInv'
<1>0. /\ ReportTypes /\ Refused /\ NoGap /\ BuildDaily("daily")
      /\ UNCHANGED <<day, daily, compiled, auth>>
      /\ pusher[p] \in {"soon", "due"}
      /\ promised \subseteq Day
  BY DEF ReportInv, ReportTypes, PushOnce, BuildDaily
<1>1. /\ work["daily"].phase = "idle"
      /\ work' \in [Goroutine -> Work] /\ \A x \in Goroutine : Coherent(work'[x])
      /\ Refused'
      /\ IF KnownBad THEN work' = work ELSE work'["daily"].phase = "name"
  BY <1>0, BuildFacts, Types
<1>2. pusher' \in [Pusher -> PusherState]
  BY <1>0 DEF PushOnce, Set, ReportTypes, PusherState
<1>3. /\ promised' \subseteq promised
      /\ KnownBad => day \notin promised'
  BY <1>0, FailPushFacts DEF PushOnce
<1>4. ReportTypes'
  BY <1>0, <1>1, <1>2, <1>3 DEF ReportTypes
<1>5. NoGap'
  <2> SUFFICES ASSUME NEW d \in promised' PROVE Covered(d)'
    BY DEF NoGap
  <2>1. Covered(d)
    BY <1>3 DEF NoGap, ReportInv
  <2>2. daily[d] # None \/ Waits(d)
    BY <1>1, <2>1 DEF Covered, Names
  <2>3. CASE daily[d] # None
    BY <1>0, <2>3 DEF Covered
  <2>4. CASE Waits(d)
    <3>1. d = day /\ ~KnownBad
      BY <1>3, <2>4 DEF Waits
    <3>2. pusher' = [pusher EXCEPT ![p] = IF pusher[p] = "soon" THEN "first" ELSE "nightly"]
      BY <3>1 DEF PushOnce, Set
    <3>3. PICK q \in Pusher : pusher[q] = "due"
      BY <2>4 DEF Waits
    <3>4. CASE q = p
      <4>1. pusher'[p] = "nightly" /\ work'["daily"].phase = "name" /\ day' = day
        BY <1>0, <1>1, <3>1, <3>2, <3>3, <3>4 DEF ReportTypes
      <4>2. QED BY <3>1, <4>1 DEF Covered, Names
    <3>5. CASE q # p
      <4>1. pusher'[q] = "due" /\ day' = day
        BY <1>0, <3>2, <3>3, <3>5 DEF ReportTypes
      <4>2. QED BY <3>1, <4>1 DEF Covered, Waits
    <3>6. QED BY <3>4, <3>5
  <2>5. QED BY <2>2, <2>3, <2>4
<1>6. QED BY <1>1, <1>4, <1>5 DEF ReportInv

LEMMA RequestKeepsReports == HistoryTypes /\ ReportInv /\ RequestPush => ReportInv'
<1> SUFFICES ASSUME HistoryTypes, ReportTypes, Refused, NoGap, RequestPush
             PROVE  ReportInv'
  BY DEF ReportInv
<1>1. /\ BuildDaily("other") /\ UNCHANGED <<pusher, promised>>
      /\ UNCHANGED <<day, daily, compiled, auth>>
  BY DEF RequestPush, BuildDaily, ReportTypes
<1>2. /\ work' \in [Goroutine -> Work] /\ \A x \in Goroutine : Coherent(work'[x])
      /\ Refused' /\ work'["daily"] = work["daily"]
  BY <1>1, BuildFacts, Types
<1>3. ReportTypes'
  BY <1>1, <1>2 DEF ReportTypes
<1>4. NoGap'
  BY <1>1, <1>2 DEF NoGap, Covered, Waits, Names
<1>5. QED BY <1>2, <1>3, <1>4 DEF ReportInv

LEMMA NameKeepsReports ==
    ASSUME ReportInv, NEW g \in Goroutine, NameReport(g) PROVE ReportInv'
<1> DEFINE w == work[g]
           n == [w EXCEPT !.phase = "get", !.sheet = None,
                          !.file = day, !.rows[day] = w.sheet]
<1>0. /\ ReportTypes /\ Refused /\ NoGap
      /\ UNCHANGED <<day, pusher, daily, compiled, auth>>
      /\ w.phase = "name" /\ w \in Work /\ Coherent(w) /\ day \in Day
      /\ Become(g, n)
      /\ promised' = IF g = "daily" THEN promised \cup {day} ELSE promised
  BY DEF ReportInv, NameReport, ReportTypes
<1>1. w.sheet \in Stored /\ w.sheet # None /\ w.todo = {} /\ w.fits = FALSE
  BY <1>0 DEF Coherent, Work
<1>2. /\ n \in Work /\ n.phase = "get" /\ n.file = day /\ n.rows[day] = w.sheet
      /\ n.sheet = None /\ n.todo = {} /\ n.fits = FALSE
  <2>1. None \in Stored
    BY DEF Stored
  <2>2. QED BY <1>0, <1>1, <2>1 DEF Work
<1> HIDE DEF n
<1>3. Coherent(n)
  BY <1>0, <1>1, <1>2, Types DEF Coherent
<1>4. /\ work' \in [Goroutine -> Work] /\ \A x \in Goroutine : Coherent(work'[x])
      /\ Refused' /\ work'[g] = n /\ \A x \in Goroutine \ {g} : work'[x] = work[x]
  BY <1>0, <1>2, <1>3, BecomeFacts
<1>5. ReportTypes'
  BY <1>0, <1>4 DEF ReportTypes
<1>6. NoGap'
  <2>1. CASE g = "daily"
    <3>1. work'["daily"].phase = "get" /\ work'["daily"].file = day'
      BY <1>0, <1>2, <1>4, <2>1
    <3>2. \A d \in promised : Covered(d) => Covered(d)'
      BY <1>0, <2>1, <3>1 DEF Covered, Waits, Names
    <3>3. Covered(day)'
      BY <1>0, <3>1 DEF Covered
    <3>4. QED BY <1>0, <3>2, <3>3 DEF NoGap
  <2>2. CASE g # "daily"
    <3>1. work'["daily"] = work["daily"]
      BY <1>4, <2>2, Types
    <3>2. QED BY <1>0, <2>2, <3>1 DEF NoGap, Covered, Waits, Names
  <2>3. QED BY <2>1, <2>2
<1>7. QED BY <1>4, <1>5, <1>6 DEF ReportInv

LEMMA ListKeepsReports ==
    ASSUME ReportInv, NEW g \in Goroutine,
           List(g) \/ (g = "other" /\ StartCompiled)
    PROVE  ReportInv'
<1>0. /\ ReportTypes /\ Refused /\ NoGap
      /\ UNCHANGED <<day, pusher, daily, compiled, auth, promised>>
      /\ work[g].phase \in {"idle", "list"}
  BY DEF ReportInv, List, StartCompiled
<1> DEFINE Listed == [Idle EXCEPT !.phase = "get", !.todo = {d \in Day : daily[d] # None}]
           Begun == [Idle EXCEPT !.phase = "list"]
<1>1. \E w \in {Idle, Listed, Begun} : Become(g, w)
  BY DEF List, StartCompiled
<1>2. /\ Listed \in Work /\ Coherent(Listed) /\ Listed.phase = "get"
      /\ Begun \in Work /\ Coherent(Begun) /\ Begun.phase = "list"
  <2>1. /\ Idle.file = Compiled /\ Idle.fits = FALSE /\ Idle.todo = {}
        /\ {d \in Day : daily[d] # None} \in SUBSET Day
    BY DEF Idle
  <2>2. /\ Listed \in Work /\ Listed.phase = "get" /\ Listed.file = Compiled
        /\ Listed.fits = FALSE
        /\ Begun \in Work /\ Begun.phase = "list" /\ Begun.file = Compiled
        /\ Begun.fits = FALSE /\ Begun.todo = {}
        /\ Listed.sheet = None /\ Begun.sheet = None
    BY <2>1, Types DEF Work
  <2> HIDE DEF Listed, Begun
  <2>3. Coherent(Listed) /\ Coherent(Begun)
    BY <2>2 DEF Coherent
  <2>4. QED BY <2>2, <2>3
<1> HIDE DEF Listed, Begun
<1>3. PICK w \in {Idle, Listed, Begun} : Become(g, w)
  BY <1>1
<1>4. /\ w \in Work /\ Coherent(w) /\ w.phase # "put"
  BY <1>2, <1>3, Types
<1>5. /\ work' \in [Goroutine -> Work] /\ \A x \in Goroutine : Coherent(work'[x])
      /\ Refused' /\ \A x \in Goroutine \ {g} : work'[x] = work[x]
  BY <1>0, <1>3, <1>4, BecomeFacts
<1>6. ReportTypes'
  BY <1>0, <1>5 DEF ReportTypes
<1>7. ASSUME NEW d \in promised, Covered(d) PROVE Covered(d)'
  <2>1. CASE g = "daily"
    BY <1>0, <1>7, <2>1 DEF Covered, Waits, Names
  <2>2. CASE g # "daily"
    BY <1>0, <1>5, <1>7, <2>2, Types DEF Covered, Waits, Names
  <2>3. QED BY <2>1, <2>2
<1>8. NoGap'
  BY <1>0, <1>7 DEF NoGap
<1>9. QED BY <1>5, <1>6, <1>8 DEF ReportInv

LEMMA DownloadKeepsReports ==
    ASSUME ReportInv, NEW g \in Goroutine, Download(g) PROVE ReportInv'
<1>0. /\ ReportTypes /\ Refused /\ NoGap
      /\ UNCHANGED <<day, pusher, daily, compiled, auth, promised>>
      /\ work[g].todo # {}
  BY DEF ReportInv, Download
<1>1. /\ work \in [Goroutine -> Work] /\ work[g] \in Work /\ Coherent(work[g])
      /\ work[g].phase = "get" /\ work[g].file = Compiled /\ work[g].fits = FALSE
      /\ work[g].sheet = None /\ daily \in [Day -> Stored]
  BY <1>0 DEF ReportTypes, Coherent, Work
<1>2. PICK d \in work[g].todo :
        \/ work' = [work EXCEPT ![g].todo = @ \ {d}, ![g].rows[d] = daily[d]]
        \/ work' = [work EXCEPT ![g].todo = @ \ {d}]
  BY DEF Download
<1>3. PICK w \in Work :
        /\ work' = [work EXCEPT ![g] = w]
        /\ w.phase = "get" /\ w.file = Compiled /\ w.fits = FALSE /\ w.sheet = None
  <2>1. CASE work' = [work EXCEPT ![g].todo = @ \ {d}, ![g].rows[d] = daily[d]]
    <3> DEFINE w == [work[g] EXCEPT !.todo = @ \ {d}, !.rows[d] = daily[d]]
    <3>1. d \in Day /\ work[g].rows \in [Day -> Stored]
      BY <1>1, <1>2 DEF Work
    <3>2. w \in Work /\ w.phase = "get" /\ w.file = Compiled /\ w.fits = FALSE
          /\ w.sheet = None
      BY <1>1, <3>1 DEF Work
    <3>3. work' = [work EXCEPT ![g] = w]
      BY <1>1, <2>1
    <3>4. QED BY <3>2, <3>3
  <2>2. CASE work' = [work EXCEPT ![g].todo = @ \ {d}]
    <3> DEFINE w == [work[g] EXCEPT !.todo = @ \ {d}]
    <3>1. w \in Work /\ w.phase = "get" /\ w.file = Compiled /\ w.fits = FALSE
          /\ w.sheet = None
      BY <1>1 DEF Work
    <3>2. work' = [work EXCEPT ![g] = w]
      BY <1>1, <2>2
    <3>3. QED BY <3>1, <3>2
  <2>3. QED BY <1>2, <2>1, <2>2
<1>4. Coherent(w) /\ Become(g, w)
  BY <1>3 DEF Coherent, Become
<1>5. /\ work' \in [Goroutine -> Work] /\ \A x \in Goroutine : Coherent(work'[x])
      /\ Refused' /\ work'[g] = w /\ \A x \in Goroutine \ {g} : work'[x] = work[x]
  BY <1>0, <1>3, <1>4, BecomeFacts
<1>6. ReportTypes'
  BY <1>0, <1>5 DEF ReportTypes
<1>7. \A e \in Day : Covered(e) => Covered(e)'
  BY <1>0, <1>1, <1>3, <1>5, Types DEF Covered, Waits, Names
<1>8. NoGap'
  BY <1>0, <1>7 DEF NoGap, ReportTypes
<1>9. QED BY <1>5, <1>6, <1>8 DEF ReportInv

LEMMA GetShaKeepsReports ==
    ASSUME ReportInv, NEW g \in Goroutine, GetSha(g) PROVE ReportInv'
<1> DEFINE w == work[g]
<1>0. /\ ReportTypes /\ Refused /\ NoGap
      /\ UNCHANGED <<day, daily, compiled>>
      /\ w.phase = "get" /\ w.todo = {}
      /\ w \in Work /\ Coherent(w)
  BY DEF ReportInv, GetSha, ReportTypes
<1>1. ASSUME NEW n \in Work, n.phase = "put", n.file = w.file, n.todo = {}, n.rows = w.rows, n.sheet = None,
             n.file # Compiled /\ ~n.fits => daily[n.file] # None,
             Become(g, n), UNCHANGED <<auth, pusher, promised>>
      PROVE  ReportInv'
  <2>1. Coherent(n)
    BY <1>0, <1>1 DEF Coherent
  <2>2. /\ work' \in [Goroutine -> Work] /\ \A x \in Goroutine : Coherent(work'[x])
        /\ Refused' /\ work'[g] = n /\ \A x \in Goroutine \ {g} : work'[x] = work[x]
    BY <1>0, <1>1, <2>1, BecomeFacts
  <2>3. ReportTypes'
    BY <1>0, <1>1, <2>2 DEF ReportTypes
  <2>4. \A d \in Day : Covered(d) => Covered(d)'
    BY <1>0, <1>1, <2>2, Types DEF Covered, Waits, Names
  <2>5. NoGap'
    BY <1>0, <1>1, <2>4 DEF NoGap, ReportTypes
  <2>6. QED BY <2>2, <2>3, <2>5 DEF ReportInv
<1>2. ASSUME NEW b \in BOOLEAN, Become(g, [w EXCEPT !.phase = "put", !.fits = b]),
             b \/ b = Absent(w.file), UNCHANGED <<auth, pusher, promised>>
      PROVE  ReportInv'
  <2> DEFINE n == [w EXCEPT !.phase = "put", !.fits = b]
  <2>1. /\ n \in Work /\ n.phase = "put" /\ n.file = w.file /\ n.todo = {}
        /\ n.rows = w.rows /\ n.sheet = None /\ n.fits = b
    BY <1>0 DEF Work, Coherent
  <2>2. w.file # Compiled /\ ~b => daily[w.file] # None
    BY <1>2 DEF Absent
  <2> HIDE DEF n
  <2>3. QED BY <1>1, <1>2, <2>1, <2>2 DEF n
<1>3. CASE Become(g, Idle) /\ EndPush(g) /\ FailPush(g, w.file) /\ auth' \in {auth, "bad"}
  <2>1. /\ work' \in [Goroutine -> Work] /\ \A x \in Goroutine : Coherent(work'[x])
        /\ Refused' /\ work'[g] = Idle
        /\ \A x \in Goroutine \ {g} : work'[x] = work[x]
    BY <1>0, <1>3, Types, BecomeFacts
  <2>2. /\ promised' \subseteq promised /\ promised' \subseteq Day
        /\ g = "daily" => w.file \notin promised'
        /\ pusher' \in [Pusher -> PusherState]
    BY <1>0, <1>3, FailPushFacts, EndPushTypes DEF ReportTypes
  <2>3. ReportTypes'
    BY <1>0, <1>3, <2>1, <2>2 DEF ReportTypes
  <2>4. \A d \in promised' : Covered(d) => Covered(d)'
    <3>1. (\A d : Waits(d) => Waits(d)') /\ (g # "daily" => pusher' = pusher)
      BY <1>0, <1>3, WaitsFacts
    <3>2. CASE g = "daily"
      BY <1>0, <2>2, <3>1, <3>2 DEF Covered, Names
    <3>3. CASE g # "daily"
      <4>1. work'["daily"] = work["daily"]
        BY <2>1, <3>3, Types
      <4>2. QED BY <1>0, <3>1, <3>3, <4>1 DEF Covered, Names
    <3>4. QED BY <3>2, <3>3
  <2>5. NoGap'
    BY <1>0, <2>2, <2>4 DEF NoGap
  <2>6. QED BY <2>1, <2>3, <2>5 DEF ReportInv
<1>4. Absent(w.file) \in BOOLEAN
  BY DEF Absent
<1>5. QED BY <1>2, <1>3, <1>4 DEF GetSha, AuthFails

\* What storing the report of g does to the other goroutine.
LEMMA StoreFacts ==
    ASSUME ReportTypes, Refused, NEW g \in Goroutine, work[g].phase = "put",
           NEW next \in Work, Coherent(next), next.phase # "put",
           Store(g, work[g], next)
    PROVE  /\ work' \in [Goroutine -> Work] /\ \A x \in Goroutine : Coherent(work'[x])
           /\ Refused' /\ work'[g] = next
           /\ \A x \in Goroutine \ {g} :
                 work'[x].phase = work[x].phase /\ work'[x].file = work[x].file
           /\ daily' \in [Day -> Stored] /\ compiled' \in [Day -> Stored]
           /\ \A d \in Day : daily[d] # None => daily'[d] # None
           /\ work[g].file # Compiled => daily'[work[g].file] # None
<1> DEFINE w == work[g]
<1>1. /\ work \in [Goroutine -> Work] /\ w \in Work /\ Coherent(w)
      /\ daily \in [Day -> Stored] /\ compiled \in [Day -> Stored]
  BY DEF ReportTypes
<1>2. w.rows \in [Day -> Stored] /\ w.file \in Day \cup {Compiled}
  BY <1>1 DEF Work
<1>3. /\ daily' \in [Day -> Stored] /\ compiled' \in [Day -> Stored]
      /\ \A d \in Day : daily[d] # None => daily'[d] # None
      /\ w.file # Compiled => daily'[w.file] # None
      /\ \A d \in Day : d # w.file => daily'[d] = daily[d]
  <2>1. CASE w.file = Compiled
    BY <1>1, <1>2, <2>1 DEF Store
  <2>2. CASE w.file # Compiled
    <3>1. w.file \in Day /\ w.rows[w.file] # None /\ w.rows[w.file] \in Stored
      BY <1>1, <1>2, <2>2 DEF Coherent
    <3>2. daily' = [daily EXCEPT ![w.file] = w.rows[w.file]] /\ UNCHANGED compiled
      BY <2>2 DEF Store
    <3>3. QED BY <1>1, <3>1, <3>2
  <2>3. QED BY <2>1, <2>2
<1>4. \A x \in Goroutine :
         work'[x] = IF x = g THEN next
                    ELSE [work[x] EXCEPT !.fits = @ /\ work[x].file # w.file]
  BY DEF Store
<1>5. ASSUME NEW x \in Goroutine \ {g}
      PROVE  /\ work'[x] \in Work /\ Coherent(work'[x])
             /\ work'[x].phase = work[x].phase /\ work'[x].file = work[x].file
             /\ work'[x].fits = (work[x].fits /\ work[x].file # w.file)
  <2>1. work[x] \in Work /\ Coherent(work[x])
    BY <1>1 DEF ReportTypes
  <2> DEFINE b == work[x].fits /\ work[x].file # w.file
             n == [work[x] EXCEPT !.fits = b]
  <2>2. b \in BOOLEAN /\ (b => work[x].fits)
    BY <2>1 DEF Work
  <2> HIDE DEF b
  <2>3. /\ n \in Work /\ n.phase = work[x].phase /\ n.file = work[x].file
        /\ n.rows = work[x].rows /\ n.todo = work[x].todo /\ n.fits = b
        /\ n.sheet = work[x].sheet
    BY <2>1, <2>2 DEF Work
  <2>4. work'[x] = n
    BY <1>4, <1>5, <2>1 DEF b, Work
  <2> HIDE DEF n
  <2>5. Coherent(n)
    BY <2>1, <2>2, <2>3 DEF Coherent
  <2>6. QED BY <2>3, <2>4, <2>5 DEF b
<1>6. work'[g] = next
  BY <1>4
<1>7. work' \in [Goroutine -> Work] /\ \A x \in Goroutine : Coherent(work'[x])
  <2>1. work' = [x \in Goroutine |-> work'[x]]
    BY DEF Store
  <2>2. \A x \in Goroutine : work'[x] \in Work /\ Coherent(work'[x])
    BY <1>5, <1>6
  <2>3. QED BY <2>1, <2>2
<1>8. Refused'
  <2> SUFFICES ASSUME NEW x \in Goroutine, work'[x].phase = "put",
                      work'[x].file # Compiled, ~work'[x].fits
               PROVE  daily'[work'[x].file] # None
    BY DEF Refused
  <2>1. x \in Goroutine \ {g}
    BY <1>6
  <2>2. work[x].phase = "put" /\ work'[x].file = work[x].file
        /\ (~work[x].fits \/ work[x].file = w.file)
    BY <1>5, <2>1
  <2>3. work[x].file \in Day
    BY <1>1, <2>2, Types DEF Work
  <2>4. QED BY <1>3, <2>2, <2>3 DEF Refused
<1>9. QED BY <1>3, <1>5, <1>6, <1>7, <1>8

LEMMA PutKeepsReports ==
    ASSUME ReportInv, NEW g \in Goroutine, Put(g) PROVE ReportInv'
<1> DEFINE w == work[g]
<1>0. /\ ReportTypes /\ Refused /\ NoGap
      /\ UNCHANGED day /\ EndPush(g)
      /\ w.phase = "put" /\ w \in Work /\ Coherent(w)
  BY DEF ReportInv, Put, ReportTypes
<1>1. /\ AfterPush(g, w) \in Work /\ Coherent(AfterPush(g, w))
      /\ AfterPush(g, w).phase # "put"
  <2> DEFINE Begun == [Idle EXCEPT !.phase = "list"]
  <2>1. /\ Begun \in Work /\ Begun.phase = "list" /\ Begun.file = Compiled
        /\ Begun.fits = FALSE /\ Begun.todo = {}
    <3>1. Idle.file = Compiled /\ Idle.fits = FALSE /\ Idle.todo = {}
      BY DEF Idle
    <3>2. QED BY <3>1, Types DEF Work
  <2>5. Begun.sheet = None
    BY <2>1, Types DEF Work
  <2> HIDE DEF Begun
  <2>2. Coherent(Begun)
    BY <2>1, <2>5 DEF Coherent
  <2>3. AfterPush(g, w) \in {Begun, Idle}
    BY DEF AfterPush, Begun
  <2>4. QED BY <2>1, <2>2, <2>3, Types
<1>2. /\ pusher' \in [Pusher -> PusherState] /\ promised \subseteq Day
      /\ auth \in {"unknown", "ok", "bad"} /\ w.file \in Day \cup {Compiled}
      /\ \A d : Waits(d) => Waits(d)'
      /\ g # "daily" => pusher' = pusher
  BY <1>0, EndPushTypes, WaitsFacts DEF ReportTypes, Work
<1>3. ASSUME NEW next \in Work, Coherent(next), next.phase # "put", Store(g, w, next),
             promised' \subseteq promised, auth' \in {"unknown", "ok", "bad"}
      PROVE  ReportInv'
  <2>1. /\ work' \in [Goroutine -> Work] /\ \A x \in Goroutine : Coherent(work'[x])
        /\ Refused'
        /\ \A x \in Goroutine \ {g} :
              work'[x].phase = work[x].phase /\ work'[x].file = work[x].file
        /\ daily' \in [Day -> Stored] /\ compiled' \in [Day -> Stored]
        /\ \A d \in Day : daily[d] # None => daily'[d] # None
        /\ w.file # Compiled => daily'[w.file] # None
    BY <1>0, <1>3, StoreFacts
  <2>2. ReportTypes'
    BY <1>0, <1>2, <1>3, <2>1 DEF ReportTypes
  <2>3. ASSUME NEW d \in Day, Covered(d) PROVE Covered(d)'
    <3>1. CASE g = "daily"
      BY <1>0, <1>2, <2>1, <2>3, <3>1, Types DEF Covered, Names
    <3>2. CASE g # "daily"
      <4>1. /\ work'["daily"].phase = work["daily"].phase
            /\ work'["daily"].file = work["daily"].file
            /\ pusher' = pusher /\ day' = day
        BY <1>0, <1>2, <2>1, <3>2, Types
      <4>2. QED BY <1>2, <2>1, <2>3, <4>1 DEF Covered, Names
    <3>3. QED BY <3>1, <3>2
  <2>4. NoGap'
    BY <1>0, <1>2, <1>3, <2>3 DEF NoGap
  <2>5. QED BY <2>1, <2>2, <2>4 DEF ReportInv
<1>4. ASSUME Become(g, Idle), UNCHANGED <<daily, compiled>>,
             auth' \in {"unknown", "ok", "bad"}, promised' \subseteq promised,
             g = "daily" /\ w.file \in promised' => daily[w.file] # None
      PROVE  ReportInv'
  <2>1. /\ work' \in [Goroutine -> Work] /\ \A x \in Goroutine : Coherent(work'[x])
        /\ Refused' /\ work'[g] = Idle
        /\ \A x \in Goroutine \ {g} : work'[x] = work[x]
    BY <1>0, <1>4, Types, BecomeFacts
  <2>2. ReportTypes'
    BY <1>0, <1>2, <1>4, <2>1 DEF ReportTypes
  <2>3. ASSUME NEW d \in promised', Covered(d) PROVE Covered(d)'
    <3>1. CASE g = "daily"
      BY <1>0, <1>2, <1>4, <2>3, <3>1 DEF Covered, Names
    <3>2. CASE g # "daily"
      <4>1. work'["daily"] = work["daily"]
        BY <2>1, <3>2, Types
      <4>2. QED BY <1>0, <1>2, <1>4, <2>3, <3>2, <4>1 DEF Covered, Names
    <3>3. QED BY <3>1, <3>2
  <2>4. NoGap'
    BY <1>0, <1>4, <2>3 DEF NoGap
  <2>5. QED BY <2>1, <2>2, <2>4 DEF ReportInv
<1>5. FailPush(g, w.file) =>
         /\ promised' \subseteq promised
         /\ g = "daily" => w.file \notin promised'
  BY <1>2, FailPushFacts
<1>6. CASE Store(g, w, AfterPush(g, w)) /\ auth' = "ok" /\ UNCHANGED promised
  BY <1>1, <1>3, <1>6
<1>7. CASE ~w.fits /\ Become(g, Idle) /\ UNCHANGED <<daily, compiled, auth, promised>>
  <2>1. w.file \in Day => daily[w.file] # None
    BY <1>0, <1>7, Types DEF Refused
  <2>2. QED BY <1>2, <1>4, <1>7, <2>1
<1>8. CASE FailPush(g, w.file) /\ Store(g, w, Idle) /\ UNCHANGED auth
  BY <1>2, <1>3, <1>5, <1>8, Types
<1>9. CASE FailPush(g, w.file) /\ Become(g, Idle) /\ UNCHANGED <<daily, compiled>>
           /\ auth' \in {auth, "bad"}
  BY <1>2, <1>4, <1>5, <1>9
<1>10. QED BY <1>6, <1>7, <1>8, <1>9 DEF Put, AuthFails

LEMMA SurroundingsKeepReports ==
    ASSUME ReportInv, NextDay \/ (\E p \in Pusher : ServerRuns(p)) \/ TokenChecked \/ Restart
    PROVE  ReportInv'
<1>0. ReportTypes /\ Refused /\ NoGap
  BY DEF ReportInv
<1>1. CASE NextDay
  <2>1. /\ day < MaxDays /\ day' = day + 1 /\ day \in Day
        /\ \A p \in Pusher : pusher[p] # "due" /\ pusher[p] # "nightly"
        /\ pusher' = [p \in Pusher |-> IF pusher[p] = "waiting" THEN "due" ELSE pusher[p]]
        /\ promised' \in {promised, promised \cup {day + 1}}
        /\ day + 1 \in promised' \ promised => \E p \in Pusher : pusher[p] = "waiting"
        /\ UNCHANGED <<daily, compiled, auth, work>>
    BY <1>0, <1>1 DEF NextDay, ReportTypes
  <2>2. day + 1 \in Day
    BY <2>1 DEF Day
  <2>3. pusher' \in [Pusher -> PusherState]
    BY <1>0, <2>1 DEF ReportTypes, PusherState
  <2>4. ReportTypes'
    BY <1>0, <2>1, <2>2, <2>3 DEF ReportTypes
  <2>5. Refused'
    BY <1>0, <2>1 DEF Refused
  <2>6. NoGap'
    <3> SUFFICES ASSUME NEW d \in promised' PROVE Covered(d)'
      BY DEF NoGap
    <3>1. CASE d \notin promised
      <4>1. d = day' /\ \E p \in Pusher : pusher[p] = "waiting"
        BY <2>1, <3>1
      <4>2. \E p \in Pusher : pusher'[p] = "due"
        BY <2>1, <4>1
      <4>3. QED BY <4>1, <4>2 DEF Covered, Waits, Names
    <3>2. CASE d \in promised
      <4>1. Covered(d) /\ ~Waits(d) /\ ~Names(d)
        BY <1>0, <2>1, <3>2 DEF NoGap, Waits, Names
      <4>2. QED BY <2>1, <4>1 DEF Covered
    <3>3. QED BY <3>1, <3>2
  <2>7. QED BY <2>4, <2>5, <2>6 DEF ReportInv
<1>2. ASSUME NEW p \in Pusher, ServerRuns(p) PROVE ReportInv'
  <2>1. /\ pusher[p] = "off" /\ pusher' = [pusher EXCEPT ![p] = "soon"]
        /\ UNCHANGED <<day, daily, compiled, auth, work, promised>>
    BY <1>2 DEF ServerRuns, Set
  <2>2. ReportTypes'
    BY <1>0, <2>1 DEF ReportTypes, PusherState
  <2>3. Refused'
    BY <1>0, <2>1 DEF Refused
  <2>4. \A d : Waits(d) => Waits(d)'
    BY <1>0, <2>1 DEF Waits, ReportTypes
  <2>5. NoGap'
    <3>1. \A d : Names(d) => Names(d)'
      BY <1>0, <2>1 DEF Names, ReportTypes
    <3>2. QED BY <1>0, <2>1, <2>4, <3>1 DEF NoGap, Covered
  <2>6. QED BY <2>2, <2>3, <2>5 DEF ReportInv
<1>3. CASE TokenChecked
  <2>1. /\ auth' \in {"unknown", "ok", "bad"}
        /\ UNCHANGED <<day, pusher, daily, compiled, work, promised>>
    BY <1>3 DEF TokenChecked
  <2>2. QED BY <1>0, <2>1 DEF ReportInv, ReportTypes, Refused, NoGap, Covered, Waits, Names
<1>4. CASE Restart
  <2>1. /\ work' = [x \in Goroutine |-> Idle] /\ auth' = "unknown"
        /\ pusher' = [p \in Pusher |-> "off"]
        /\ promised' = {d \in promised : daily[d] # None}
        /\ UNCHANGED <<day, daily, compiled>>
    BY <1>4 DEF Restart
  <2>2. ReportTypes'
    BY <1>0, <2>1, Types DEF ReportTypes, PusherState
  <2>3. Refused'
    BY <2>1, Types DEF Refused
  <2>4. NoGap'
    BY <2>1 DEF NoGap, Covered
  <2>5. QED BY <2>2, <2>3, <2>4 DEF ReportInv
<1>5. QED BY <1>1, <1>2, <1>3, <1>4

-----------------------------------------------------------------------------
(* History and reports together.                                             *)

SystemInv == HistoryInv /\ ReportInv

\* The steps of the reports change nothing of the history but count a fault.
LEMMA OtherKeepsHistory ==
    ASSUME HistoryInv, LogUnchanged, faults' \in {faults, faults + 1},
           faults' <= MaxFaults
    PROVE  HistoryInv'
<1>1. HistoryTypes'
  BY DEF HistoryInv, HistoryTypes, LogUnchanged
<1>2. LastIsLast' /\ ShowsTheLatest' /\ Written' /\ RingIsBacked'
  BY DEF HistoryInv, LastIsLast, ShowsTheLatest, Written, RingIsBacked, LogUnchanged
<1>3. QED BY <1>1, <1>2 DEF HistoryInv

LEMMA StepKeepsSystem == SystemInv /\ [Next]_vars => SystemInv'
<1> SUFFICES ASSUME HistoryInv, ReportInv, [Next]_vars PROVE SystemInv'
  BY DEF SystemInv
<1>0. HistoryTypes /\ faults \in 0..MaxFaults
  BY DEF HistoryInv, HistoryTypes
<1>1. CASE LogStep /\ UNCHANGED reportVars
  <2>1. HistoryInv'
    BY <1>1, StepKeepsHistory DEF HistoryNext
  <2>2. ReportInv'
    BY <1>1 DEF reportVars, ReportInv, ReportTypes, Refused, NoGap, Covered, Waits, Names
  <2>3. QED BY <2>1, <2>2 DEF SystemInv
<1>2. CASE RequestPush \/ \E p \in Pusher : PushOnce(p)
  <2>1. LogUnchanged /\ faults' \in {faults, faults + 1} /\ faults' <= MaxFaults
    BY <1>0, <1>2 DEF PushOnce, RequestPush, BuildDaily, Fault, NoFault
  <2>2. ReportInv'
    BY <1>0, <1>2, PushOnceKeepsReports, RequestKeepsReports
  <2>3. QED BY <1>0, <2>1, <2>2, OtherKeepsHistory DEF SystemInv
<1>3. CASE StartCompiled
  <2>1. LogUnchanged /\ faults' = faults
    BY <1>3 DEF StartCompiled, NoFault
  <2>2. QED BY <1>0, <1>3, <2>1, OtherKeepsHistory, ListKeepsReports, Types DEF SystemInv
<1>4. ASSUME NEW g \in Goroutine, Push(g) PROVE SystemInv'
  <2>1. LogUnchanged /\ faults' \in {faults, faults + 1} /\ faults' <= MaxFaults
    <3>1. CASE List(g)
      BY <1>0, <3>1 DEF List, Fault, NoFault
    <3>2. CASE Download(g)
      BY <1>0, <3>2 DEF Download, Fault, NoFault
    <3>3. CASE GetSha(g)
      BY <1>0, <3>3 DEF GetSha, Fault, NoFault
    <3>4. CASE Put(g)
      BY <1>0, <3>4 DEF Put, Fault, NoFault
    <3>5. CASE NameReport(g)
      BY <1>0, <3>5 DEF NameReport, Fault, NoFault
    <3>6. QED BY <1>4, <3>1, <3>2, <3>3, <3>4, <3>5 DEF Push
  <2>2. ReportInv'
    BY <1>4, NameKeepsReports, ListKeepsReports, DownloadKeepsReports, GetShaKeepsReports, PutKeepsReports
       DEF Push
  <2>3. QED BY <2>1, <2>2, OtherKeepsHistory DEF SystemInv
<1>5. CASE NextDay \/ TokenChecked \/ \E p \in Pusher : ServerRuns(p)
  <2>1. LogUnchanged /\ faults' = faults
    BY <1>5 DEF NextDay, ServerRuns, TokenChecked, NoFault
  <2>2. QED BY <1>0, <1>5, <2>1, OtherKeepsHistory, SurroundingsKeepReports DEF SystemInv
<1>6. CASE Restart
  <2>1. HistoryInv'
    BY <1>6, ReloadKeepsHistory DEF Restart
  <2>2. QED BY <1>6, <2>1, SurroundingsKeepReports DEF SystemInv
<1>7. CASE UNCHANGED vars
  BY <1>7 DEF vars, historyVars, reportVars, SystemInv, HistoryInv, HistoryTypes,
              LastIsLast, ShowsTheLatest, Written, RingIsBacked, ReportInv,
              ReportTypes, Refused, NoGap, Covered, Waits, Names
<1>8. QED BY <1>1, <1>2, <1>3, <1>4, <1>5, <1>6, <1>7 DEF Next

LEMMA SystemInvariant == Spec => []SystemInv
<1>1. Init => SystemInv
  BY InitHistory, InitReports DEF Init, SystemInv
<1>2. QED BY <1>1, StepKeepsSystem, PTL DEF Spec

\* The history and the pushes are well typed, and a push only sends a SHA, or
\* downloads, or has a report, at the stage at which it may.
THEOREM TypeCorrect == Spec => []TypeOK
<1>1. SystemInv => TypeOK
  BY DEF SystemInv, HistoryInv, ReportInv, ReportTypes, TypeOK
<1>2. QED BY <1>1, SystemInvariant, PTL

\* A day that a daily pusher has taken on gets its report unless a push for it
\* fails or the process ends, however many pushers and requests there are and
\* whichever pushes run over midnight.
THEOREM NoDayIsMissed == Spec => []MissedOnlyByFailure
<1>1. SystemInv => MissedOnlyByFailure
  BY DEF SystemInv, ReportInv, NoGap, Covered, Waits, Names, MissedOnlyByFailure
<1>2. QED BY <1>1, SystemInvariant, PTL

\* The pushes, which only read the history, and the restarts that interrupt
\* them leave it as it should be.
THEOREM HistoryUnderReports == Spec => [](ShowsTheLatest /\ RingIsBacked)
<1>1. SystemInv => ShowsTheLatest /\ RingIsBacked
  BY DEF SystemInv, HistoryInv
<1>2. QED BY <1>1, SystemInvariant, PTL
-----------------------------------------------------------------------------
(* What the reports hold.                                                    *)

\* The steps of the reports, as the history sees them.
HistoryOrPush == HistoryNext \/ (LogUnchanged /\ (Fault \/ NoFault))

LEMMA PushFacts ==
    ASSUME NEW g \in Goroutine, Push(g)
    PROVE  LogUnchanged /\ (Fault \/ NoFault) /\ UNCHANGED day
<1>1. CASE List(g)
  BY <1>1 DEF List
<1>2. CASE Download(g)
  BY <1>2 DEF Download
<1>3. CASE GetSha(g)
  BY <1>3 DEF GetSha
<1>4. CASE Put(g)
  BY <1>4 DEF Put
<1>5. CASE NameReport(g)
  BY <1>5 DEF NameReport
<1>6. QED BY <1>1, <1>2, <1>3, <1>4, <1>5 DEF Push

LEMMA StepOfHistory == [Next]_vars => [HistoryOrPush]_historyVars
<1> SUFFICES ASSUME [Next]_vars PROVE [HistoryOrPush]_historyVars
  OBVIOUS
<1>1. CASE LogStep /\ UNCHANGED reportVars
  BY <1>1 DEF HistoryOrPush, HistoryNext
<1>2. CASE RequestPush \/ StartCompiled \/ \E p \in Pusher : PushOnce(p)
  BY <1>2 DEF PushOnce, RequestPush, StartCompiled, BuildDaily, HistoryOrPush
<1>3. ASSUME NEW g \in Goroutine, Push(g) PROVE [HistoryOrPush]_historyVars
  BY <1>3, PushFacts DEF HistoryOrPush
<1>4. CASE NextDay \/ TokenChecked \/ \E p \in Pusher : ServerRuns(p)
  BY <1>4 DEF NextDay, ServerRuns, TokenChecked, HistoryOrPush
<1>5. CASE Restart
  BY <1>5 DEF Restart, HistoryOrPush, HistoryNext
<1>6. CASE UNCHANGED vars
  BY <1>6 DEF vars
<1>7. QED BY <1>1, <1>2, <1>3, <1>4, <1>5, <1>6 DEF Next

\* The goroutines that push reports only read the history: between them, a host
\* behaves as ElectionHistory says, but that requests may use up its faults.
THEOREM PushesOnlyRead == Spec => HistoryInit /\ [][HistoryOrPush]_historyVars
<1>1. Init => HistoryInit
  BY DEF Init
<1>2. QED BY <1>1, StepOfHistory, PTL DEF Spec

\* A PUT, as the reports see it.
LEMMA PutFacts ==
    ASSUME NEW g \in Goroutine, Put(g)
    PROVE  /\ work[g].phase = "put"
           /\ \/ Store(g, work[g], AfterPush(g, work[g])) \/ Store(g, work[g], Idle)
              \/ Become(g, Idle) /\ UNCHANGED <<daily, compiled>>
BY DEF Put

\* The pushes that go on start from nothing.
LEMMA AfterPushFacts ==
    ASSUME NEW g, NEW w
    PROVE  LET n == AfterPush(g, w) IN
           /\ n \in Work /\ Coherent(n) /\ n.phase # "put" /\ n.rows = NoReport
           /\ n.file = Compiled /\ n.sheet = None
<1> DEFINE Begun == [Idle EXCEPT !.phase = "list"]
<1>1. Idle.file = Compiled /\ Idle.fits = FALSE /\ Idle.todo = {} /\ Idle.rows = NoReport
      /\ Idle.phase = "idle" /\ Idle.sheet = None
  BY DEF Idle
<1>2. /\ Begun \in Work /\ Begun.phase = "list" /\ Begun.file = Compiled
      /\ Begun.fits = FALSE /\ Begun.todo = {} /\ Begun.rows = NoReport
      /\ Begun.sheet = None
  BY <1>1, Types DEF Work
<1> HIDE DEF Begun
<1>3. Coherent(Begun)
  BY <1>2 DEF Coherent
<1>4. AfterPush(g, w) \in {Begun, Idle}
  BY DEF AfterPush, Begun
<1>5. QED BY <1>1, <1>2, <1>3, <1>4, Types

Permanent == \A d \in Day : daily[d] # None => daily'[d] # None

LEMMA StepsKeepReports == SystemInv /\ [Next]_vars => Permanent
<1> SUFFICES ASSUME ReportTypes, Refused, [Next]_vars PROVE Permanent
  BY DEF SystemInv, ReportInv
<1>1. ASSUME UNCHANGED daily PROVE Permanent
  BY <1>1 DEF Permanent
<1>2. ASSUME NEW g \in Goroutine, Put(g) PROVE Permanent
  <2>1. CASE Become(g, Idle) /\ UNCHANGED <<daily, compiled>>
    BY <1>1, <2>1
  <2>2. ASSUME NEW n \in {AfterPush(g, work[g]), Idle}, Store(g, work[g], n)
        PROVE  Permanent
    <3>1. n \in Work /\ Coherent(n) /\ n.phase # "put"
      BY AfterPushFacts, Types
    <3>2. work[g].phase = "put"
      BY <1>2, PutFacts
    <3>3. QED BY <2>2, <3>1, <3>2, StoreFacts DEF Permanent
  <2>3. QED BY <1>2, <2>1, <2>2, PutFacts
<1>3. ASSUME NEW g \in Goroutine, Push(g) PROVE Permanent
  BY <1>1, <1>2, <1>3 DEF Push, NameReport, List, Download, GetSha
<1>4. CASE RequestPush \/ StartCompiled \/ \E p \in Pusher : PushOnce(p)
  BY <1>1, <1>4 DEF PushOnce, RequestPush, StartCompiled, BuildDaily
<1>5. CASE NextDay \/ TokenChecked \/ Restart \/ \E p \in Pusher : ServerRuns(p)
  BY <1>1, <1>5 DEF NextDay, ServerRuns, TokenChecked, Restart
<1>6. CASE (LogStep /\ UNCHANGED reportVars) \/ UNCHANGED vars
  BY <1>1, <1>6 DEF reportVars, vars
<1>7. QED BY <1>3, <1>4, <1>5, <1>6 DEF Next

\* A day that has a report keeps one: pushes that fail, that are repeated or that
\* store what was built long ago replace it, and none takes it away.
LEMMA ReportsArePermanent == Spec => [][Permanent]_vars
<1>1. SystemInv /\ [Next]_vars => [Permanent]_vars
  BY StepsKeepReports
<1>2. QED BY <1>1, SystemInvariant, PTL DEF Spec
\* The rows R have been logged.
Logged(R) == \A ev \in R : ev[1] <= events

\* What is pushed: rows that were logged, of days that have begun; and what is
\* compiled is of days that have a report.
Known(w) ==
    /\ w.sheet # None => Logged(w.sheet)
    /\ \A d \in Day :
          w.rows[d] # None =>
              /\ Logged(w.rows[d]) /\ d <= day
              /\ w.file = Compiled => daily[d] # None

NothingInvented ==
    \A d \in Day :
        /\ daily[d] # None => Logged(daily[d]) /\ d <= day
        /\ compiled[d] # None => Logged(compiled[d]) /\ daily[d] # None

RowsInv == Logged(failed) /\ NothingInvented /\ \A g \in Goroutine : Known(work[g])

LEMMA LoggedGrows ==
    ASSUME NEW R \in Rows, Logged(R), events \in Nat, events' \in Nat, events <= events'
    PROVE  \A ev \in R : ev[1] <= events'
BY DEF Rows, Event, Logged

\* The reports after a step that logs rows, lets a day pass, or stores a report.
LEMMA KnownGrows ==
    ASSUME SystemInv, NEW w \in Work, Known(w),
           events' \in Nat, events <= events', day' \in Nat, day <= day', Permanent
    PROVE  Known(w)'
<1>1. events \in Nat /\ day \in Nat /\ w.rows \in [Day -> Stored]
  BY DEF SystemInv, HistoryInv, HistoryTypes, ReportInv, ReportTypes, Day, Work
<1>2. ASSUME NEW d \in Day, w.rows[d] # None
      PROVE  /\ Logged(w.rows[d])' /\ d <= day'
             /\ w.file = Compiled => daily'[d] # None
  <2>1. w.rows[d] \in Rows /\ Logged(w.rows[d]) /\ d <= day /\ d \in Nat
    BY <1>1, <1>2 DEF Known, Stored, Day
  <2>2. \A ev \in w.rows[d] : ev[1] <= events'
    BY <1>1, <2>1, LoggedGrows
  <2>3. d <= day'
    BY <1>1, <2>1
  <2>4. w.file = Compiled => daily'[d] # None
    BY <1>2 DEF Known, Permanent
  <2>5. QED BY <2>2, <2>3, <2>4 DEF Logged
<1>3. ASSUME w.sheet # None PROVE Logged(w.sheet)'
  <2>1. w.sheet \in Rows /\ Logged(w.sheet)
    BY <1>3 DEF Known, Work, Stored
  <2>2. \A ev \in w.sheet : ev[1] <= events'
    BY <1>1, <2>1, LoggedGrows
  <2>3. QED BY <2>2 DEF Logged
<1>4. QED BY <1>2, <1>3 DEF Known

LEMMA StoredGrows ==
    ASSUME SystemInv, NothingInvented, UNCHANGED <<daily, compiled>>,
           events' \in Nat, events <= events', day' \in Nat, day <= day'
    PROVE  NothingInvented'
<1>1. /\ events \in Nat /\ day \in Nat
      /\ daily \in [Day -> Stored] /\ compiled \in [Day -> Stored]
  BY DEF SystemInv, HistoryInv, HistoryTypes, ReportInv, ReportTypes, Day
<1>2. ASSUME NEW d \in Day, daily[d] # None
      PROVE  Logged(daily[d])' /\ d <= day'
  <2>1. daily[d] \in Rows /\ Logged(daily[d]) /\ d <= day /\ d \in Nat
    BY <1>1, <1>2 DEF NothingInvented, Stored, Day
  <2>2. \A ev \in daily[d] : ev[1] <= events'
    BY <1>1, <2>1, LoggedGrows
  <2>3. QED BY <1>1, <2>1, <2>2 DEF Logged
<1>3. ASSUME NEW d \in Day, compiled[d] # None
      PROVE  Logged(compiled[d])' /\ daily[d] # None
  <2>1. compiled[d] \in Rows /\ Logged(compiled[d]) /\ daily[d] # None
    BY <1>1, <1>3 DEF NothingInvented, Stored
  <2>2. \A ev \in compiled[d] : ev[1] <= events'
    BY <1>1, <2>1, LoggedGrows
  <2>3. QED BY <2>1, <2>2 DEF Logged
<1>4. QED BY <1>2, <1>3 DEF NothingInvented

\* Every row of the sheet "Election" has been logged: it is in the file, on its
\* way, or its write failed.
LEMMA SheetIsLogged ==
    ASSUME HistoryInv, Logged(failed) PROVE ElectionSheet \in Rows /\ Logged(ElectionSheet)
<1>1. ASSUME NEW i \in DOMAIN ring PROVE ring[i] \in Event /\ ring[i][1] <= events
  <2>1. \/ ring[i] \in pending \cup failed
        \/ \E j \in DOMAIN file : file[j] = ring[i]
    BY DEF HistoryInv, RingIsBacked
  <2>2. QED BY <2>1 DEF HistoryInv, HistoryTypes, Written, Logged
<1>2. QED BY <1>1 DEF ElectionSheet, Rows, Logged

LEMMA NothingIsKnown == \A w : w.rows = NoReport /\ w.sheet = None => Known(w)
BY DEF Known, NoReport

\* A step of one goroutine that stores nothing.
LEMMA BecomeKeepsRows ==
    ASSUME SystemInv, RowsInv, NEW g \in Goroutine, NEW w \in Work, Known(w),
           Become(g, w), UNCHANGED <<daily, compiled, day>>, LogUnchanged
    PROVE  RowsInv'
<1>1. \A x \in Goroutine : work'[x] = IF x = g THEN w ELSE work[x]
  BY DEF Become, SystemInv, ReportInv, ReportTypes
<1>2. events' = events /\ failed' = failed
  BY DEF LogUnchanged
<1>3. ASSUME NEW x \in Goroutine PROVE Known(work'[x])
  BY <1>1 DEF RowsInv
<1>4. \A x \in Goroutine : Known(work[x])'
  BY <1>2, <1>3 DEF Known, Logged
<1>5. Logged(failed)' /\ NothingInvented'
  BY <1>2 DEF RowsInv, Logged, NothingInvented
<1>6. QED BY <1>4, <1>5 DEF RowsInv

\* A step that stores nothing and pushes nothing.
LEMMA GrowthKeepsRows ==
    ASSUME SystemInv, RowsInv, UNCHANGED <<daily, compiled, work>>,
           events' \in Nat, events <= events', day' \in Nat, day <= day',
           failed' \in {failed} \cup {failed \cup {ev} : ev \in pending}
    PROVE  RowsInv'
<1>1. /\ events \in Nat /\ failed \in Rows /\ pending \in Rows /\ Logged(pending)
      /\ work \in [Goroutine -> Work] /\ Permanent
  BY DEF SystemInv, HistoryInv, HistoryTypes, Written, Logged, Rows, ReportInv,
         ReportTypes, Permanent
<1>2. Logged(failed)'
  <2>1. failed' \in Rows /\ \A ev \in failed' : ev[1] <= events
    BY <1>1 DEF RowsInv, Logged, Rows
  <2>2. \A ev \in failed' : ev[1] <= events'
    BY <1>1, <2>1, LoggedGrows DEF Logged
  <2>3. QED BY <2>2 DEF Logged
<1>3. NothingInvented'
  BY StoredGrows DEF RowsInv
<1>4. ASSUME NEW x \in Goroutine PROVE Known(work[x])'
  <2>1. work[x] \in Work /\ Known(work[x]) /\ work'[x] = work[x]
    BY <1>1 DEF RowsInv
  <2>2. \A w \in Work : Known(w) => Known(w)'
    BY <1>1, KnownGrows
  <2>3. QED BY <2>1, <2>2 DEF Known, Logged
<1>5. QED BY <1>2, <1>3, <1>4 DEF RowsInv
LEMMA BuildKeepsRows ==
    ASSUME SystemInv, RowsInv, NEW g \in Goroutine, BuildDaily(g) PROVE RowsInv'
<1>0. /\ UNCHANGED <<day, daily, compiled>> /\ LogUnchanged
      /\ day \in Day /\ HistoryInv /\ Logged(failed)
  BY DEF BuildDaily, SystemInv, ReportInv, ReportTypes, RowsInv
<1>1. CASE UNCHANGED work
  BY <1>0, <1>1, GrowthKeepsRows
     DEF SystemInv, HistoryInv, HistoryTypes, ReportInv, ReportTypes, LogUnchanged, Day
<1>2. ASSUME Become(g, [Idle EXCEPT !.phase = "name", !.sheet = ElectionSheet])
      PROVE  RowsInv'
  <2> DEFINE R == ElectionSheet
             w == [Idle EXCEPT !.phase = "name", !.sheet = R]
  <2>1. R \in Rows /\ Logged(R)
    BY <1>0, SheetIsLogged
  <2>2. Idle.rows = NoReport /\ \A d \in Day : NoReport[d] = None
    BY DEF Idle, NoReport
  <2> HIDE DEF R
  <2>3. w \in Work /\ w.sheet = R /\ \A d \in Day : w.rows[d] = None
    BY <2>1, <2>2, Types DEF Work
  <2>4. Become(g, w)
    BY <1>2 DEF R
  <2> HIDE DEF w
  <2>5. Known(w)
    BY <2>1, <2>3 DEF Known
  <2>6. QED BY <1>0, <2>3, <2>4, <2>5, BecomeKeepsRows
<1>3. QED BY <1>1, <1>2 DEF BuildDaily

LEMMA NameKeepsRows ==
    ASSUME SystemInv, RowsInv, NEW g \in Goroutine, NameReport(g) PROVE RowsInv'
<1> DEFINE w == work[g]
           n == [w EXCEPT !.phase = "get", !.sheet = None,
                          !.file = day, !.rows[day] = w.sheet]
<1>0. /\ UNCHANGED <<day, daily, compiled>> /\ LogUnchanged /\ Become(g, n)
      /\ w \in Work /\ Known(w) /\ Coherent(w) /\ w.phase = "name"
      /\ day \in Day /\ daily \in [Day -> Stored]
  BY DEF NameReport, SystemInv, ReportInv, ReportTypes, RowsInv
<1>1. w.sheet \in Stored /\ w.sheet # None /\ Logged(w.sheet) /\ w.file = Compiled
  BY <1>0 DEF Coherent, Work, Known
<1>2. /\ n \in Work /\ n.file = day /\ n.rows[day] = w.sheet /\ n.sheet = None
      /\ \A d \in Day : d # day => n.rows[d] = w.rows[d]
  <2>1. None \in Stored
    BY DEF Stored
  <2>2. QED BY <1>0, <1>1, <2>1 DEF Work
<1> HIDE DEF n
<1>3. ASSUME NEW d \in Day, n.rows[d] # None
      PROVE  Logged(n.rows[d]) /\ d <= day /\ n.file # Compiled
  <2>1. n.file # Compiled
    BY <1>0, <1>2, Types
  <2>2. CASE d = day
    BY <1>0, <1>1, <1>2, <2>1, <2>2 DEF Day
  <2>3. CASE d # day
    BY <1>0, <1>2, <1>3, <2>1, <2>3 DEF Known
  <2>4. QED BY <2>2, <2>3
<1>4. Known(n)
  BY <1>2, <1>3 DEF Known
<1>5. QED BY <1>0, <1>2, <1>4, BecomeKeepsRows

LEMMA ListKeepsRows ==
    ASSUME SystemInv, RowsInv, NEW g \in Goroutine,
           List(g) \/ (g = "other" /\ StartCompiled)
    PROVE  RowsInv'
<1> DEFINE Listed == [Idle EXCEPT !.phase = "get", !.todo = {d \in Day : daily[d] # None}]
           Begun == [Idle EXCEPT !.phase = "list"]
<1>1. \E w \in {Idle, Listed, Begun} : Become(g, w)
  BY DEF List, StartCompiled
<1>2. UNCHANGED <<daily, compiled, day>> /\ LogUnchanged
  BY DEF List, StartCompiled
<1>3. \A w \in {Idle, Listed, Begun} : w \in Work /\ w.rows = NoReport /\ w.sheet = None
  <2>1. Idle.rows = NoReport /\ {d \in Day : daily[d] # None} \in SUBSET Day
    BY DEF Idle
  <2>2. QED BY <2>1, Types DEF Work
<1> HIDE DEF Listed, Begun
<1>4. QED BY <1>1, <1>2, <1>3, NothingIsKnown, BecomeKeepsRows

LEMMA DownloadKeepsRows ==
    ASSUME SystemInv, RowsInv, NEW g \in Goroutine, Download(g) PROVE RowsInv'
<1>0. /\ UNCHANGED <<day, daily, compiled>> /\ LogUnchanged
      /\ work \in [Goroutine -> Work] /\ work[g] \in Work /\ Known(work[g])
      /\ work[g].rows \in [Day -> Stored] /\ work[g].todo \subseteq Day
      /\ daily \in [Day -> Stored] /\ NothingInvented
  BY DEF Download, SystemInv, ReportInv, ReportTypes, RowsInv, Work
<1>1. PICK d \in work[g].todo :
        \/ work' = [work EXCEPT ![g].todo = @ \ {d}, ![g].rows[d] = daily[d]]
        \/ work' = [work EXCEPT ![g].todo = @ \ {d}]
  BY DEF Download
<1>2. CASE work' = [work EXCEPT ![g].todo = @ \ {d}, ![g].rows[d] = daily[d]]
  <2> DEFINE w == [work[g] EXCEPT !.todo = @ \ {d}, !.rows[d] = daily[d]]
  <2>1. /\ w \in Work /\ w.file = work[g].file /\ w.rows[d] = daily[d]
        /\ w.sheet = work[g].sheet
        /\ \A e \in Day : e # d => w.rows[e] = work[g].rows[e]
    BY <1>0, <1>1 DEF Work
  <2>2. Become(g, w)
    BY <1>0, <1>2 DEF Become
  <2> HIDE DEF w
  <2>3. ASSUME NEW e \in Day, w.rows[e] # None
        PROVE  /\ Logged(w.rows[e]) /\ e <= day
               /\ w.file = Compiled => daily[e] # None
    <3>1. CASE e = d
      BY <1>0, <2>1, <2>3, <3>1 DEF NothingInvented
    <3>2. CASE e # d
      BY <1>0, <2>1, <2>3, <3>2 DEF Known
    <3>3. QED BY <3>1, <3>2
  <2>4. Known(w)
    BY <1>0, <2>1, <2>3 DEF Known
  <2>5. QED BY <1>0, <2>1, <2>2, <2>4, BecomeKeepsRows
<1>3. CASE work' = [work EXCEPT ![g].todo = @ \ {d}]
  <2> DEFINE w == [work[g] EXCEPT !.todo = @ \ {d}]
  <2>1. /\ w \in Work /\ w.file = work[g].file /\ w.rows = work[g].rows
        /\ w.sheet = work[g].sheet
    BY <1>0 DEF Work
  <2>2. Become(g, w)
    BY <1>0, <1>3 DEF Become
  <2> HIDE DEF w
  <2>3. Known(w)
    BY <1>0, <2>1 DEF Known
  <2>4. QED BY <1>0, <2>1, <2>2, <2>3, BecomeKeepsRows
<1>4. QED BY <1>1, <1>2, <1>3

LEMMA GetShaKeepsRows ==
    ASSUME SystemInv, RowsInv, NEW g \in Goroutine, GetSha(g) PROVE RowsInv'
<1> DEFINE w == work[g]
<1>0. /\ UNCHANGED <<day, daily, compiled>> /\ LogUnchanged
      /\ w \in Work /\ Known(w)
  BY DEF GetSha, SystemInv, ReportInv, ReportTypes, RowsInv
<1>1. ASSUME NEW b \in BOOLEAN, Become(g, [w EXCEPT !.phase = "put", !.fits = b])
      PROVE  RowsInv'
  <2> DEFINE n == [w EXCEPT !.phase = "put", !.fits = b]
  <2>1. n \in Work /\ n.file = w.file /\ n.rows = w.rows /\ n.sheet = w.sheet
    BY <1>0 DEF Work
  <2>2. Become(g, n)
    BY <1>1
  <2> HIDE DEF n
  <2>3. Known(n)
    BY <1>0, <2>1 DEF Known
  <2>4. QED BY <1>0, <2>1, <2>2, <2>3, BecomeKeepsRows
<1>2. ASSUME Become(g, Idle) PROVE RowsInv'
  <2>1. Idle.rows = NoReport /\ Idle.sheet = None
    BY DEF Idle
  <2>2. QED BY <1>0, <1>2, <2>1, Types, NothingIsKnown, BecomeKeepsRows
<1>3. Absent(w.file) \in BOOLEAN
  BY DEF Absent
<1>4. QED BY <1>1, <1>2, <1>3 DEF GetSha

LEMMA StoreKeepsRows ==
    ASSUME SystemInv, RowsInv, NEW g \in Goroutine, work[g].phase = "put",
           NEW next \in Work, Coherent(next), next.phase # "put", next.rows = NoReport, next.sheet = None,
           Store(g, work[g], next), LogUnchanged, day' = day
    PROVE  RowsInv'
<1> DEFINE w == work[g]
<1>0. /\ work \in [Goroutine -> Work] /\ w \in Work /\ Known(w) /\ Coherent(w)
      /\ w.rows \in [Day -> Stored] /\ w.file \in Day \cup {Compiled}
      /\ daily \in [Day -> Stored] /\ compiled \in [Day -> Stored] /\ day \in Nat
      /\ events' = events /\ events \in Nat /\ failed' = failed
      /\ ReportTypes /\ Refused /\ NothingInvented /\ Logged(failed)
  BY DEF LogUnchanged, SystemInv, HistoryInv, HistoryTypes, ReportInv, ReportTypes,
         RowsInv, Work, Day
<1>1. Permanent
  BY <1>0, StoreFacts DEF Permanent
<1>2. NothingInvented'
  <2>1. CASE w.file = Compiled
    <3>1. daily' = daily /\ compiled' = w.rows
      BY <2>1 DEF Store
    <3>2. QED BY <1>0, <2>1, <3>1 DEF NothingInvented, Known, Logged
  <2>2. CASE w.file # Compiled
    <3>1. w.file \in Day /\ w.rows[w.file] # None
      BY <1>0, <2>2 DEF Store, Coherent
    <3>2. daily' = [daily EXCEPT ![w.file] = w.rows[w.file]] /\ compiled' = compiled
      BY <2>2 DEF Store
    <3>3. \A d \in Day : daily'[d] = IF d = w.file THEN w.rows[d] ELSE daily[d]
      BY <1>0, <3>1, <3>2
    <3>4. \A d \in Day : daily'[d] # None => Logged(daily'[d]) /\ d <= day
      BY <1>0, <3>3 DEF NothingInvented, Known
    <3>5. \A d \in Day : compiled[d] # None => Logged(compiled[d]) /\ daily'[d] # None
      BY <1>0, <1>1 DEF NothingInvented, Permanent
    <3>6. QED BY <1>0, <3>2, <3>4, <3>5 DEF NothingInvented, Logged
  <2>3. QED BY <2>1, <2>2
<1>3. ASSUME NEW x \in Goroutine PROVE Known(work[x])'
  <2>1. CASE x = g
    <3>1. work'[x].rows = NoReport /\ work'[x].sheet = None
      BY <2>1 DEF Store
    <3>2. QED BY <3>1 DEF Known, NoReport
  <2>2. CASE x # g
    <3> DEFINE b == work[x].fits /\ work[x].file # w.file
    <3>1. work[x] \in Work /\ Known(work[x]) /\ work'[x] = [work[x] EXCEPT !.fits = b]
      BY <1>0, <2>2 DEF Store, RowsInv, Work
    <3> HIDE DEF b
    <3>2. /\ work'[x].rows = work[x].rows /\ work'[x].file = work[x].file
          /\ work'[x].sheet = work[x].sheet
      BY <3>1 DEF Work
    <3>3. QED BY <1>0, <1>1, <3>1, <3>2 DEF Known, Logged, Permanent
  <2>3. QED BY <2>1, <2>2
<1>4. QED BY <1>0, <1>2, <1>3 DEF RowsInv, Logged

LEMMA StepKeepsRows == SystemInv /\ RowsInv /\ [Next]_vars => RowsInv'
<1> SUFFICES ASSUME SystemInv, RowsInv, [Next]_vars PROVE RowsInv'
  OBVIOUS
<1>0. /\ events \in 0..MaxEvents /\ day \in Nat
  BY DEF SystemInv, HistoryInv, HistoryTypes, ReportInv, ReportTypes, Day
<1>1. CASE LogStep /\ UNCHANGED reportVars
  <2>1. events' \in {events, events + 1}
    BY <1>1 DEF LogStep, Report, Log, WriteRow, Age
  <2>2. failed' \in {failed} \cup {failed \cup {ev} : ev \in pending}
    BY <1>1 DEF LogStep, Report, WriteRow, Age
  <2>3. QED BY <1>0, <1>1, <2>1, <2>2, GrowthKeepsRows DEF reportVars
<1>2. CASE RequestPush \/ \E p \in Pusher : PushOnce(p)
  BY <1>2, BuildKeepsRows, Types DEF PushOnce, RequestPush
<1>3. CASE StartCompiled
  BY <1>3, ListKeepsRows, Types
<1>4. ASSUME NEW g \in Goroutine, Put(g) PROVE RowsInv'
  <2>1. LogUnchanged /\ UNCHANGED day /\ work[g].phase = "put"
    BY <1>4, PushFacts, PutFacts DEF Push
  <2>2. CASE Become(g, Idle) /\ UNCHANGED <<daily, compiled>>
    <3>1. Idle.rows = NoReport /\ Idle.sheet = None
      BY DEF Idle
    <3>2. QED BY <2>1, <2>2, <3>1, Types, NothingIsKnown, BecomeKeepsRows
  <2>3. ASSUME NEW n \in {AfterPush(g, work[g]), Idle}, Store(g, work[g], n)
        PROVE  RowsInv'
    <3>0. Idle.rows = NoReport /\ Idle.sheet = None
      BY DEF Idle
    <3>1. /\ n \in Work /\ Coherent(n) /\ n.phase # "put" /\ n.rows = NoReport
          /\ n.sheet = None
      BY <3>0, AfterPushFacts, Types
    <3>2. QED BY <2>1, <2>3, <3>1, StoreKeepsRows
  <2>4. QED BY <1>4, <2>2, <2>3, PutFacts
<1>5. ASSUME NEW g \in Goroutine, Push(g) PROVE RowsInv'
  BY <1>4, <1>5, NameKeepsRows, ListKeepsRows, DownloadKeepsRows, GetShaKeepsRows DEF Push
<1>6. CASE NextDay \/ TokenChecked \/ \E p \in Pusher : ServerRuns(p)
  <2>1. /\ day' \in {day, day + 1} /\ UNCHANGED <<daily, compiled, work, events, failed>>
    BY <1>6 DEF NextDay, ServerRuns, TokenChecked, LogUnchanged
  <2>2. QED BY <1>0, <2>1, GrowthKeepsRows
<1>7. CASE Restart
  <2>1. /\ UNCHANGED <<day, daily, compiled, events>> /\ Rewrite(file)
        /\ \A g \in Goroutine : work'[g].rows = NoReport /\ work'[g].sheet = None
    BY <1>7 DEF Restart, Reload, Idle
  <2>2. \A g \in Goroutine : Known(work[g])'
    BY <2>1 DEF Known, NoReport
  <2>3. \A ev \in failed' : ev \in failed \/ \E j \in DOMAIN file : file[j] = ev
    BY <2>1, RewriteFacts DEF SystemInv, HistoryInv, HistoryTypes, RingIsBacked
  <2>4. Logged(failed)'
    BY <2>1, <2>3 DEF SystemInv, HistoryInv, Written, RowsInv, Logged
  <2>5. QED BY <2>1, <2>2, <2>4 DEF RowsInv, Logged, NothingInvented
<1>8. CASE UNCHANGED vars
  BY <1>0, <1>8, GrowthKeepsRows DEF vars, historyVars, reportVars
<1>9. QED BY <1>1, <1>2, <1>3, <1>5, <1>6, <1>7, <1>8 DEF Next

\* The reports hold rows that the host has logged, of days that have begun, and
\* the compiled report has no day of which there is no report: whichever pushes
\* run at once, fail, or store what was built before others were stored.
THEOREM NothingIsInvented == Spec => []NothingInvented
<1>1. Init => RowsInv
  <2> SUFFICES ASSUME Init PROVE RowsInv
    OBVIOUS
  <2>1. /\ failed = {} /\ daily = NoReport /\ compiled = NoReport
        /\ \A g \in Goroutine : work[g].rows = NoReport /\ work[g].sheet = None
    BY DEF Init, HistoryInit, Idle
  <2>2. QED BY <2>1, NothingIsKnown DEF RowsInv, Logged, NothingInvented, NoReport
<1>2. RowsInv => NothingInvented
  BY DEF RowsInv
<1>3. QED BY <1>1, <1>2, StepKeepsRows, SystemInvariant, PTL DEF Spec
=============================================================================

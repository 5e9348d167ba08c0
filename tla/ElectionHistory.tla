--------------------------- MODULE ElectionHistory ---------------------------
(***************************************************************************)
(* The election history of one host (election_history.go): the rows that   *)
(* setElectionStatus logs, in a ring buffer in memory and, one goroutine   *)
(* per row, in a file of JSON lines from which the next process starts.    *)
(*                                                                         *)
(* appendElectionEvent runs under electionHistoryMu and is one step.  The  *)
(* goroutines that append to the file are not ordered: rows land in any    *)
(* order, or never when the process ends first.  The file is read, and     *)
(* shortened when it has grown too large, before the first election of a   *)
(* process, when nothing else touches it.                                  *)
(***************************************************************************)
EXTENDS Naturals, Sequences

CONSTANTS
    Key,        \* method, result, leader and error of a row
    Change,     \* the keys of claimed, stale-takeover and error rows
    None,       \* no row, no report
    RingMax,    \* electionHistoryMax
    FileMax,    \* lines of a file of 10 MB
    MaxEvents,  \* bound: rows logged
    MaxFaults   \* bound: restarts, writes and requests that fail

ASSUME HistoryAssumption ==
    /\ Change \subseteq Key
    /\ None \notin Key
    /\ None \notin (1..MaxEvents) \X Key
    /\ RingMax \in Nat \ {0}
    /\ FileMax \in Nat /\ FileMax >= RingMax
    /\ MaxEvents \in Nat /\ MaxFaults \in Nat

(* A row is the how-manieth it is, and its key.                            *)
Event == (1..MaxEvents) \X Key

VARIABLES
    ring,     \* electionHistory
    last,     \* lastElectionKey and lastElectionLogTime: the row they are of
    fresh,    \* the rows logged less than dedupInterval ago
    pending,  \* the rows whose goroutine has not written yet
    file,     \* the lines of election_history.jsonl that can be read
    torn,     \* the file ends in the middle of a line
    events,   \* rows logged so far
    current,  \* the key that was last reported in this process, or None
    failed,   \* the rows that a failed write or flush has cost
    faults    \* faults so far

historyVars ==
    <<ring, last, fresh, pending, file, torn, events, current, failed, faults>>

HistoryInit ==
    /\ ring = <<>> /\ last = None /\ fresh = {}
    /\ pending = {} /\ file = <<>> /\ torn = FALSE
    /\ events = 0 /\ current = None /\ failed = {} /\ faults = 0

Fault == faults < MaxFaults /\ faults' = faults + 1

(* The newest RingMax rows of s.                                           *)
Newest(s) ==
    IF Len(s) > RingMax THEN SubSeq(s, Len(s) - RingMax + 1, Len(s)) ELSE s

-----------------------------------------------------------------------------
(* The row that was last logged says the same and is not old.              *)
IsRepeat(k) == k \notin Change /\ last # None /\ last[2] = k /\ last \in fresh

(* Mutant: a state change does not count for what follows it.              *)
LogForgettingChanges(k) ==
    LET ev == <<events + 1, k>> IN
    /\ events < MaxEvents
    /\ last' = IF k \in Change THEN last ELSE ev
    /\ fresh' = fresh \cup {ev}
    /\ ring' = Newest(Append(ring, ev))
    /\ pending' = pending \cup {ev}
    /\ events' = events + 1

Log(k) ==
    LET ev == <<events + 1, k>> IN
    /\ events < MaxEvents
    /\ last' = ev
    /\ fresh' = fresh \cup {ev}
    /\ ring' = Newest(Append(ring, ev))
    /\ pending' = pending \cup {ev}
    /\ events' = events + 1

(* setElectionStatus and appendElectionEvent: a row that repeats the one   *)
(* before is left out, every other is logged.                              *)
Report(k) ==
    /\ \/ IsRepeat(k) /\ UNCHANGED <<ring, last, fresh, pending, events>>
       \/ ~IsRepeat(k) /\ Log(k)
    /\ current' = k
    /\ UNCHANGED <<file, torn, failed, faults>>

(* A minute passes for the rows up to some row.                            *)
Age ==
    \E old \in fresh :
        /\ fresh' = {ev \in fresh : ev[1] > old[1]}
        /\ UNCHANGED <<ring, last, pending, file, torn, events, current, failed, faults>>

(* appendElectionEventToDisk.  A write that breaks off leaves part of a    *)
(* line, to which the next row is glued: neither can be read.              *)
WriteRow(ev) ==
    /\ pending' = pending \ {ev}
    /\ \/ /\ ~torn
          /\ file' = Append(file, ev)
          /\ UNCHANGED <<torn, failed, faults>>
       \/ /\ torn
          /\ torn' = FALSE
          /\ failed' = failed \cup {ev}
          /\ UNCHANGED <<file, faults>>
       \/ /\ Fault
          /\ torn' \in BOOLEAN /\ (torn => torn')
          /\ failed' = failed \cup {ev}
          /\ UNCHANGED file
    /\ UNCHANGED <<ring, last, fresh, events, current>>

-----------------------------------------------------------------------------
(* Mutant: the oldest rows are kept.                                       *)
RewriteOldest(s) ==
    IF Len(s) > FileMax
    THEN file' = SubSeq(s, 1, RingMax) /\ torn' = FALSE /\ UNCHANGED failed
    ELSE UNCHANGED <<file, torn, failed>>

(* The file is replaced by the rows of new.  No error is looked at: when    *)
(* the new file cannot be written to its end, what there is of it takes    *)
(* the place of the old one all the same.                                  *)
Replace(new) ==
    \E n \in 0..Len(new) :
        /\ file' = SubSeq(new, 1, n)
        /\ torn' \in BOOLEAN /\ (n = Len(new) => ~torn')
        /\ failed' = failed \cup {new[i] : i \in (n + 1)..Len(new)}

(* A file that is too large is replaced by what the ring holds of it, or   *)
(* stays as it is: always on Windows, where a file that is open, as this   *)
(* one is, cannot be renamed over.                                         *)
Rewrite(s) ==
    \/ Len(s) > FileMax /\ Replace(Newest(s))
    \/ UNCHANGED <<file, torn, failed>>

(* The process ends, with the rows that are not written yet, and another   *)
(* one starts with loadElectionHistoryFromDisk.                            *)
Reload ==
    /\ Fault
    /\ ring' = Newest(file)
    /\ last' = IF file = <<>> THEN None ELSE file[Len(file)]
    /\ Rewrite(file)
    /\ pending' = {}
    /\ current' = None
    /\ UNCHANGED <<fresh, events>>

-----------------------------------------------------------------------------
LogStep ==
    \/ \E k \in Key : Report(k)
    \/ \E ev \in pending : WriteRow(ev)
    \/ Age

HistoryNext == LogStep \/ Reload

HistorySpec == HistoryInit /\ [][HistoryNext]_historyVars

-----------------------------------------------------------------------------
HistoryTypes ==
    /\ ring \in Seq(Event) /\ Len(ring) <= RingMax
    /\ last \in Event \cup {None}
    /\ fresh \subseteq Event /\ pending \subseteq Event /\ failed \subseteq Event
    /\ file \in Seq(Event)
    /\ torn \in BOOLEAN
    /\ events \in 0..MaxEvents
    /\ current \in Key \cup {None}
    /\ faults \in 0..MaxFaults

(* The newest row of the history says what was last reported, although     *)
(* repeated reports are left out, rows come from a file in which they are  *)
(* out of order, and the rows before a restart may be lost: what is left   *)
(* out is compared with the row that is really the last.  ("State changes  *)
(* ... are always logged immediately"; election_history.go:59-63.)         *)
ShowsTheLatest ==
    current # None => ring # <<>> /\ ring[Len(ring)][2] = current

(* Every row of the history is in the file or on its way, unless a write   *)
(* failed, also after the file has been shortened and lines were glued;    *)
(* and no row is in the file twice.  ("The disk file is the source of      *)
(* truth"; election_history.go:65-67.)                                     *)
RingIsBacked ==
    /\ \A i \in DOMAIN ring :
          \/ ring[i] \in pending \cup failed
          \/ \E j \in DOMAIN file : file[j] = ring[i]
    /\ \A i, j \in DOMAIN file : file[i] = file[j] => i = j
=============================================================================

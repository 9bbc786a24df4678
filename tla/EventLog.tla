------------------------------ MODULE EventLog ------------------------------
(***************************************************************************)
(* What the process monitor of src/bpf promises the reader of its output   *)
(* file, without rings, batches or processes: execs occur, some are lost,  *)
(* the others are appended to a log, each at most once and those of one    *)
(* CPU in the order of their timestamps; starting over empties the log.    *)
(***************************************************************************)
EXTENDS Naturals, Sequences

CONSTANTS Event \* the events, records with the fields id, cpu and ts

VARIABLES
    waiting, \* the events that occurred and may still be logged
    log      \* the log

logvars == <<waiting, log>>

Logged == {log[i] : i \in DOMAIN log}

TypeOK == waiting \subseteq Event /\ log \in Seq(Event)

Init == waiting = {} /\ log = <<>>

\* A new event, not older than any its CPU produced before.
Occur(e) ==
    /\ e \in Event
    /\ \A o \in waiting \cup Logged :
          o.id # e.id /\ (o.cpu = e.cpu => o.ts <= e.ts)
    /\ waiting' = waiting \cup {e}
    /\ UNCHANGED log

Lose(S) ==
    /\ waiting' = waiting \ S
    /\ UNCHANGED log

\* Distinct waiting events are appended, on each CPU the oldest first.
Record(s) ==
    LET S == {s[i] : i \in DOMAIN s}
    IN  /\ \A i, j \in DOMAIN s : i < j =>
              s[i] # s[j] /\ (s[i].cpu = s[j].cpu => s[i].ts <= s[j].ts)
        /\ S \subseteq waiting
        /\ \A e \in S, o \in waiting \ S : e.cpu = o.cpu => e.ts <= o.ts
        /\ waiting' = waiting \ S
        /\ log' = log \o s

\* A new run empties the log.
StartOver ==
    /\ log' = <<>>
    /\ UNCHANGED waiting

\* The parameters are named through the next state, so that TLC can tell of a
\* step of the monitor which of these it is.
Next ==
    \/ \E e \in waiting' \ waiting : Occur(e)
    \/ Lose(waiting \ waiting')
    \/ Record(SubSeq(log', Len(log) + 1, Len(log')))
    \/ StartOver

Spec == Init /\ [][Next]_logvars
=============================================================================

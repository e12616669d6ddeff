------------------------------ MODULE Counters ------------------------------
(***************************************************************************)
(* The environment of the collectors that read counters: counters that     *)
(* grow from one Read() to the next, that wrap or start again at zero, and *)
(* sources (devices, hardware threads, mounts) that come and go.  None of  *)
(* this is code of the program; the collectors read files below /proc and  *)
(* /sys and the output of commands.                                        *)
(*                                                                         *)
(* Time is counted in intervals: there is one Read() per interval.         *)
(***************************************************************************)
EXTENDS Integers, Sequences

CONSTANTS
  Source,     \* what a collector reads a counter from
  MaxTime,    \* bound on the intervals
  MaxGrowth,  \* bound on the increase of a counter in one interval
  MaxEvents   \* bound on resets, arrivals and departures

ASSUME CountersAssumption ==
  /\ MaxTime \in Nat
  /\ MaxGrowth \in Nat
  /\ MaxEvents \in Nat

VARIABLES
  hist,     \* hist[t + 1][s]: how much s had counted at time t
  base,     \* what s had counted when it was reset
  present,  \* sources that exist now
  due,      \* an interval has passed: the tick is there
  events    \* resets, arrivals and departures so far

envVars == <<hist, base, present, due, events>>

Now == Len(hist) - 1
Counted(s) == hist[Len(hist)][s]

\* The increase of s in the last d intervals.
Growth(s, d) == Counted(s) - hist[Len(hist) - d][s]

EnvTypeOK ==
  /\ hist \in Seq([Source -> Nat])
  /\ Now \in 0..MaxTime
  /\ base \in [Source -> Nat]
  /\ present \subseteq Source
  /\ due \in BOOLEAN
  /\ events \in 0..MaxEvents

\* The program starts when the counters have been running for a while.
EnvInit ==
  /\ hist = <<[s \in Source |-> 1]>>
  /\ base = [s \in Source |-> 0]
  /\ present \in SUBSET Source
  /\ due = FALSE
  /\ events = 0

PassInterval ==
  /\ ~due
  /\ Now < MaxTime
  /\ \E g \in [Source -> 0..MaxGrowth] :
       hist' = Append(hist, [s \in Source |-> Counted(s) + g[s]])
  /\ due' = TRUE
  /\ UNCHANGED <<base, present, events>>

\* A driver is loaded again, or somebody clears the counters.
ResetCounter(s) ==
  /\ due
  /\ events < MaxEvents
  /\ base' = [base EXCEPT ![s] = Counted(s)]
  /\ events' = events + 1
  /\ UNCHANGED <<hist, present, due>>

\* A disk is added, a processor goes offline, a file system is mounted ...
ComeOrGo(s) ==
  /\ due
  /\ events < MaxEvents
  /\ present' = IF s \in present THEN present \ {s} ELSE present \cup {s}
  /\ events' = events + 1
  /\ UNCHANGED <<hist, base, due>>
=============================================================================

------------------------------- MODULE UnitLog -------------------------------
(***************************************************************************)
(* What the resume state of an output directory promises to one            *)
(* investigation at a time, without files, temp files, sessions or          *)
(* processes: a log of completed units that only grows, one unit at a time, *)
(* until another investigation replaces it.  The tail that has not reached  *)
(* the disk may be lost with the power, and the log with it, but what is    *)
(* there is always one whole log.                                           *)
(***************************************************************************)
EXTENDS Naturals, Sequences

CONSTANTS Key(_)    \* the profile a unit stands for

VARIABLES
    log,      \* the log a reader sees
    stable    \* the log that has reached the disk

NoLog == [id |-> << >>, units |-> << >>]

LogInit == log = NoLog /\ stable = log

\* An investigation completes its first unit under a new identity.
Begin ==
    /\ log'.id # log.id
    /\ Len(log'.units) = 1
    /\ UNCHANGED stable

\* The investigation the log belongs to completes one unit more.
Extend ==
    /\ log.id # << >> /\ log'.id = log.id
    /\ Len(log'.units) = Len(log.units) + 1
    /\ SubSeq(log'.units, 1, Len(log.units)) = log.units
    /\ \A i \in DOMAIN log.units :
          Key(log.units[i]) # Key(log'.units[Len(log'.units)])
    /\ UNCHANGED stable

Persist == stable' = log /\ UNCHANGED log

LosePower == log' \in {log, stable, NoLog} /\ stable' = log'

LogNext == Begin \/ Extend \/ Persist \/ LosePower

LogSpec == LogInit /\ [][LogNext]_<<log, stable>>
=============================================================================

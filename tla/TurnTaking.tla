------------------------------ MODULE TurnTaking ------------------------------
(***************************************************************************)
(* What openlia-browser promises its clients, without leases, deadlines,   *)
(* tokens, chains and caches: one browser is used by one client at a time, *)
(* in the order in which they asked.                                       *)
(*                                                                         *)
(* A client that asks gets the next ticket.  It waits, and may leave the   *)
(* line at any time; the holder keeps the browser while it is in use, and  *)
(* when it gives it up the first one still in line has it, at once.        *)
(* BrowserLease implements this (BrowserLease.tla, TakesTurns).            *)
(***************************************************************************)
EXTENDS Naturals

VARIABLES holder,    \* the ticket that has the browser, or Nobody
          waiting,   \* the tickets in line
          asked,     \* how many tickets were handed out
          using      \* whether the holder is using the browser right now

turnVars == <<holder, waiting, asked, using>>

Nobody == 0

TurnInit == holder = Nobody /\ waiting = {} /\ asked = 0 /\ using = FALSE

(* The browser stays with its holder, who may start or stop using it.      *)
Keep(line) ==
    /\ holder # Nobody
    /\ holder' = holder
    /\ waiting' = line

(* The browser goes to the first in line, or to nobody when none is left.  *)
HandOver(line) ==
    /\ using' = FALSE
    /\ \/ line = {} /\ holder' = Nobody /\ waiting' = {}
       \/ \E t \in line :
            /\ \A u \in line : t <= u
            /\ holder' = t
            /\ waiting' = line \ {t}

(* Some leave the line, and the rest moves up or not.                      *)
Move ==
    /\ \E line \in SUBSET waiting : Keep(line) \/ HandOver(line)
    /\ asked' = asked

(* The same, with one more who asks.                                       *)
Ask ==
    /\ \E line \in SUBSET waiting :
            Keep(line \cup {asked + 1}) \/ HandOver(line \cup {asked + 1})
    /\ asked' = asked + 1

TurnNext == (Move \/ Ask) /\ using' \in BOOLEAN

TurnSpec == TurnInit /\ [][TurnNext]_turnVars
=============================================================================

----------------------------- MODULE Heartbeat -----------------------------
(***************************************************************************)
(* The heartbeat of one ClientSession: every PING milliseconds the server  *)
(* sends a ping and looks at how long ago the client last sent PING or     *)
(* PONG; the third check in a row that finds it more than CONNECTION ago   *)
(* closes the connection.                                                  *)
(*                                                                         *)
(* Time is discrete.  The check runs between PING - Jitter and PING +      *)
(* Jitter after the previous one, which stands for the coarse QTimer and   *)
(* for an event loop that is busy with other handlers.  The age of the     *)
(* last answer is measured with the wall clock, which can be set; the      *)
(* timers are not affected by that.                                        *)
(***************************************************************************)
EXTENDS Integers

CONSTANTS
  PING,         \* Timeouts::PING
  CONNECTION,   \* Timeouts::CONNECTION
  Jitter,       \* how early or late a check may run
  Delay,        \* within which a live client's PONG arrives
  Jumps,        \* by how much the wall clock may be set forward or back
  MaxJumps      \* bound: how often it is set between two answers

MAX_MISSED_PINGS == 3

ASSUME HeartbeatAssumption ==
  /\ PING \in Nat /\ CONNECTION \in Nat /\ Jitter \in Nat /\ Delay \in Nat
  /\ Jitter < PING
  /\ Delay < 2 * (PING - Jitter)
  /\ Jumps \subseteq Int
  /\ MaxJumps \in Nat

VARIABLES
  socket,       \* connected, closed by the client, or dropped by the server
  client,       \* live: it answers pings; silent: nothing arrives any more
  phase,        \* time since pingTimer's last timeout
  age,          \* currentMSecsSinceEpoch() - lastPingTime
  quiet,        \* time that really passed since lastPingTime was set
  jumps,        \* history: how often the wall clock was set since then
  missedPings,
  owed          \* time since the oldest ping without a PONG, or NoPing

vars == <<socket, client, phase, age, quiet, jumps, missedPings, owed>>

NoPing == -1
Connected == socket = "connected"

TypeOK ==
  /\ socket \in {"connected", "closed", "dropped"}
  /\ client \in {"live", "silent"}
  /\ phase \in Nat /\ quiet \in Nat /\ age \in Int
  /\ jumps \in 0..MaxJumps
  /\ missedPings \in 0..MAX_MISSED_PINGS
  /\ owed \in Nat \cup {NoPing}

Init ==
  /\ socket = "connected"
  /\ client = "live"
  /\ phase = 0 /\ age = 0 /\ quiet = 0
  /\ jumps = 0
  /\ missedPings = 0
  /\ owed = NoPing
-----------------------------------------------------------------------------
\* One unit of time passes, but not beyond the moment a check is due.
Elapse ==
  /\ phase < PING + Jitter
  /\ phase' = phase + 1
  /\ IF Connected
     THEN /\ age' = age + 1
          /\ quiet' = quiet + 1
          /\ owed' = IF owed = NoPing THEN NoPing ELSE owed + 1
     ELSE UNCHANGED <<age, quiet, owed>>
  /\ UNCHANGED <<socket, client, jumps, missedPings>>

\* A live client's PONG does not take longer than Delay.
Tick == (Connected /\ client = "live" => owed < Delay) /\ Elapse

\* The wall clock is set.
ClockJump(d) ==
  /\ Connected
  /\ jumps < MaxJumps
  /\ age' = age + d
  /\ jumps' = jumps + 1
  /\ UNCHANGED <<socket, client, phase, quiet, missedPings, owed>>

\* Mutation: an answer is late when it is older than one ping interval.
LateAfterOnePing == age > PING

Late == age > CONNECTION

\* Mutations: the limit is off by one, or reached too early.
TooManyAfter(n) == n > MAX_MISSED_PINGS
TooManyAtTwo(n) == n >= MAX_MISSED_PINGS - 1

TooMany(n) == n >= MAX_MISSED_PINGS

\* Mutation: the ping that the server sends counts as an answer to it.
CheckSetsLastPing ==
  /\ phase >= PING - Jitter
  /\ phase' = 0
  /\ IF Connected
     THEN /\ age' = 0 /\ quiet' = 0 /\ jumps' = 0 /\ owed' = 0
          /\ missedPings' = IF Late THEN missedPings + 1 ELSE missedPings
          /\ socket' = IF Late /\ TooMany(missedPings + 1) THEN "dropped" ELSE socket
     ELSE UNCHANGED <<age, quiet, jumps, owed, missedPings, socket>>
  /\ UNCHANGED client

\* The pingTimer's timeout.  On a connection that has ended it does nothing,
\* but the timer goes on.
CheckConnectionStatus ==
  /\ phase >= PING - Jitter
  /\ phase' = 0
  /\ IF Connected
     THEN /\ owed' = IF owed = NoPing THEN 0 ELSE owed
          /\ missedPings' = IF Late THEN missedPings + 1 ELSE missedPings
          /\ socket' = IF Late /\ TooMany(missedPings + 1) THEN "dropped" ELSE socket
     ELSE UNCHANGED <<owed, missedPings, socket>>
  /\ UNCHANGED <<client, age, quiet, jumps>>

\* Mutation: an answer does not reset the count.
HeardKeepsCount ==
  /\ Connected /\ client = "live"
  /\ age' = 0 /\ quiet' = 0 /\ jumps' = 0
  /\ UNCHANGED <<socket, client, phase, missedPings>>

\* A PING or PONG arrives: lastPingTime is now, no ping is missed.
Heard ==
  /\ Connected /\ client = "live"
  /\ age' = 0 /\ quiet' = 0 /\ jumps' = 0
  /\ missedPings' = 0
  /\ UNCHANGED <<socket, client, phase>>

\* PONG: the client's answer to the pings it has received.
HandlePong == Heard /\ owed # NoPing /\ owed' = NoPing

\* PING: the client's own; all other messages leave the heartbeat alone.
HandlePing == Heard /\ UNCHANGED owed

\* The client hangs, or the network loses whatever it sends.
GoSilent ==
  /\ client = "live"
  /\ client' = "silent"
  /\ UNCHANGED <<socket, phase, age, quiet, jumps, missedPings, owed>>

\* The client closes the connection.
ClientCloses ==
  /\ Connected /\ client = "live"
  /\ socket' = "closed"
  /\ UNCHANGED <<client, phase, age, quiet, jumps, missedPings, owed>>

Next == \/ Tick
        \/ \E d \in Jumps : ClockJump(d)
        \/ CheckConnectionStatus
        \/ HandlePong
        \/ HandlePing
        \/ GoSilent
        \/ ClientCloses

\* Time passes, and the event loop runs the timer that is due.
Fairness == WF_vars(Tick) /\ WF_vars(CheckConnectionStatus)

Spec == Init /\ [][Next]_vars /\ Fairness
-----------------------------------------------------------------------------
(* Properties.                                                             *)

\* A live client is never dropped, however the wall clock is set: its PONG
\* comes between two of the three checks that would have to miss it.
LiveClientKept == socket = "dropped" => client = "silent"

\* The server never drops a client it heard of during the last two check
\* intervals, nor, if the clock was not set, one it heard of within CONNECTION
\* and two intervals.
DroppedOnlyAfterSilence ==
  socket = "dropped" =>
    /\ quiet >= 2 * (PING - Jitter)
    /\ jumps = 0 => quiet > CONNECTION + 2 * (PING - Jitter)

\* If the clock was not set, no client is kept that has been quiet for longer
\* than CONNECTION and three check intervals.
DetectedInTime ==
  (Connected /\ jumps = 0) => quiet <= CONNECTION + 3 * (PING + Jitter)

\* A client from which nothing arrives any more is dropped in the end, if the
\* wall clock is not set over and over.
SilentIsDropped == client = "silent" ~> ~Connected

\* The inductive strengthening: how long ago the last answer was when the last
\* check ran, for each number of missed pings, and what a live client owes.
QuietAtCheck == quiet - phase

Counted ==
  (Connected /\ jumps = 0) =>
    /\ age = quiet
    /\ missedPings = 0 => QuietAtCheck <= CONNECTION
    /\ missedPings = 1 => /\ CONNECTION < QuietAtCheck
                          /\ QuietAtCheck <= CONNECTION + (PING + Jitter)
    /\ missedPings = 2 => /\ CONNECTION + (PING - Jitter) < QuietAtCheck
                          /\ QuietAtCheck <= CONNECTION + 2 * (PING + Jitter)

StillOwed ==
  (Connected /\ client = "live") =>
    /\ owed <= Delay
    /\ missedPings = 1 => owed >= phase
    /\ missedPings = 2 => owed >= (PING - Jitter) + phase

StillQuiet ==
  Connected => /\ missedPings < MAX_MISSED_PINGS
               /\ missedPings = 1 => quiet >= phase
               /\ missedPings = 2 => quiet >= (PING - Jitter) + phase

IndInv == /\ TypeOK
          /\ phase <= PING + Jitter
          /\ Counted
          /\ StillOwed
          /\ StillQuiet
          /\ LiveClientKept
          /\ DroppedOnlyAfterSilence
=============================================================================

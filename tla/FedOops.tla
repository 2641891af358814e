------------------------------- MODULE FedOops ------------------------------
(***************************************************************************)
(* The packet processing line of Project 2/Question2: fedOops.c sets up    *)
(* the queue, the stations and the semaphores, and teamMember.c is what    *)
(* each of the NUM_TEAMS * TEAM_SIZE member threads runs.                  *)
(*                                                                         *)
(* A section between the sem_wait and the sem_post of a lock is one action *)
(* when nothing in it can wait: the queue's lock is held for a dequeue and *)
(* at most a post.  The one section that waits for a second lock,          *)
(* leaveStation, is split at each of its semaphore calls, with the two     *)
(* locks it takes kept in variables.  What the threads do outside the      *)
(* locks, the loop of lines 108 to 114, is split at each read of shared    *)
(* state.                                                                  *)
(***************************************************************************)
EXTENDS Integers, Sequences

CONSTANTS
  NUM_TEAMS, TEAM_SIZE, NUM_PACKETS, BLOCKED_LIMIT,
  Stations,           \* the names of the stations
  Routes,             \* the lists of instructions generatePacket may draw
  NoPacket            \* the NULL packet, and the packetNum -1 of a free station

Teams   == 0 .. NUM_TEAMS - 1
Members == Teams \X (0 .. TEAM_SIZE - 1)
Packets == 0 .. NUM_PACKETS - 1
NoTeam  == -1

\* There are other teams to loop over.
ASSUME SizesAssumption ==
  /\ NUM_TEAMS \in Nat \ {0, 1}
  /\ TEAM_SIZE \in Nat \ {0}
  /\ NUM_PACKETS \in Nat
  /\ BLOCKED_LIMIT \in Nat \ {0}
  /\ NoPacket \notin Packets

\* generatePacket draws at least one station and none of them twice.
ASSUME RoutesAssumption ==
  \A r \in Routes :
    /\ r \in Seq(Stations)
    /\ Len(r) > 0
    /\ \A i, j \in 1 .. Len(r) : i # j => r[i] # r[j]

VARIABLES
  packet_queue,           \* the packets that have not been picked up
  g_stations,             \* the packet each station is taken by
  instructions,           \* the instructions of each packet
  cleared,                \* how many of them fetchNextInstruction has cleared
  member_semaphores,      \* one per member: the tag of its team
  new_available_station,  \* one per team: a station may have become free
  conveyor_lock,
  blockedTeamSemaphore,
  blockedTeam,            \* the struct BlockedTeam
  waitingTeams,
  pc,                     \* where each member's thread is
  pkt,                    \* the packet in its hands
  blockedTimes,           \* its local counter of failed reservations
  turn                    \* the index of its loop over the other teams

vars == <<packet_queue, g_stations, instructions, cleared, member_semaphores,
          new_available_station, conveyor_lock, blockedTeamSemaphore,
          blockedTeam, waitingTeams, pc, pkt, blockedTimes, turn>>

line     == <<packet_queue, g_stations, instructions, cleared>>
locks    == <<conveyor_lock, blockedTeamSemaphore>>
fairness == <<blockedTeam, waitingTeams, blockedTimes>>

(***************************************************************************)
(* "tag":      waits for its semaphore, lines 55 and 141                   *)
(* "grab":     takes a packet from the queue, line 59                      *)
(* "reserve":  calls reserveStations, line 88                              *)
(* "blocked":  failed; counts itself, line 90                              *)
(* "peek", "weigh", "signal": the loop that signals others, lines 110-112  *)
(* "sleep":    waits for a new available station, line 116                 *)
(* "claim":    reserved; resets the fairness variables, line 119           *)
(* "leave":    process is called, line 154                                 *)
(* "alert", "announce": leaveStation has the conveyor lock, lines 282-290  *)
(* "work":     the sleep at a station and fetchNextInstruction, line 169   *)
(* "ship":     process has returned, line 128                              *)
(* "done":     the thread has returned                                     *)
(***************************************************************************)
Locations == {"tag", "grab", "reserve", "blocked", "peek", "weigh", "signal",
              "sleep", "claim", "leave", "alert", "announce", "work", "ship",
              "done"}

\* The loop of processPacket that a member leaves with its stations reserved.
Looping == {"reserve", "blocked", "peek", "weigh", "signal", "sleep"}
Holding == {"claim", "leave", "alert", "announce", "work", "ship"}

TypeOK ==
  /\ packet_queue \in Seq(Packets)
  /\ g_stations \in [Stations -> Packets \cup {NoPacket}]
  /\ instructions \in [Packets -> Routes]
  /\ cleared \in [Packets -> Nat]
  /\ \A k \in Packets : cleared[k] <= Len(instructions[k])
  /\ member_semaphores \in [Members -> {0, 1}]
  /\ new_available_station \in [Teams -> Nat]
  /\ conveyor_lock \in {0, 1}
  /\ blockedTeamSemaphore \in {0, 1}
  /\ blockedTeam \in [flag : {0, 1}, teamIndex : Teams \cup {NoTeam}]
  /\ waitingTeams \in 0 .. NUM_TEAMS
  /\ pc \in [Members -> Locations]
  /\ pkt \in [Members -> Packets \cup {NoPacket}]
  /\ blockedTimes \in [Members -> 0 .. BLOCKED_LIMIT]
  /\ turn \in [Members -> 1 .. NUM_TEAMS - 1]

-----------------------------------------------------------------------------
TeamOf(m)     == m[1]
NextMember(m) == <<m[1], (m[2] + 1) % TEAM_SIZE>>

\* The team that this turn of a loop over the other teams is about.
OtherTeam(m) == (TeamOf(m) + turn[m]) % NUM_TEAMS

StationsOf(k) == {instructions[k][n] : n \in 1 .. Len(instructions[k])}

GoTo(m, l) == pc' = [pc EXCEPT ![m] = l]

\* The counters are only compared with a limit: they stop counting there.
CountUpTo(limit, n) == IF n < limit THEN n + 1 ELSE limit

\* Mutant: the last member of a team has no next one.
PassTagNoModulo(m) ==
  member_semaphores' = [member_semaphores EXCEPT ![<<m[1], m[2] + 1>>] = @ + 1]

PassTag(m) ==
  member_semaphores' = [member_semaphores EXCEPT ![NextMember(m)] = @ + 1]

Signal(t) ==
  new_available_station' = [new_available_station EXCEPT ![t] = @ + 1]

\* The next turn of the loop over the other teams, or what follows the loop.
NextTurn(m, again, after) ==
  IF turn[m] + 1 < NUM_TEAMS
  THEN turn' = [turn EXCEPT ![m] = @ + 1] /\ GoTo(m, again)
  ELSE turn' = [turn EXCEPT ![m] = 1] /\ GoTo(m, after)

\* Mutant: process returns one call late.
ArrivedLate(m) ==
  IF cleared[pkt[m]] <= Len(instructions[pkt[m]]) THEN "work" ELSE "ship"

\* process returns when the instruction it is called with is NULL.
Arrived(m) ==
  IF cleared[pkt[m]] < Len(instructions[pkt[m]]) THEN "work" ELSE "ship"

-----------------------------------------------------------------------------
Init ==
  /\ packet_queue = [n \in 1 .. NUM_PACKETS |-> n - 1]
  /\ g_stations = [s \in Stations |-> NoPacket]
  /\ instructions \in [Packets -> Routes]
  /\ cleared = [k \in Packets |-> 0]
  /\ member_semaphores = [m \in Members |-> IF m[2] = 0 THEN 1 ELSE 0]
  /\ new_available_station = [t \in Teams |-> 0]
  /\ conveyor_lock = 1
  /\ blockedTeamSemaphore = 1
  /\ blockedTeam = [flag |-> 0, teamIndex |-> NoTeam]
  /\ waitingTeams = 0
  /\ pc = [m \in Members |-> "tag"]
  /\ pkt = [m \in Members |-> NoPacket]
  /\ blockedTimes = [m \in Members |-> 0]
  /\ turn = [m \in Members |-> 1]

\* sem_wait on the member's semaphore.
AwaitTag(m) ==
  /\ pc[m] = "tag"
  /\ member_semaphores[m] > 0
  /\ member_semaphores' = [member_semaphores EXCEPT ![m] = @ - 1]
  /\ GoTo(m, "grab")
  /\ UNCHANGED <<line, new_available_station, locks, fairness, pkt, turn>>

\* Mutant: the queue is served from its end.
GrabLast(m) ==
  /\ pc[m] = "grab"
  /\ packet_queue # <<>>
  /\ pkt' = [pkt EXCEPT ![m] = packet_queue[Len(packet_queue)]]
  /\ packet_queue' = SubSeq(packet_queue, 1, Len(packet_queue) - 1)
  /\ GoTo(m, "reserve")
  /\ UNCHANGED <<g_stations, instructions, cleared, member_semaphores,
                 new_available_station, locks, fairness, turn>>

Grab(m) ==
  /\ pc[m] = "grab"
  /\ packet_queue # <<>>
  /\ pkt' = [pkt EXCEPT ![m] = Head(packet_queue)]
  /\ packet_queue' = Tail(packet_queue)
  /\ GoTo(m, "reserve")
  /\ UNCHANGED <<g_stations, instructions, cleared, member_semaphores,
                 new_available_station, locks, fairness, turn>>

\* No more packets: pass the tag on and return.
GiveUp(m) ==
  /\ pc[m] = "grab"
  /\ packet_queue = <<>>
  /\ PassTag(m)
  /\ GoTo(m, "done")
  /\ UNCHANGED <<line, new_available_station, locks, fairness, pkt, turn>>

-----------------------------------------------------------------------------
(* Waiting for the stations. *)

\* Mutant: |= for &= at line 206.
SomeAvailable(k) == \E s \in StationsOf(k) : g_stations[s] = NoPacket

AllAvailable(k) == \A s \in StationsOf(k) : g_stations[s] = NoPacket

\* reserveStations returns 1: every station on the list is taken at once.
Reserve(m) ==
  /\ pc[m] = "reserve"
  /\ conveyor_lock = 1
  /\ AllAvailable(pkt[m])
  /\ g_stations' = [s \in Stations |-> IF s \in StationsOf(pkt[m])
                                       THEN pkt[m] ELSE g_stations[s]]
  /\ GoTo(m, "claim")
  /\ UNCHANGED <<packet_queue, instructions, cleared, member_semaphores,
                 new_available_station, locks, fairness, pkt, turn>>

ReserveFails(m) ==
  /\ pc[m] = "reserve"
  /\ conveyor_lock = 1
  /\ ~AllAvailable(pkt[m])
  /\ GoTo(m, "blocked")
  /\ UNCHANGED <<line, member_semaphores, new_available_station, locks,
                 fairness, pkt, turn>>

\* Under blockedTeamSemaphore: the first team to fail BLOCKED_LIMIT times
\* becomes the blocked team.
Blocked(m) ==
  /\ pc[m] = "blocked"
  /\ blockedTeamSemaphore = 1
  /\ blockedTimes' = [blockedTimes EXCEPT ![m] = CountUpTo(BLOCKED_LIMIT, @)]
  /\ waitingTeams' = CountUpTo(NUM_TEAMS, waitingTeams)
  /\ blockedTeam' = IF blockedTimes'[m] >= BLOCKED_LIMIT /\ blockedTeam.flag = 0
                    THEN [flag |-> 1, teamIndex |-> TeamOf(m)]
                    ELSE blockedTeam
  /\ GoTo(m, "peek")
  /\ UNCHANGED <<line, member_semaphores, new_available_station, locks, pkt,
                 turn>>

\* sem_getvalue; waitingTeams is not read unless the value is 0.
Peek(m) ==
  /\ pc[m] = "peek"
  /\ IF new_available_station[OtherTeam(m)] = 0
     THEN GoTo(m, "weigh") /\ UNCHANGED turn
     ELSE NextTurn(m, "peek", "sleep")
  /\ UNCHANGED <<line, member_semaphores, new_available_station, locks,
                 fairness, pkt>>

\* Mutant: the test of waitingTeams dropped from line 111.
WeighNothing(m) ==
  /\ pc[m] = "weigh"
  /\ GoTo(m, "signal")
  /\ UNCHANGED <<line, member_semaphores, new_available_station, locks,
                 fairness, pkt, turn>>

\* Reads waitingTeams, with no lock held.
Weigh(m) ==
  /\ pc[m] = "weigh"
  /\ IF waitingTeams < NUM_TEAMS
     THEN GoTo(m, "signal") /\ UNCHANGED turn
     ELSE NextTurn(m, "peek", "sleep")
  /\ UNCHANGED <<line, member_semaphores, new_available_station, locks,
                 fairness, pkt>>

SignalOther(m) ==
  /\ pc[m] = "signal"
  /\ Signal(OtherTeam(m))
  /\ NextTurn(m, "peek", "sleep")
  /\ UNCHANGED <<line, member_semaphores, locks, fairness, pkt>>

Sleep(m) ==
  /\ pc[m] = "sleep"
  /\ new_available_station[TeamOf(m)] > 0
  /\ new_available_station' = [new_available_station EXCEPT ![TeamOf(m)] = @ - 1]
  /\ GoTo(m, "reserve")
  /\ UNCHANGED <<line, member_semaphores, locks, fairness, pkt, turn>>

\* Mutant: line 121 dropped, the flag is never reset.
ClaimFlagKept(m) ==
  /\ pc[m] = "claim"
  /\ blockedTeamSemaphore = 1
  /\ waitingTeams' = 0
  /\ GoTo(m, "leave")
  /\ UNCHANGED <<line, member_semaphores, new_available_station, locks,
                 blockedTeam, blockedTimes, pkt, turn>>

\* Under blockedTeamSemaphore: whoever succeeds resets the fairness variables,
\* its own blockedTimes excepted.
Claim(m) ==
  /\ pc[m] = "claim"
  /\ blockedTeamSemaphore = 1
  /\ waitingTeams' = 0
  /\ blockedTeam' = [flag |-> 0, teamIndex |-> NoTeam]
  /\ GoTo(m, "leave")
  /\ UNCHANGED <<line, member_semaphores, new_available_station, locks,
                 blockedTimes, pkt, turn>>

-----------------------------------------------------------------------------
(* process: leave a station, work at the next. *)

\* The first call of process has no station to leave.
EnterLine(m) ==
  /\ pc[m] = "leave"
  /\ conveyor_lock = 1
  /\ cleared[pkt[m]] = 0
  /\ GoTo(m, Arrived(m))
  /\ UNCHANGED <<line, member_semaphores, new_available_station, locks,
                 fairness, pkt, turn>>

\* The station of the instruction last cleared is free; the conveyor is locked.
LeaveStation(m) ==
  /\ pc[m] = "leave"
  /\ conveyor_lock = 1
  /\ cleared[pkt[m]] > 0
  /\ conveyor_lock' = 0
  /\ LET station == instructions[pkt[m]][cleared[pkt[m]]]
     IN  g_stations' = [g_stations EXCEPT ![station] = NoPacket]
  /\ GoTo(m, "alert")
  /\ UNCHANGED <<packet_queue, instructions, cleared, member_semaphores,
                 new_available_station, blockedTeamSemaphore, fairness, pkt,
                 turn>>

\* Mutant: the signal goes to the team that leaves.
AlertOwnTeam(m) ==
  /\ pc[m] = "alert"
  /\ blockedTeamSemaphore = 1
  /\ blockedTeam.flag = 1
  /\ Signal(TeamOf(m))
  /\ conveyor_lock' = 1
  /\ GoTo(m, Arrived(m))
  /\ UNCHANGED <<line, member_semaphores, blockedTeamSemaphore, fairness, pkt,
                 turn>>

\* There is a blocked team: only that team is signalled.
AlertBlockedTeam(m) ==
  /\ pc[m] = "alert"
  /\ blockedTeamSemaphore = 1
  /\ blockedTeam.flag = 1
  /\ Signal(blockedTeam.teamIndex)
  /\ conveyor_lock' = 1
  /\ GoTo(m, Arrived(m))
  /\ UNCHANGED <<line, member_semaphores, blockedTeamSemaphore, fairness, pkt,
                 turn>>

\* There is none: blockedTeamSemaphore is kept while all others are signalled.
AlertAll(m) ==
  /\ pc[m] = "alert"
  /\ blockedTeamSemaphore = 1
  /\ blockedTeam.flag = 0
  /\ blockedTeamSemaphore' = 0
  /\ GoTo(m, "announce")
  /\ UNCHANGED <<line, member_semaphores, new_available_station, conveyor_lock,
                 fairness, pkt, turn>>

\* Mutant: the index of the loop left out, so that one's own team is signalled.
AnnounceOwnTeam(m) ==
  /\ pc[m] = "announce"
  /\ Signal(TeamOf(m))
  /\ NextTurn(m, "announce", Arrived(m))
  /\ IF turn[m] + 1 < NUM_TEAMS
     THEN UNCHANGED locks
     ELSE conveyor_lock' = 1 /\ blockedTeamSemaphore' = 1
  /\ UNCHANGED <<line, member_semaphores, fairness, pkt>>

\* One signal of the loop; the last one releases both locks.
Announce(m) ==
  /\ pc[m] = "announce"
  /\ Signal(OtherTeam(m))
  /\ NextTurn(m, "announce", Arrived(m))
  /\ IF turn[m] + 1 < NUM_TEAMS
     THEN UNCHANGED locks
     ELSE conveyor_lock' = 1 /\ blockedTeamSemaphore' = 1
  /\ UNCHANGED <<line, member_semaphores, fairness, pkt>>

\* The sleep at the station, then fetchNextInstruction.
Work(m) ==
  /\ pc[m] = "work"
  /\ cleared' = [cleared EXCEPT ![pkt[m]] = @ + 1]
  /\ GoTo(m, "leave")
  /\ UNCHANGED <<packet_queue, g_stations, instructions, member_semaphores,
                 new_available_station, locks, fairness, pkt, turn>>

\* The packet is on the truck: free it and pass the tag on.
Ship(m) ==
  /\ pc[m] = "ship"
  /\ pkt' = [pkt EXCEPT ![m] = NoPacket]
  /\ PassTag(m)
  /\ GoTo(m, "tag")
  /\ UNCHANGED <<line, new_available_station, locks, fairness, turn>>

-----------------------------------------------------------------------------
Step(m) ==
  \/ AwaitTag(m) \/ Grab(m) \/ GiveUp(m)
  \/ Reserve(m) \/ ReserveFails(m) \/ Blocked(m)
  \/ Peek(m) \/ Weigh(m) \/ SignalOther(m) \/ Sleep(m) \/ Claim(m)
  \/ EnterLine(m) \/ LeaveStation(m) \/ AlertBlockedTeam(m) \/ AlertAll(m)
  \/ Announce(m) \/ Work(m) \/ Ship(m)

AllReturned == \A m \in Members : pc[m] = "done"

\* main has joined every member and the program has stopped.
Stopped == AllReturned /\ UNCHANGED vars

Next == Stopped \/ \E m \in Members : Step(m)

Spec == Init /\ [][Next]_vars

\* Every thread that can run does, and a semaphore it can take is given to it.
Fairness == \A m \in Members : WF_vars(Step(m))

FairSpec == Spec /\ Fairness
-----------------------------------------------------------------------------
(* What must hold. *)

Active(m) == pc[m] \notin {"tag", "done"}

\* Every team has one tag, and it is never lost: one member of the team works,
\* or one member's semaphore will let that member work, and never both.
HasTag(m) == Active(m) \/ member_semaphores[m] = 1

OneTagPerTeam ==
  \A t \in Teams :
    /\ \E m \in Members : TeamOf(m) = t /\ HasTag(m)
    /\ \A m, n \in Members :
         TeamOf(m) = t /\ TeamOf(n) = t /\ HasTag(m) /\ HasTag(n) => m = n
    /\ \A m \in Members :
         TeamOf(m) = t /\ Active(m) => member_semaphores[m] = 0

\* The first instruction whose station has not been left: between its work and
\* leaveStation a packet is still at the station of the instruction cleared.
FirstKept(m) ==
  IF pc[m] = "leave" /\ cleared[pkt[m]] > 0
  THEN cleared[pkt[m]]
  ELSE cleared[pkt[m]] + 1

\* The stations a member that has reserved its list still needs.
Kept(m) ==
  {instructions[pkt[m]][n] : n \in FirstKept(m) .. Len(instructions[pkt[m]])}

\* A station is taken exactly by the packet of the member that has reserved it
\* and has not left it yet, so no two packets are ever at one station.
StationExclusion ==
  /\ \A m \in Members : pc[m] \in Holding =>
       \A s \in Kept(m) : g_stations[s] = pkt[m]
  /\ \A s \in Stations : g_stations[s] # NoPacket =>
       \E m \in Members :
         pc[m] \in Holding /\ s \in Kept(m) /\ g_stations[s] = pkt[m]
  /\ \A m, n \in Members : pkt[m] = pkt[n] /\ pkt[m] # NoPacket => m = n

\* leaveStation signals the blocked team and nobody else: while there is one,
\* it is a team (not the index -1) with a member that waits for its stations
\* or has just reserved them, so that signal is not wasted on a team that left.
BlockedTeamIsBlocked ==
  blockedTeam.flag = 1 =>
    \E m \in Members : /\ TeamOf(m) = blockedTeam.teamIndex
                       /\ pc[m] \in Looping \cup {"claim"}
                       /\ blockedTimes[m] >= BLOCKED_LIMIT

\* A member of the loop that will try again without another signal.
WillTry(m) ==
  pc[m] \in Looping
    /\ (pc[m] = "reserve" \/ new_available_station[TeamOf(m)] > 0)

\* No lost wakeup: when every station is free and nobody is about to signal
\* that, some waiting team will try again.  All teams asleep in front of a free
\* line is the deadlock that signalling one team only could lead to.
NoTeamForgotten ==
  /\ \A s \in Stations : g_stations[s] = NoPacket
  /\ \A m \in Members : pc[m] \notin {"alert", "announce"}
  /\ \E m \in Members : pc[m] \in Looping
  => \E m \in Members : WillTry(m)

\* The packages handled as in Shipping.
ActiveMember(t) == CHOOSE m \in Members : TeamOf(m) = t /\ Active(m)

heldByTeam ==
  [t \in Teams |-> IF \E m \in Members : TeamOf(m) = t /\ Active(m)
                   THEN pkt[ActiveMember(t)] ELSE NoPacket]

Line == INSTANCE Shipping WITH
  waiting  <- packet_queue,
  held     <- heldByTeam,
  reserved <- g_stations

ImplementsShipping == Line!Spec

\* No deadlock and no starvation: every package is shipped and every member
\* returns.
AllPackagesShipped ==
  <>[](AllReturned /\ \A k \in Packets : cleared[k] = Len(instructions[k]))

\* "waitingTeams used to ensure no busy waiting occurs while teams wait"
\* (problem2_explanation.txt:5): even if nobody ever leaves a station, teams do
\* not keep waking each other up to fail again.
NoBusyWaiting == <>[][\A m \in Members : ~ReserveFails(m)]_vars

\* "blockedTeam is the team that ... has priority to go first as soon as enough
\* spots clear up for it" (problem2_explanation.txt:4): once all its stations
\* are free, no other team takes one of them.
BlockedTeamGoesFirst ==
  [][\A m, n \in Members :
       /\ Reserve(m)
       /\ blockedTeam.flag = 1
       /\ TeamOf(n) = blockedTeam.teamIndex
       /\ pc[n] \in Looping
       /\ AllAvailable(pkt[n])
       /\ TeamOf(m) # TeamOf(n)
       => StationsOf(pkt[m]) \cap StationsOf(pkt[n]) = {}]_vars
=============================================================================

---------------------------- MODULE FedOopsProofs ---------------------------
(***************************************************************************)
(* Proofs about FedOops, for every number of teams, members, packets and   *)
(* stations: type correctness, one tag per team, exclusive stations, the   *)
(* blocked team is blocked, no team is forgotten, and the members          *)
(* implement Shipping.                                                     *)
(***************************************************************************)
EXTENDS FedOops, TLAPS

\* A member has a packet from the moment it takes one until it has shipped it.
PacketInHand ==
  \A m \in Members : pkt[m] # NoPacket <=> pc[m] \in Looping \cup Holding

\* A packet is in the queue or in the hands of one member at most.
PacketsOnce ==
  /\ \A m, n \in Members : pkt[m] = pkt[n] /\ pkt[m] # NoPacket => m = n
  /\ \A i, j \in 1 .. Len(packet_queue) :
       i < j => packet_queue[i] < packet_queue[j]
  /\ \A i \in 1 .. Len(packet_queue) :
       /\ cleared[packet_queue[i]] = 0
       /\ \A m \in Members : pkt[m] # packet_queue[i]

\* How much of its list a member has done, by where it is.
ListProgress ==
  \A m \in Members :
    /\ pc[m] \in Looping \cup {"claim"} => cleared[pkt[m]] = 0
    /\ pc[m] = "work" => cleared[pkt[m]] < Len(instructions[pkt[m]])
    /\ pc[m] = "ship" => cleared[pkt[m]] = Len(instructions[pkt[m]])

\* Who has the two locks that leaveStation keeps across other calls.
LocksHeld ==
  /\ \A m, n \in Members :
       pc[m] \in {"alert", "announce"} /\ pc[n] \in {"alert", "announce"} => m = n
  /\ \A m \in Members : pc[m] \in {"alert", "announce"} => conveyor_lock = 0
  /\ \A m \in Members : pc[m] = "announce" => blockedTeamSemaphore = 0
  /\ conveyor_lock = 0 => \E m \in Members : pc[m] \in {"alert", "announce"}
  /\ blockedTeamSemaphore = 0 => \E m \in Members : pc[m] = "announce"

\* A loop over the other teams begins with the first of them.
LoopsBegin ==
  \A m \in Members :
    pc[m] \notin {"peek", "weigh", "signal", "announce"} => turn[m] = 1

\* A team that an announcing member has already signalled, and that waits,
\* will try again: nothing can have failed since, the conveyor being locked.
AnnouncedWillTry ==
  \A x, m \in Members :
    /\ pc[x] = "announce" /\ pc[m] \in Looping
    /\ \E i \in 1 .. turn[x] - 1 : TeamOf(m) = (TeamOf(x) + i) % NUM_TEAMS
    => WillTry(m)

\* NoTeamForgotten needs the rest: a signal may be the last one for a free
\* line, so whom it goes to, and that it is not used up, depends on the locks,
\* on the tags and on who holds the stations.
IInv ==
  /\ TypeOK
  /\ OneTagPerTeam
  /\ PacketInHand
  /\ PacketsOnce
  /\ ListProgress
  /\ StationExclusion
  /\ LocksHeld
  /\ LoopsBegin
  /\ BlockedTeamIsBlocked
  /\ AnnouncedWillTry
  /\ NoTeamForgotten

-----------------------------------------------------------------------------
(* Facts about the operators of the model. *)

LEMMA MemberTeam ==
  ASSUME NEW m \in Members
  PROVE  /\ TeamOf(m) \in Teams
         /\ NextMember(m) \in Members
         /\ TeamOf(NextMember(m)) = TeamOf(m)
  <1>1. m[1] \in Teams /\ m[2] \in 0 .. TEAM_SIZE - 1 /\ TEAM_SIZE \in Nat \ {0}
    BY SizesAssumption DEF Members
  <1>2. (m[2] + 1) % TEAM_SIZE \in 0 .. TEAM_SIZE - 1
    BY <1>1
  <1> QED  BY <1>1, <1>2 DEF Members, TeamOf, NextMember

\* The remainders a loop over the other teams meets.
LEMMA Remainder ==
  ASSUME NEW n \in Nat \ {0}, NEW k \in 0 .. 2 * n - 1
  PROVE  k % n = IF k < n THEN k ELSE k - n
  OBVIOUS

LEMMA OtherTeamType ==
  ASSUME TypeOK, NEW m \in Members
  PROVE  OtherTeam(m) \in Teams
  <1>1. TeamOf(m) \in 0 .. NUM_TEAMS - 1 /\ turn[m] \in 1 .. NUM_TEAMS - 1
    BY MemberTeam DEF TypeOK, Teams
  <1> QED  BY <1>1, SizesAssumption DEF OtherTeam, Teams

\* The loop over the other teams reaches every one of them.
LEMMA OtherTeamsReached ==
  ASSUME NEW s \in Teams, NEW t \in Teams, s # t
  PROVE  \E i \in 1 .. NUM_TEAMS - 1 : t = (s + i) % NUM_TEAMS
  <1>. DEFINE i == IF s < t THEN t - s ELSE t - s + NUM_TEAMS
  <1>1. i \in 1 .. NUM_TEAMS - 1 /\ s + i \in 0 .. 2 * NUM_TEAMS - 1
        /\ NUM_TEAMS \in Nat \ {0}
    BY SizesAssumption DEF Teams
  <1>2. t = (s + i) % NUM_TEAMS
    BY <1>1, Remainder, SizesAssumption DEF Teams
  <1> QED  BY <1>1, <1>2

LEMMA ArrivedWhere == \A m \in Members : Arrived(m) \in {"work", "ship"}
  BY DEF Arrived

\* A step of a member changes the location of nobody else.
LEMMA GoToWhere ==
  ASSUME TypeOK, NEW m \in Members, NEW l \in Locations, GoTo(m, l)
  PROVE  /\ pc' \in [Members -> Locations]
         /\ pc'[m] = l
         /\ \A n \in Members : n # m => pc'[n] = pc[n]
  BY DEF GoTo, TypeOK

\* The moves of a member that leave its packet, its stations and its tag alone.
Quiet(m) ==
  /\ UNCHANGED <<line, pkt, member_semaphores>>
  /\ \E l \in Locations :
       /\ GoTo(m, l)
       /\ \/ pc[m] \in Looping /\ l \in Looping
          \/ pc[m] = "claim" /\ l = "leave"
          \/ pc[m] = "leave" /\ cleared[pkt[m]] = 0 /\ l = Arrived(m)
          \/ pc[m] \in {"alert", "announce"} /\ l \in {"announce", Arrived(m)}

LEMMA NextTurnWhere ==
  ASSUME TypeOK, NEW m \in Members, NEW again, NEW after,
         NextTurn(m, again, after)
  PROVE  /\ turn' \in [Members -> 1 .. NUM_TEAMS - 1]
         /\ \A n \in Members : n # m => turn'[n] = turn[n]
         /\ \/ GoTo(m, again) /\ turn'[m] = turn[m] + 1 /\ turn[m] + 1 < NUM_TEAMS
            \/ GoTo(m, after) /\ turn'[m] = 1 /\ turn[m] + 1 = NUM_TEAMS
  <1>1. turn \in [Members -> 1 .. NUM_TEAMS - 1] /\ NUM_TEAMS \in Nat
    BY SizesAssumption DEF TypeOK
  <1>2. CASE turn[m] + 1 < NUM_TEAMS
    <2>1. turn' = [turn EXCEPT ![m] = @ + 1] /\ GoTo(m, again)
      BY <1>2 DEF NextTurn
    <2> QED  BY <1>1, <1>2, <2>1
  <1>3. CASE ~(turn[m] + 1 < NUM_TEAMS)
    <2>1. turn' = [turn EXCEPT ![m] = 1] /\ GoTo(m, after)
      BY <1>3 DEF NextTurn
    <2> QED  BY <1>1, <1>3, <2>1
  <1> QED  BY <1>2, <1>3

LEMMA QuietSteps ==
  ASSUME TypeOK, NEW m \in Members,
         \/ ReserveFails(m) \/ Blocked(m) \/ Peek(m) \/ Weigh(m)
         \/ SignalOther(m) \/ Sleep(m) \/ Claim(m) \/ EnterLine(m)
         \/ AlertBlockedTeam(m) \/ AlertAll(m) \/ Announce(m)
  PROVE  Quiet(m)
  <1>. USE DEF Looping, Locations
  <1>1. Arrived(m) \in Locations
    BY ArrivedWhere
  <1>2. CASE ReserveFails(m) \/ Blocked(m) \/ Sleep(m)
    BY <1>2 DEF Quiet, ReserveFails, Blocked, Sleep, line
  <1>3. CASE Peek(m) \/ Weigh(m) \/ SignalOther(m)
    <2>1. (\E l \in {"peek", "weigh", "signal", "sleep"} : GoTo(m, l))
          /\ pc[m] \in {"peek", "weigh", "signal"}
      BY <1>3, NextTurnWhere DEF Peek, Weigh, SignalOther
    <2>2. UNCHANGED <<line, pkt, member_semaphores>>
      BY <1>3 DEF Peek, Weigh, SignalOther
    <2> QED  BY <2>1, <2>2 DEF Quiet
  <1>4. CASE Claim(m)
    BY <1>4 DEF Quiet, Claim
  <1>5. CASE EnterLine(m)
    BY <1>1, <1>5 DEF Quiet, EnterLine
  <1>6. CASE AlertBlockedTeam(m) \/ AlertAll(m)
    BY <1>1, <1>6 DEF Quiet, AlertBlockedTeam, AlertAll
  <1>7. CASE Announce(m)
    <2>1. \E l \in {"announce", Arrived(m)} : GoTo(m, l)
      BY <1>7, NextTurnWhere DEF Announce
    <2> QED  BY <1>1, <1>7, <2>1 DEF Quiet, Announce
  <1> QED  BY <1>2, <1>3, <1>4, <1>5, <1>6, <1>7
-----------------------------------------------------------------------------
(* Tags. *)

LEMMA TagType ==
  ASSUME IInv, NEW m \in Members, Active(m)
  PROVE  /\ \A n \in Members : TeamOf(n) = TeamOf(m) =>
              member_semaphores[n] = 0 /\ (Active(n) => n = m)
  <1>1. TeamOf(m) \in Teams
    BY MemberTeam
  <1>2. \A n \in Members : member_semaphores[n] \in {0, 1}
    BY DEF IInv, TypeOK
  <1>3. /\ member_semaphores[m] = 0
        /\ \A n \in Members : TeamOf(n) = TeamOf(m) /\ HasTag(n) => n = m
    BY <1>1 DEF IInv, OneTagPerTeam, HasTag
  <1> QED  BY <1>2, <1>3 DEF HasTag

\* Passing the tag on: the next member had none.
LEMMA PassTagKeepsOne ==
  ASSUME IInv, NEW m \in Members, Active(m), PassTag(m),
         NEW l \in {"tag", "done"}, GoTo(m, l)
  PROVE  /\ member_semaphores' \in [Members -> {0, 1}]
         /\ OneTagPerTeam'
  <1>. DEFINE n == NextMember(m)
  <1>1. n \in Members /\ TeamOf(n) = TeamOf(m) /\ member_semaphores[n] = 0
    BY MemberTeam, TagType
  <1>2. /\ member_semaphores' \in [Members -> {0, 1}]
        /\ member_semaphores'[n] = 1
        /\ \A q \in Members : q # n => member_semaphores'[q] = member_semaphores[q]
    BY <1>1 DEF PassTag, IInv, TypeOK
  <1>3. /\ pc'[m] = l /\ \A q \in Members : q # m => pc'[q] = pc[q]
    BY GoToWhere DEF IInv, Locations
  <1>4. \A q \in Members : TeamOf(q) = TeamOf(m) => ~Active(q)' /\ (HasTag(q)' <=> q = n)
    BY <1>1, <1>2, <1>3, TagType DEF HasTag, Active
  <1>5. \A q \in Members : TeamOf(q) # TeamOf(m) =>
          /\ Active(q)' <=> Active(q)
          /\ HasTag(q)' <=> HasTag(q)
          /\ member_semaphores'[q] = member_semaphores[q]
    BY <1>1, <1>2, <1>3 DEF HasTag, Active
  <1>. HIDE DEF n
  <1>6. OneTagPerTeam'
    <2>. SUFFICES ASSUME NEW t \in Teams
         PROVE  /\ \E q \in Members : TeamOf(q) = t /\ HasTag(q)'
                /\ \A q, r \in Members :
                     TeamOf(q) = t /\ TeamOf(r) = t /\ HasTag(q)' /\ HasTag(r)' => q = r
                /\ \A q \in Members :
                     TeamOf(q) = t /\ Active(q)' => member_semaphores'[q] = 0
      BY DEF OneTagPerTeam, TeamOf
    <2>1. CASE t = TeamOf(m)  BY <1>1, <1>4, <2>1
    <2>2. CASE t # TeamOf(m)  BY <1>5, <2>2 DEF IInv, OneTagPerTeam
    <2> QED  BY <2>1, <2>2
  <1> QED  BY <1>2, <1>6

\* A step that passes no tag and in which nobody starts or stops to work.
LEMMA TagsKept ==
  ASSUME IInv, NEW m \in Members, NEW l \in Locations \ {"tag", "done"},
         Active(m), GoTo(m, l), UNCHANGED member_semaphores
  PROVE  OneTagPerTeam'
  <1>1. pc'[m] = l /\ \A q \in Members : q # m => pc'[q] = pc[q]
    BY GoToWhere DEF IInv
  <1>2. \A q \in Members : Active(q)' <=> Active(q)
    BY <1>1 DEF Active
  <1>3. \A q \in Members : HasTag(q)' <=> HasTag(q)
    BY <1>2 DEF HasTag
  <1> QED  BY <1>2, <1>3 DEF IInv, OneTagPerTeam, TeamOf

LEMMA AwaitTagKeepsOne ==
  ASSUME IInv, NEW m \in Members, AwaitTag(m)
  PROVE  /\ member_semaphores' \in [Members -> {0, 1}]
         /\ OneTagPerTeam'
  <1>1. /\ member_semaphores' \in [Members -> {0, 1}]
        /\ member_semaphores[m] = 1 /\ member_semaphores'[m] = 0
        /\ \A q \in Members : q # m => member_semaphores'[q] = member_semaphores[q]
    BY DEF AwaitTag, IInv, TypeOK
  <1>2. pc'[m] = "grab" /\ \A q \in Members : q # m => pc'[q] = pc[q]
    BY GoToWhere DEF AwaitTag, IInv, Locations
  <1>3. \A q \in Members : HasTag(q)' <=> HasTag(q)
    BY <1>1, <1>2 DEF HasTag, Active
  <1>4. \A q \in Members : Active(q)' => member_semaphores'[q] = 0
    BY <1>1, <1>2, MemberTeam DEF Active, IInv, OneTagPerTeam
  <1> QED  BY <1>1, <1>3, <1>4 DEF IInv, OneTagPerTeam, TeamOf
-----------------------------------------------------------------------------
(* Packets, lists and stations. *)

LineInv == PacketInHand /\ PacketsOnce /\ ListProgress /\ StationExclusion

\* What is known of the packet of a member that has one.
LEMMA PacketType ==
  ASSUME IInv, NEW m \in Members, pc[m] \in Looping \cup Holding
  PROVE  /\ pkt[m] \in Packets /\ pkt[m] # NoPacket
         /\ cleared[pkt[m]] \in Nat
         /\ instructions[pkt[m]] \in Seq(Stations)
         /\ Len(instructions[pkt[m]]) \in Nat
         /\ cleared[pkt[m]] <= Len(instructions[pkt[m]])
         /\ \A i, j \in 1 .. Len(instructions[pkt[m]]) :
              i # j => instructions[pkt[m]][i] # instructions[pkt[m]][j]
  <1>1. pkt[m] \in Packets /\ pkt[m] # NoPacket
    BY DEF IInv, TypeOK, PacketInHand
  <1>2. instructions[pkt[m]] \in Routes /\ cleared[pkt[m]] \in Nat
        /\ cleared[pkt[m]] <= Len(instructions[pkt[m]])
    BY <1>1 DEF IInv, TypeOK
  <1> QED  BY <1>1, <1>2, RoutesAssumption

LEMMA KeptStations ==
  ASSUME IInv, NEW n \in Members, pc[n] \in Holding
  PROVE  Kept(n) \subseteq Stations
  <1>1. /\ instructions[pkt[n]] \in Seq(Stations)
        /\ cleared[pkt[n]] \in Nat /\ Len(instructions[pkt[n]]) \in Nat
    BY PacketType
  <1>2. FirstKept(n) \in Nat \ {0}
    BY <1>1 DEF FirstKept
  <1> QED  BY <1>1, <1>2 DEF Kept

LEMMA KeptSame ==
  ASSUME NEW n \in Members, pkt'[n] = pkt[n], instructions' = instructions,
         cleared'[pkt[n]] = cleared[pkt[n]],
         pc'[n] = "leave" /\ cleared[pkt[n]] > 0
           <=> pc[n] = "leave" /\ cleared[pkt[n]] > 0
  PROVE  Kept(n)' = Kept(n)
  BY DEF Kept, FirstKept

\* A step that leaves the line alone, in which a member comes to a place that
\* is like the one it leaves.
LEMMA LineKept ==
  ASSUME IInv, NEW m \in Members, NEW l \in Locations, GoTo(m, l),
         UNCHANGED <<line, pkt>>,
         l \in Looping \cup Holding <=> pc[m] \in Looping \cup Holding,
         l \in Holding <=> pc[m] \in Holding,
         l = "leave" /\ cleared[pkt[m]] > 0
           <=> pc[m] = "leave" /\ cleared[pkt[m]] > 0,
         l = "claim" => pc[m] = "claim",
         l = "work" => cleared[pkt[m]] < Len(instructions[pkt[m]]),
         l = "ship" => cleared[pkt[m]] = Len(instructions[pkt[m]])
  PROVE  LineInv'
  <1>1. pc'[m] = l /\ \A n \in Members : n # m => pc'[n] = pc[n]
    BY GoToWhere DEF IInv
  <1>2. UNCHANGED <<packet_queue, g_stations, instructions, cleared, pkt>>
    BY DEF line
  <1>3. \A n \in Members : Kept(n)' = Kept(n)
    BY <1>1, <1>2, KeptSame
  <1>4. \A n \in Members :
          /\ pc'[n] \in Holding <=> pc[n] \in Holding
          /\ pc'[n] \in Looping \cup Holding <=> pc[n] \in Looping \cup Holding
    BY <1>1
  <1>5. PacketInHand' /\ PacketsOnce'
    BY <1>2, <1>4 DEF IInv, PacketInHand, PacketsOnce
  <1>6. ListProgress'
    <2>1. \A n \in Members : pc'[n] \in Looping \cup {"claim"} =>
            pc[n] \in Looping \cup {"claim"}
      BY <1>1 DEF Looping, Holding
    <2> QED  BY <1>1, <1>2, <2>1 DEF IInv, ListProgress
  <1>7. StationExclusion'
    BY <1>2, <1>3, <1>4 DEF IInv, StationExclusion
  <1> QED  BY <1>5, <1>6, <1>7 DEF LineInv

LEMMA QuietLine ==
  ASSUME IInv, NEW m \in Members, Quiet(m)
  PROVE  LineInv'
  <1>1. PICK l \in Locations :
          /\ GoTo(m, l)
          /\ \/ pc[m] \in Looping /\ l \in Looping
             \/ pc[m] = "claim" /\ l = "leave"
             \/ pc[m] = "leave" /\ cleared[pkt[m]] = 0 /\ l = Arrived(m)
             \/ pc[m] \in {"alert", "announce"} /\ l \in {"announce", Arrived(m)}
    BY DEF Quiet
  <1>2. UNCHANGED <<line, pkt>>
    BY DEF Quiet
  <1>3. CASE pc[m] \in Looping /\ l \in Looping
    BY <1>1, <1>2, <1>3, LineKept DEF Looping, Holding
  <1>4. CASE pc[m] = "claim" /\ l = "leave"
    <2>1. cleared[pkt[m]] = 0
      BY <1>4 DEF IInv, ListProgress
    <2> QED  BY <1>1, <1>2, <1>4, <2>1, LineKept DEF Looping, Holding
  <1>5. CASE /\ pc[m] \in {"leave", "alert", "announce"}
             /\ pc[m] = "leave" => cleared[pkt[m]] = 0
             /\ l \in {"announce", Arrived(m)}
    <2>1. /\ cleared[pkt[m]] \in Nat /\ Len(instructions[pkt[m]]) \in Nat
          /\ cleared[pkt[m]] <= Len(instructions[pkt[m]])
      BY <1>5, PacketType DEF Holding
    <2>2. /\ l \in {"announce", "work", "ship"}
          /\ l = "work" => cleared[pkt[m]] < Len(instructions[pkt[m]])
          /\ l = "ship" => cleared[pkt[m]] = Len(instructions[pkt[m]])
      BY <1>5, <2>1 DEF Arrived
    <2> QED  BY <1>1, <1>2, <1>5, <2>1, <2>2, LineKept DEF Looping, Holding
  <1> QED  BY <1>1, <1>3, <1>4, <1>5

LEMMA AwaitTagLine ==
  ASSUME IInv, NEW m \in Members, AwaitTag(m) PROVE LineInv'
  BY LineKept DEF AwaitTag, Looping, Holding, Locations

LEMMA GiveUpLine ==
  ASSUME IInv, NEW m \in Members, GiveUp(m) PROVE LineInv'
  BY LineKept DEF GiveUp, Looping, Holding, Locations

LEMMA GrabLine ==
  ASSUME IInv, NEW m \in Members, Grab(m) PROVE LineInv'
  <1>. DEFINE k == Head(packet_queue)
  <1>1. /\ packet_queue \in Seq(Packets) /\ packet_queue # <<>>
        /\ Len(packet_queue) \in Nat \ {0}
        /\ k = packet_queue[1] /\ k \in Packets /\ k # NoPacket
        /\ cleared[k] = 0 /\ \A n \in Members : pkt[n] # k
    <2>1. packet_queue \in Seq(Packets) /\ packet_queue # <<>>
      BY DEF Grab, IInv, TypeOK
    <2>2. Len(packet_queue) \in Nat \ {0} /\ k = packet_queue[1] /\ k \in Packets
      BY <2>1
    <2>3. 1 \in 1 .. Len(packet_queue)
      BY <2>2
    <2>4. cleared[packet_queue[1]] = 0 /\ \A n \in Members : pkt[n] # packet_queue[1]
      BY <2>3 DEF IInv, PacketsOnce
    <2>. HIDE DEF k
    <2> QED  BY <2>1, <2>2, <2>4, SizesAssumption
  <1>2. /\ packet_queue' \in Seq(Packets)
        /\ Len(packet_queue') = Len(packet_queue) - 1
        /\ \A i \in 1 .. Len(packet_queue') :
             /\ packet_queue'[i] = packet_queue[i + 1]
             /\ i + 1 \in 1 .. Len(packet_queue)
    BY <1>1 DEF Grab
  <1>3. /\ UNCHANGED <<g_stations, instructions, cleared>>
        /\ pc[m] = "grab" /\ pc'[m] = "reserve"
        /\ \A n \in Members : n # m => pc'[n] = pc[n] /\ pkt'[n] = pkt[n]
        /\ pkt'[m] = k
    <2>1. /\ UNCHANGED <<g_stations, instructions, cleared>>
          /\ pc[m] = "grab" /\ GoTo(m, "reserve")
          /\ pkt' = [pkt EXCEPT ![m] = k]
      BY DEF Grab
    <2>2. pc'[m] = "reserve" /\ \A n \in Members : n # m => pc'[n] = pc[n]
      BY <2>1, GoToWhere DEF IInv, Locations
    <2>3. pkt'[m] = k /\ \A n \in Members : n # m => pkt'[n] = pkt[n]
      <3>1. pkt \in [Members -> Packets \cup {NoPacket}]
        BY DEF IInv, TypeOK
      <3>. HIDE DEF k
      <3> QED  BY <2>1, <3>1
    <2> QED  BY <2>1, <2>2, <2>3
  <1>. HIDE DEF k
  <1>4. PacketInHand'
    BY <1>1, <1>3 DEF IInv, PacketInHand, Looping, Holding
  <1>5. PacketsOnce'
    <2>1. \A n, q \in Members : pkt'[n] = pkt'[q] /\ pkt'[n] # NoPacket => n = q
      BY <1>1, <1>3 DEF IInv, PacketsOnce
    <2>2. \A i, j \in 1 .. Len(packet_queue') :
            i < j => packet_queue'[i] < packet_queue'[j]
      BY <1>1, <1>2 DEF IInv, PacketsOnce
    <2>3. ASSUME NEW i \in 1 .. Len(packet_queue')
          PROVE  /\ cleared'[packet_queue'[i]] = 0
                 /\ \A n \in Members : pkt'[n] # packet_queue'[i]
      <3>1. k < packet_queue[i + 1] /\ packet_queue[i + 1] \in Packets
        BY <1>1, <1>2 DEF IInv, PacketsOnce
      <3>2. k # packet_queue[i + 1]
        BY <1>1, <3>1 DEF Packets
      <3> QED  BY <1>1, <1>2, <1>3, <3>2 DEF IInv, PacketsOnce
    <2> QED  BY <2>1, <2>2, <2>3 DEF PacketsOnce
  <1>6. ListProgress'
    BY <1>1, <1>3 DEF IInv, ListProgress
  <1>7. StationExclusion'
    <2>1. \A n \in Members : n # m => Kept(n)' = Kept(n)
      BY <1>3, KeptSame
    <2>2. \A n, q \in Members : pkt'[n] = pkt'[q] /\ pkt'[n] # NoPacket => n = q
      BY <1>5 DEF PacketsOnce
    <2>3. pc[m] \notin Holding /\ pc'[m] \notin Holding
      BY <1>3 DEF Holding
    <2> QED  BY <1>3, <2>1, <2>2, <2>3 DEF IInv, StationExclusion
  <1> QED  BY <1>4, <1>5, <1>6, <1>7 DEF LineInv

LEMMA ReserveLine ==
  ASSUME IInv, NEW m \in Members, Reserve(m) PROVE LineInv'
  <1>1. /\ UNCHANGED <<packet_queue, instructions, cleared, pkt>>
        /\ pc[m] = "reserve" /\ pc'[m] = "claim"
        /\ \A n \in Members : n # m => pc'[n] = pc[n]
        /\ AllAvailable(pkt[m])
        /\ \A s \in Stations : g_stations'[s] =
             IF s \in StationsOf(pkt[m]) THEN pkt[m] ELSE g_stations[s]
    BY GoToWhere DEF Reserve, IInv, Locations
  <1>2. /\ pkt[m] \in Packets /\ pkt[m] # NoPacket /\ cleared[pkt[m]] = 0
        /\ instructions[pkt[m]] \in Seq(Stations)
        /\ Len(instructions[pkt[m]]) \in Nat \ {0}
    <2>1. instructions[pkt[m]] \in Routes
      BY <1>1, PacketType DEF IInv, TypeOK, Looping
    <2> QED
      BY <1>1, <2>1, PacketType, RoutesAssumption DEF Looping, IInv, ListProgress
  <1>3. \A n \in Members : Kept(n)' = Kept(n)
    BY <1>1, KeptSame
  <1>4. Kept(m) = StationsOf(pkt[m])
    BY <1>1, <1>2 DEF Kept, FirstKept, StationsOf
  <1>5. pc'[m] \in Holding /\ pc[m] \notin Holding /\ pc[m] \in Looping
    BY <1>1 DEF Holding, Looping
  <1>6. PacketInHand' /\ PacketsOnce'
    BY <1>1, <1>5 DEF IInv, PacketInHand, PacketsOnce
  <1>7. ListProgress'
    BY <1>1, <1>2 DEF IInv, ListProgress
  <1>8. StationExclusion'
    <2>1. ASSUME NEW n \in Members, pc'[n] \in Holding, NEW s \in Kept(n)
          PROVE  g_stations'[s] = pkt[n]
      <3>1. CASE n = m
        <4>1. s \in Stations
          BY <1>2, <1>4, <3>1, <2>1 DEF StationsOf
        <4> QED  BY <1>1, <1>4, <2>1, <3>1, <4>1
      <3>2. CASE n # m
        <4>1. pc[n] \in Holding /\ g_stations[s] = pkt[n] /\ pkt[n] # NoPacket
          BY <1>1, <2>1, <3>2, PacketType DEF IInv, StationExclusion
        <4>2. s \in Stations
          BY <2>1, <4>1, KeptStations
        <4> QED  BY <1>1, <4>1, <4>2 DEF AllAvailable
      <3> QED  BY <3>1, <3>2
    <2>2. ASSUME NEW s \in Stations, g_stations'[s] # NoPacket
          PROVE  \E n \in Members : /\ pc'[n] \in Holding /\ s \in Kept(n)
                                   /\ g_stations'[s] = pkt[n]
      <3>1. CASE s \in StationsOf(pkt[m])
        BY <1>1, <1>4, <1>5, <3>1
      <3>2. CASE s \notin StationsOf(pkt[m])
        <4>1. PICK n \in Members : /\ pc[n] \in Holding /\ s \in Kept(n)
                                   /\ g_stations[s] = pkt[n]
          BY <1>1, <2>2, <3>2 DEF IInv, StationExclusion
        <4> QED  BY <1>1, <1>5, <3>2, <4>1
      <3> QED  BY <3>1, <3>2
    <2> QED  BY <1>1, <1>3, <1>6, <2>1, <2>2 DEF StationExclusion, PacketsOnce
  <1> QED  BY <1>6, <1>7, <1>8 DEF LineInv

LEMMA LeaveStationLine ==
  ASSUME IInv, NEW m \in Members, LeaveStation(m) PROVE LineInv'
  <1>. DEFINE k == pkt[m]
              c == cleared[k]
              station == instructions[k][c]
  <1>1. /\ UNCHANGED <<packet_queue, instructions, cleared, pkt>>
        /\ pc[m] = "leave" /\ pc'[m] = "alert"
        /\ \A n \in Members : n # m => pc'[n] = pc[n]
        /\ c > 0
        /\ \A s \in Stations : g_stations'[s] =
             IF s = station THEN NoPacket ELSE g_stations[s]
    BY GoToWhere DEF LeaveStation, IInv, TypeOK, Locations
  <1>2. pc'[m] \in Holding /\ pc[m] \in Holding
    BY <1>1 DEF Holding
  <1>3. /\ k \in Packets /\ k # NoPacket /\ c \in Nat
        /\ c <= Len(instructions[k]) /\ Len(instructions[k]) \in Nat
        /\ instructions[k] \in Seq(Stations)
        /\ \A i, j \in 1 .. Len(instructions[k]) :
             i # j => instructions[k][i] # instructions[k][j]
    BY <1>2, PacketType
  <1>4. station \in Stations /\ c \in 1 .. Len(instructions[k])
    BY <1>1, <1>3
  <1>5. Kept(m)' = Kept(m) \ {station} /\ station \in Kept(m)
    <2>1. Kept(m) = {instructions[k][n] : n \in c .. Len(instructions[k])}
      BY <1>1 DEF Kept, FirstKept
    <2>2. Kept(m)' = {instructions[k][n] : n \in c + 1 .. Len(instructions[k])}
      BY <1>1 DEF Kept, FirstKept
    <2> QED  BY <1>1, <1>3, <1>4, <2>1, <2>2
  <1>6. \A n \in Members : n # m => Kept(n)' = Kept(n)
    BY <1>1, KeptSame
  <1>. HIDE DEF k, c, station
  <1>7. \A n \in Members : pc'[n] \in Holding <=> pc[n] \in Holding
    BY <1>1, <1>2
  <1>8. PacketInHand' /\ PacketsOnce'
    BY <1>1, <1>2 DEF IInv, PacketInHand, PacketsOnce
  <1>9. ListProgress'
    BY <1>1 DEF IInv, ListProgress, Looping
  <1>10. StationExclusion'
    <2>1. g_stations[station] = pkt[m]
      BY <1>2, <1>5 DEF IInv, StationExclusion
    <2>2. ASSUME NEW n \in Members, pc'[n] \in Holding, NEW s \in Kept(n)'
          PROVE  g_stations'[s] = pkt[n]
      <3>1. pc[n] \in Holding /\ s \in Kept(n)
        BY <1>5, <1>6, <1>7, <2>2
      <3>2. g_stations[s] = pkt[n] /\ s \in Stations
        <4>1. g_stations[s] = pkt[n]
          BY <3>1 DEF IInv, StationExclusion
        <4> QED  BY <3>1, <4>1, KeptStations
      <3>3. s # station
        <4>1. CASE n = m  BY <1>5, <2>2, <4>1
        <4>2. CASE n # m
          BY <2>1, <3>2, <4>2, <3>1, PacketType DEF IInv, StationExclusion
        <4> QED  BY <4>1, <4>2
      <3> QED  BY <1>1, <3>2, <3>3
    <2>3. ASSUME NEW s \in Stations, g_stations'[s] # NoPacket
          PROVE  \E n \in Members : /\ pc'[n] \in Holding /\ s \in Kept(n)'
                                   /\ g_stations'[s] = pkt[n]
      <3>1. s # station /\ g_stations'[s] = g_stations[s]
        BY <1>1, <2>3
      <3>2. PICK n \in Members : /\ pc[n] \in Holding /\ s \in Kept(n)
                                 /\ g_stations[s] = pkt[n]
        BY <2>3, <3>1 DEF IInv, StationExclusion
      <3> QED  BY <1>5, <1>6, <1>7, <3>1, <3>2
    <2> QED  BY <1>1, <1>8, <2>2, <2>3 DEF StationExclusion, PacketsOnce
  <1> QED  BY <1>8, <1>9, <1>10 DEF LineInv

LEMMA WorkLine ==
  ASSUME IInv, NEW m \in Members, Work(m) PROVE LineInv'
  <1>1. /\ UNCHANGED <<packet_queue, instructions, g_stations, pkt>>
        /\ pc[m] = "work" /\ pc'[m] = "leave"
        /\ \A n \in Members : n # m => pc'[n] = pc[n]
        /\ cleared' = [cleared EXCEPT ![pkt[m]] = @ + 1]
    BY GoToWhere DEF Work, IInv, Locations
  <1>2. pc'[m] \in Holding /\ pc[m] \in Holding
    BY <1>1 DEF Holding
  <1>3. /\ pkt[m] \in Packets /\ pkt[m] # NoPacket
        /\ cleared[pkt[m]] \in Nat /\ cleared'[pkt[m]] = cleared[pkt[m]] + 1
        /\ \A k \in Packets : k # pkt[m] => cleared'[k] = cleared[k]
    BY <1>1, <1>2, PacketType DEF IInv, TypeOK
  <1>4. \A n \in Members : n # m /\ pc[n] \in Looping \cup Holding =>
          pkt[n] # pkt[m] /\ pkt[n] \in Packets /\ cleared'[pkt[n]] = cleared[pkt[n]]
    BY <1>3, PacketType DEF IInv, PacketsOnce
  <1>5. \A n \in Members : pc[n] \in Holding => Kept(n)' = Kept(n)
    <2>1. Kept(m)' = Kept(m)
      BY <1>1, <1>3 DEF Kept, FirstKept
    <2> QED  BY <1>1, <1>4, <2>1, KeptSame
  <1>6. \A n \in Members : pc'[n] \in Holding <=> pc[n] \in Holding
    BY <1>1, <1>2
  <1>7. PacketInHand'
    BY <1>1, <1>2 DEF IInv, PacketInHand
  <1>8. PacketsOnce'
    <2>1. \A i \in 1 .. Len(packet_queue) :
            packet_queue[i] \in Packets /\ packet_queue[i] # pkt[m]
      BY DEF IInv, TypeOK, PacketsOnce
    <2> QED  BY <1>1, <1>3, <2>1 DEF IInv, PacketsOnce
  <1>9. ListProgress'
    BY <1>1, <1>4 DEF IInv, ListProgress, Looping, Holding
  <1>10. StationExclusion'
    BY <1>1, <1>5, <1>6 DEF IInv, StationExclusion
  <1> QED  BY <1>7, <1>8, <1>9, <1>10 DEF LineInv

LEMMA ShipLine ==
  ASSUME IInv, NEW m \in Members, Ship(m) PROVE LineInv'
  <1>1. /\ UNCHANGED <<packet_queue, instructions, g_stations, cleared>>
        /\ pc[m] = "ship" /\ pc'[m] = "tag"
        /\ \A n \in Members : n # m => pc'[n] = pc[n] /\ pkt'[n] = pkt[n]
        /\ pkt'[m] = NoPacket
    BY GoToWhere DEF Ship, IInv, TypeOK, Locations, line
  <1>2. pc'[m] \notin Looping \cup Holding /\ pc[m] \in Holding
    BY <1>1 DEF Looping, Holding
  <1>3. Kept(m) = {}
    <2>1. /\ cleared[pkt[m]] = Len(instructions[pkt[m]])
          /\ Len(instructions[pkt[m]]) \in Nat
      BY <1>1, <1>2, PacketType DEF IInv, ListProgress
    <2> QED  BY <1>1, <2>1 DEF Kept, FirstKept
  <1>4. \A n \in Members : n # m => Kept(n)' = Kept(n)
    BY <1>1, KeptSame
  <1>5. PacketInHand'
    BY <1>1, <1>2 DEF IInv, PacketInHand
  <1>6. PacketsOnce'
    <2>1. \A i \in 1 .. Len(packet_queue) : packet_queue[i] \in Packets
      BY DEF IInv, TypeOK
    <2>2. \A i \in 1 .. Len(packet_queue) : packet_queue[i] # NoPacket
      BY <2>1, SizesAssumption
    <2> QED  BY <1>1, <2>2 DEF IInv, PacketsOnce
  <1>7. ListProgress'
    BY <1>1, <1>2 DEF IInv, ListProgress, Looping, Holding
  <1>8. StationExclusion'
    <2>1. \A n, q \in Members : pkt'[n] = pkt'[q] /\ pkt'[n] # NoPacket => n = q
      BY <1>6 DEF PacketsOnce
    <2> QED  BY <1>1, <1>2, <1>3, <1>4, <2>1 DEF IInv, StationExclusion
  <1> QED  BY <1>5, <1>6, <1>7, <1>8 DEF LineInv

LEMMA LineStep ==
  ASSUME IInv, NEW m \in Members, Step(m) PROVE LineInv'
  BY QuietSteps, QuietLine, AwaitTagLine, GiveUpLine, GrabLine, ReserveLine,
     LeaveStationLine, WorkLine, ShipLine DEF Step, IInv
-----------------------------------------------------------------------------
(* Types, and the tags step by step. *)

LEMMA SignalType ==
  ASSUME TypeOK, NEW t, Signal(t)
  PROVE  /\ new_available_station' \in [Teams -> Nat]
         /\ \A u \in Teams :
              /\ u = t => new_available_station'[u] = new_available_station[u] + 1
              /\ u # t => new_available_station'[u] = new_available_station[u]
  <1>1. new_available_station \in [Teams -> Nat]
    BY DEF TypeOK
  <1>2. new_available_station' =
          [u \in Teams |-> IF u = t THEN new_available_station[u] + 1
                           ELSE new_available_station[u]]
    BY <1>1 DEF Signal
  <1> QED  BY <1>1, <1>2

LEMMA SleepType ==
  ASSUME IInv, NEW m \in Members, Sleep(m)
  PROVE  /\ new_available_station' \in [Teams -> Nat]
         /\ \A u \in Teams : u # TeamOf(m) =>
              new_available_station'[u] = new_available_station[u]
  <1>1. new_available_station \in [Teams -> Nat] /\ TeamOf(m) \in Teams
    BY MemberTeam DEF IInv, TypeOK
  <1>2. new_available_station[TeamOf(m)] > 0
        /\ new_available_station' =
             [new_available_station EXCEPT ![TeamOf(m)] = @ - 1]
    BY DEF Sleep
  <1> QED  BY <1>1, <1>2

LEMMA TagStep ==
  ASSUME IInv, NEW m \in Members, Step(m)
  PROVE  /\ member_semaphores' \in [Members -> {0, 1}]
         /\ OneTagPerTeam'
  <1>1. CASE AwaitTag(m)  BY <1>1, AwaitTagKeepsOne
  <1>2. CASE GiveUp(m)
    BY <1>2, PassTagKeepsOne DEF GiveUp, Active
  <1>3. CASE Ship(m)
    BY <1>3, PassTagKeepsOne DEF Ship, Active
  <1>4. ASSUME Quiet(m) PROVE OneTagPerTeam' /\ UNCHANGED member_semaphores
    <2>1. PICK l \in Locations \ {"tag", "done"} : GoTo(m, l) /\ Active(m)
      BY <1>4, ArrivedWhere DEF Quiet, Looping, Active
    <2> QED  BY <1>4, <2>1, TagsKept DEF Quiet
  <1>5. CASE Grab(m) \/ Reserve(m) \/ LeaveStation(m) \/ Work(m)
    <2>1. PICK l \in Locations \ {"tag", "done"} : GoTo(m, l) /\ Active(m)
      BY <1>5 DEF Grab, Reserve, LeaveStation, Work, Active, Locations
    <2>2. UNCHANGED member_semaphores
      BY <1>5 DEF Grab, Reserve, LeaveStation, Work
    <2> QED  BY <2>1, <2>2, TagsKept DEF IInv, TypeOK
  <1>6. member_semaphores \in [Members -> {0, 1}]
    BY DEF IInv, TypeOK
  <1> QED  BY <1>1, <1>2, <1>3, <1>4, <1>5, <1>6, QuietSteps DEF Step, IInv

\* The variables of the line and of the members' hands.
LEMMA LineType ==
  ASSUME IInv, NEW m \in Members, Step(m)
  PROVE  /\ packet_queue' \in Seq(Packets)
         /\ g_stations' \in [Stations -> Packets \cup {NoPacket}]
         /\ instructions' = instructions
         /\ cleared' \in [Packets -> Nat]
         /\ \A k \in Packets : cleared'[k] <= Len(instructions[k])
         /\ pkt' \in [Members -> Packets \cup {NoPacket}]
  <1>. USE DEF IInv, TypeOK, line
  <1>1. CASE Quiet(m)  BY <1>1 DEF Quiet
  <1>2. CASE AwaitTag(m) \/ GiveUp(m)  BY <1>2 DEF AwaitTag, GiveUp
  <1>3. CASE Grab(m)  BY <1>3 DEF Grab
  <1>4. CASE Reserve(m)
    BY <1>4, PacketType DEF Reserve, Looping
  <1>5. CASE LeaveStation(m)  BY <1>5 DEF LeaveStation
  <1>6. CASE Work(m)
    <2>1. /\ cleared' = [cleared EXCEPT ![pkt[m]] = @ + 1]
          /\ UNCHANGED <<packet_queue, g_stations, instructions, pkt>>
          /\ pc[m] = "work"
      BY <1>6 DEF Work
    <2>2. /\ pkt[m] \in Packets /\ cleared[pkt[m]] < Len(instructions[pkt[m]])
          /\ Len(instructions[pkt[m]]) \in Nat
      BY <2>1, PacketType DEF ListProgress, Holding
    <2> QED  BY <2>1, <2>2
  <1>7. CASE Ship(m)  BY <1>7 DEF Ship
  <1> QED
    BY <1>1, <1>2, <1>3, <1>4, <1>5, <1>6, <1>7, QuietSteps DEF Step

LEMMA StepWhere ==
  ASSUME IInv, NEW m \in Members, Step(m)
  PROVE  \E l \in Locations : GoTo(m, l)
  <1>1. CASE Quiet(m)  BY <1>1 DEF Quiet
  <1>2. CASE \/ AwaitTag(m) \/ Grab(m) \/ GiveUp(m) \/ Reserve(m)
             \/ LeaveStation(m) \/ Work(m) \/ Ship(m)
    BY <1>2 DEF AwaitTag, Grab, GiveUp, Reserve, LeaveStation, Work, Ship,
                Locations
  <1> QED  BY <1>1, <1>2, QuietSteps DEF Step, IInv

\* The variables of the signals, the locks and the fairness.
LEMMA SignalsType ==
  ASSUME IInv, NEW m \in Members, Step(m)
  PROVE  /\ new_available_station' \in [Teams -> Nat]
         /\ conveyor_lock' \in {0, 1}
         /\ blockedTeamSemaphore' \in {0, 1}
         /\ blockedTeam' \in [flag : {0, 1}, teamIndex : Teams \cup {NoTeam}]
         /\ waitingTeams' \in 0 .. NUM_TEAMS
         /\ blockedTimes' \in [Members -> 0 .. BLOCKED_LIMIT]
         /\ turn' \in [Members -> 1 .. NUM_TEAMS - 1]
  <1>. USE SizesAssumption DEF IInv, TypeOK, locks, fairness
  <1>1. CASE \/ AwaitTag(m) \/ Grab(m) \/ GiveUp(m) \/ Reserve(m)
             \/ ReserveFails(m) \/ EnterLine(m) \/ LeaveStation(m)
             \/ AlertAll(m) \/ Work(m) \/ Ship(m)
    BY <1>1 DEF AwaitTag, Grab, GiveUp, Reserve, ReserveFails, EnterLine,
                LeaveStation, AlertAll, Work, Ship
  <1>2. CASE Blocked(m)
    <2>1. waitingTeams' \in 0 .. NUM_TEAMS
      BY <1>2 DEF Blocked, CountUpTo
    <2>2. blockedTimes' \in [Members -> 0 .. BLOCKED_LIMIT]
      BY <1>2 DEF Blocked, CountUpTo
    <2>3. blockedTeam' \in [flag : {0, 1}, teamIndex : Teams \cup {NoTeam}]
      BY <1>2, MemberTeam DEF Blocked
    <2> QED  BY <1>2, <2>1, <2>2, <2>3 DEF Blocked
  <1>3. CASE Peek(m) \/ Weigh(m)
    BY <1>3, NextTurnWhere DEF Peek, Weigh
  <1>4. CASE SignalOther(m)
    BY <1>4, NextTurnWhere, SignalType DEF SignalOther
  <1>5. CASE Sleep(m)
    BY <1>5, SleepType DEF Sleep
  <1>6. CASE Claim(m)
    BY <1>6 DEF Claim
  <1>7. CASE AlertBlockedTeam(m)
    BY <1>7, SignalType DEF AlertBlockedTeam
  <1>8. CASE Announce(m)
    BY <1>8, NextTurnWhere, SignalType DEF Announce
  <1> QED  BY <1>1, <1>2, <1>3, <1>4, <1>5, <1>6, <1>7, <1>8 DEF Step

LEMMA TypeStep ==
  ASSUME IInv, NEW m \in Members, Step(m) PROVE TypeOK'
  <1>1. pc' \in [Members -> Locations]
    BY StepWhere, GoToWhere DEF IInv
  <1>2. instructions \in [Packets -> Routes]
    BY DEF IInv, TypeOK
  <1> QED  BY <1>1, <1>2, TagStep, LineType, SignalsType DEF TypeOK
-----------------------------------------------------------------------------
(* Locks and loops. *)

LEMMA LocksStep ==
  ASSUME IInv, NEW m \in Members, Step(m) PROVE LocksHeld'
  <1>. USE DEF locks
  <1>1. PICK l \in Locations :
          /\ pc'[m] = l /\ \A n \in Members : n # m => pc'[n] = pc[n]
    BY StepWhere, GoToWhere DEF IInv
  <1>2. CASE \/ AwaitTag(m) \/ Grab(m) \/ GiveUp(m) \/ Reserve(m)
             \/ ReserveFails(m) \/ Blocked(m) \/ Peek(m) \/ Weigh(m)
             \/ SignalOther(m) \/ Sleep(m) \/ Claim(m) \/ EnterLine(m)
             \/ Work(m) \/ Ship(m)
    <2>1. pc'[m] \notin {"alert", "announce"} /\ pc[m] \notin {"alert", "announce"}
      <3>1. CASE \/ AwaitTag(m) \/ Grab(m) \/ GiveUp(m) \/ Reserve(m)
                 \/ ReserveFails(m) \/ Blocked(m) \/ Sleep(m) \/ Claim(m)
                 \/ Work(m) \/ Ship(m)
        BY <1>1, <3>1, GoToWhere
           DEF AwaitTag, Grab, GiveUp, Reserve, ReserveFails, Blocked, Sleep,
               Claim, Work, Ship, IInv, Locations
      <3>2. CASE Peek(m) \/ Weigh(m) \/ SignalOther(m)
        BY <1>1, <3>2, NextTurnWhere, GoToWhere
           DEF Peek, Weigh, SignalOther, IInv, Locations
      <3>3. CASE EnterLine(m)
        BY <1>1, <3>3, ArrivedWhere, GoToWhere DEF EnterLine, IInv, Locations
      <3> QED  BY <1>2, <3>1, <3>2, <3>3
    <2>2. UNCHANGED <<conveyor_lock, blockedTeamSemaphore>>
      BY <1>2 DEF AwaitTag, Grab, GiveUp, Reserve, ReserveFails, Blocked, Peek,
                  Weigh, SignalOther, Sleep, Claim, EnterLine, Work, Ship
    <2> QED  BY <1>1, <2>1, <2>2 DEF IInv, LocksHeld
  <1>3. CASE LeaveStation(m)
    <2>1. /\ conveyor_lock = 1 /\ conveyor_lock' = 0 /\ pc'[m] = "alert"
          /\ UNCHANGED blockedTeamSemaphore
      BY <1>3, GoToWhere DEF LeaveStation, IInv, Locations
    <2> QED  BY <1>1, <2>1 DEF IInv, LocksHeld
  <1>4. CASE AlertBlockedTeam(m)
    <2>1. /\ pc[m] = "alert" /\ pc'[m] \in {"work", "ship"}
          /\ blockedTeamSemaphore = 1
          /\ conveyor_lock' = 1 /\ UNCHANGED blockedTeamSemaphore
      BY <1>4, GoToWhere, ArrivedWhere DEF AlertBlockedTeam, IInv, Locations
    <2> QED  BY <1>1, <2>1 DEF IInv, LocksHeld
  <1>5. CASE AlertAll(m)
    <2>1. /\ pc[m] = "alert" /\ pc'[m] = "announce"
          /\ blockedTeamSemaphore' = 0 /\ UNCHANGED conveyor_lock
      BY <1>5, GoToWhere DEF AlertAll, IInv, Locations
    <2> QED  BY <1>1, <2>1 DEF IInv, LocksHeld
  <1>6. CASE Announce(m)
    <2>1. CASE turn[m] + 1 < NUM_TEAMS
      <3>1. /\ pc[m] = "announce" /\ pc'[m] = "announce"
            /\ UNCHANGED <<conveyor_lock, blockedTeamSemaphore>>
        BY <1>6, <2>1, GoToWhere DEF Announce, NextTurn, IInv, Locations
      <3> QED  BY <1>1, <3>1 DEF IInv, LocksHeld
    <2>2. CASE ~(turn[m] + 1 < NUM_TEAMS)
      <3>1. /\ pc[m] = "announce" /\ pc'[m] \in {"work", "ship"}
            /\ conveyor_lock' = 1 /\ blockedTeamSemaphore' = 1
        BY <1>6, <2>2, GoToWhere, ArrivedWhere
           DEF Announce, NextTurn, IInv, Locations
      <3> QED  BY <1>1, <3>1 DEF IInv, LocksHeld
    <2> QED  BY <2>1, <2>2
  <1> QED  BY <1>2, <1>3, <1>4, <1>5, <1>6 DEF Step

LEMMA LoopsStep ==
  ASSUME IInv, NEW m \in Members, Step(m) PROVE LoopsBegin'
  <1>1. \A n \in Members : n # m => pc'[n] = pc[n]
    BY StepWhere, GoToWhere DEF IInv
  <1>2. CASE \/ AwaitTag(m) \/ Grab(m) \/ GiveUp(m) \/ Reserve(m)
             \/ ReserveFails(m) \/ Blocked(m) \/ Sleep(m) \/ Claim(m)
             \/ EnterLine(m) \/ LeaveStation(m) \/ AlertBlockedTeam(m)
             \/ AlertAll(m) \/ Work(m) \/ Ship(m)
    <2>1. UNCHANGED turn /\ pc[m] \notin {"peek", "weigh", "signal", "announce"}
      BY <1>2 DEF AwaitTag, Grab, GiveUp, Reserve, ReserveFails, Blocked, Sleep,
                  Claim, EnterLine, LeaveStation, AlertBlockedTeam, AlertAll,
                  Work, Ship
    <2> QED  BY <1>1, <2>1 DEF IInv, LoopsBegin
  <1>3. CASE Peek(m) \/ Weigh(m) \/ SignalOther(m) \/ Announce(m)
    <2>1. /\ \A n \in Members : n # m => turn'[n] = turn[n]
          /\ turn'[m] = 1 \/ pc'[m] \in {"peek", "weigh", "signal", "announce"}
      <3>1. CASE UNCHANGED turn
        BY <1>3, <3>1, GoToWhere, NextTurnWhere
           DEF Peek, Weigh, SignalOther, Announce, IInv, Locations
      <3>2. CASE \E l \in {"peek", "announce"}, k \in {"sleep", "work", "ship"} :
                   NextTurn(m, l, k)
        BY <3>2, GoToWhere, NextTurnWhere DEF IInv, Locations
      <3> QED
        BY <1>3, <3>1, <3>2, ArrivedWhere DEF Peek, Weigh, SignalOther, Announce
    <2> QED  BY <1>1, <2>1 DEF IInv, LoopsBegin
  <1> QED  BY <1>2, <1>3 DEF Step
-----------------------------------------------------------------------------
(* The blocked team. *)

\* Only Grab leads into the loop of processPacket, only Reserve out of it.
LEMMA WhoLoops ==
  ASSUME IInv, NEW m \in Members, Step(m), NEW n \in Members
  PROVE  /\ pc'[n] \in Looping /\ pc[n] \notin Looping => n = m /\ Grab(m)
         /\ pc[n] \in Looping /\ pc'[n] \notin Looping => n = m /\ Reserve(m)
         /\ pc[n] = "claim" /\ pc'[n] # "claim" => n = m /\ Claim(m)
         /\ n # m => pc'[n] = pc[n]
  <1>1. n # m => pc'[n] = pc[n]
    BY StepWhere, GoToWhere DEF IInv
  <1>2. Quiet(m) => (pc'[m] \in Looping <=> pc[m] \in Looping)
    BY ArrivedWhere, GoToWhere DEF Quiet, Looping, IInv
  <1>3. AwaitTag(m) \/ GiveUp(m) \/ LeaveStation(m) \/ Work(m) \/ Ship(m) =>
          pc[m] \notin Looping /\ pc'[m] \notin Looping /\ pc[m] # "claim"
    BY GoToWhere DEF AwaitTag, GiveUp, LeaveStation, Work, Ship, Looping, IInv,
                     Locations
  <1>4. Quiet(m) /\ pc[m] = "claim" => Claim(m)
    BY DEF Step, AwaitTag, Grab, GiveUp, Reserve, ReserveFails, Blocked, Peek,
           Weigh, SignalOther, Sleep, EnterLine, LeaveStation, AlertBlockedTeam,
           AlertAll, Announce, Work, Ship
  <1>5. Grab(m) \/ Reserve(m) => pc[m] # "claim"
    BY DEF Grab, Reserve
  <1>6. Grab(m) => pc'[m] \in Looping
    BY GoToWhere DEF Grab, Looping, IInv, Locations
  <1>7. Reserve(m) => pc[m] \in Looping /\ pc'[m] \notin Looping
    BY GoToWhere DEF Reserve, Looping, IInv, Locations
  <1>8. \/ Quiet(m) \/ Grab(m) \/ Reserve(m)
        \/ AwaitTag(m) \/ GiveUp(m) \/ LeaveStation(m) \/ Work(m) \/ Ship(m)
    BY QuietSteps DEF Step, IInv
  <1> QED  BY <1>1, <1>2, <1>3, <1>4, <1>5, <1>6, <1>7, <1>8

LEMMA BlockedTeamStep ==
  ASSUME IInv, NEW m \in Members, Step(m) PROVE BlockedTeamIsBlocked'
  <1>. USE DEF fairness
  <1>. SUFFICES ASSUME blockedTeam'.flag = 1
                PROVE  \E n \in Members : /\ TeamOf(n) = blockedTeam'.teamIndex
                                         /\ pc'[n] \in Looping \cup {"claim"}
                                         /\ blockedTimes'[n] >= BLOCKED_LIMIT
    BY DEF BlockedTeamIsBlocked, TeamOf
  <1>1. CASE Claim(m)  BY <1>1 DEF Claim
  <1>2. ASSUME ~Claim(m), UNCHANGED blockedTeam,
               \A n \in Members : blockedTimes[n] >= BLOCKED_LIMIT =>
                                    blockedTimes'[n] >= BLOCKED_LIMIT
        PROVE  \E n \in Members : /\ TeamOf(n) = blockedTeam'.teamIndex
                                 /\ pc'[n] \in Looping \cup {"claim"}
                                 /\ blockedTimes'[n] >= BLOCKED_LIMIT
    <2>1. PICK n \in Members : /\ TeamOf(n) = blockedTeam.teamIndex
                               /\ pc[n] \in Looping \cup {"claim"}
                               /\ blockedTimes[n] >= BLOCKED_LIMIT
      BY <1>2 DEF IInv, BlockedTeamIsBlocked
    <2>2. pc'[n] \in Looping \cup {"claim"}
      <3>1. Reserve(m) => pc'[m] = "claim"
        BY GoToWhere DEF Reserve, IInv, Locations
      <3> QED  BY <1>2, <2>1, <3>1, WhoLoops
    <2> QED  BY <1>2, <2>1, <2>2
  <1>3. CASE Blocked(m)
    <2>1. /\ blockedTimes' \in [Members -> 0 .. BLOCKED_LIMIT]
          /\ \A n \in Members : n # m => blockedTimes'[n] = blockedTimes[n]
          /\ blockedTimes'[m] = CountUpTo(BLOCKED_LIMIT, blockedTimes[m])
      BY <1>3, SignalsType DEF Blocked, IInv, TypeOK
    <2>2. blockedTimes[m] >= BLOCKED_LIMIT => blockedTimes'[m] >= BLOCKED_LIMIT
      BY <2>1, SizesAssumption DEF CountUpTo, IInv, TypeOK
    <2>3. CASE UNCHANGED blockedTeam
      BY <1>2, <1>3, <2>1, <2>2, <2>3 DEF Blocked, Claim
    <2>4. CASE blockedTeam' # blockedTeam
      <3>1. blockedTimes'[m] >= BLOCKED_LIMIT
            /\ blockedTeam' = [flag |-> 1, teamIndex |-> TeamOf(m)]
        BY <1>3, <2>4 DEF Blocked
      <3>2. pc'[m] \in Looping
        BY <1>3, GoToWhere DEF Blocked, IInv, Locations, Looping
      <3> QED  BY <3>1, <3>2
    <2> QED  BY <2>3, <2>4
  <1>4. CASE ~Claim(m) /\ ~Blocked(m)
    <2>1. UNCHANGED <<blockedTeam, blockedTimes>>
      BY <1>4 DEF Step, AwaitTag, Grab, GiveUp, Reserve, ReserveFails, Peek,
                  Weigh, SignalOther, Sleep, EnterLine, LeaveStation,
                  AlertBlockedTeam, AlertAll, Announce, Work, Ship
    <2> QED  BY <1>2, <1>4, <2>1
  <1> QED  BY <1>1, <1>3, <1>4
-----------------------------------------------------------------------------
(* No team is forgotten. *)

\* A signal is used up by a member of the team signalled only.
LEMMA SignalsKept ==
  ASSUME IInv, NEW m \in Members, Step(m), NEW t \in Teams
  PROVE  \/ new_available_station'[t] >= new_available_station[t]
         \/ Sleep(m) /\ t = TeamOf(m)
  <1>1. \A u \in Teams : new_available_station[u] \in Nat
    BY DEF IInv, TypeOK
  <1>2. CASE Sleep(m)  BY <1>1, <1>2, SleepType
  <1>3. CASE SignalOther(m) \/ AlertBlockedTeam(m) \/ Announce(m)
    <2>1. PICK u : Signal(u)
      BY <1>3 DEF SignalOther, AlertBlockedTeam, Announce
    <2> QED  BY <1>1, <2>1, SignalType DEF IInv
  <1>4. CASE UNCHANGED new_available_station  BY <1>1, <1>4
  <1> QED
    BY <1>2, <1>3, <1>4
       DEF Step, AwaitTag, Grab, GiveUp, Reserve, ReserveFails, Blocked, Peek,
           Weigh, Claim, EnterLine, LeaveStation, AlertAll, Work, Ship

\* A waiting member that will try again still will, unless it tries and fails.
LEMMA WillTryKept ==
  ASSUME IInv, NEW a \in Members, Step(a), ~ReserveFails(a),
         NEW m \in Members, WillTry(m), pc'[m] \in Looping
  PROVE  WillTry(m)'
  <1>1. TeamOf(m) \in Teams /\ TeamOf(m)' = TeamOf(m)
        /\ new_available_station[TeamOf(m)] \in Nat
        /\ new_available_station'[TeamOf(m)] \in Nat
    BY MemberTeam, SignalsType DEF TeamOf, IInv, TypeOK
  <1>2. pc[m] \in Looping
    BY DEF WillTry
  <1>3. CASE a = m
    <2>1. pc[m] = "reserve" => Reserve(m)
      BY <1>3 DEF Step, AwaitTag, Grab, GiveUp, Blocked, Peek, Weigh,
                  SignalOther, Sleep, Claim, EnterLine, LeaveStation,
                  AlertBlockedTeam, AlertAll, Announce, Work, Ship
    <2>2. ~Reserve(m)
      BY GoToWhere DEF Reserve, Looping, IInv, Locations
    <2>3. new_available_station[TeamOf(m)] > 0
      BY <2>1, <2>2 DEF WillTry
    <2>4. CASE Sleep(m)
      BY <2>4, <1>3, GoToWhere DEF Sleep, WillTry, IInv, Locations
    <2>5. CASE ~Sleep(m)
      BY <1>1, <1>3, <2>3, <2>5, SignalsKept DEF WillTry
    <2> QED  BY <2>4, <2>5
  <1>4. CASE a # m
    <2>1. pc'[m] = pc[m]
      BY <1>4, WhoLoops
    <2>2. ~(Sleep(a) /\ TeamOf(m) = TeamOf(a))
      <3>1. Sleep(a) => Active(a)
        BY DEF Sleep, Active
      <3>2. Active(m)
        BY <1>2 DEF Active, Looping
      <3> QED  BY <1>4, <3>1, <3>2, TagType
    <2>3. new_available_station'[TeamOf(m)] >= new_available_station[TeamOf(m)]
      BY <1>1, <2>2, SignalsKept
    <2> QED  BY <1>1, <2>1, <2>3 DEF WillTry
  <1> QED  BY <1>3, <1>4

\* A member that has just taken a packet goes on to try.
LEMMA GrabWillTry ==
  ASSUME IInv, NEW m \in Members, Grab(m) PROVE WillTry(m)'
  BY GoToWhere DEF Grab, WillTry, Looping, IInv, Locations

\* The team signalled will try again if it waits.
LEMMA SignalledWillTry ==
  ASSUME IInv, NEW m \in Members, Signal(TeamOf(m)), pc'[m] \in Looping
  PROVE  WillTry(m)'
  <1>1. TeamOf(m) \in Teams /\ new_available_station[TeamOf(m)] \in Nat
    BY MemberTeam DEF IInv, TypeOK
  <1>2. new_available_station'[TeamOf(m)] = new_available_station[TeamOf(m)] + 1
    BY <1>1, SignalType DEF IInv
  <1>3. new_available_station'[TeamOf(m)] > 0
    BY <1>1, <1>2
  <1> QED  BY <1>3 DEF WillTry, TeamOf

LEMMA AnnouncedStep ==
  ASSUME IInv, NEW a \in Members, Step(a) PROVE AnnouncedWillTry'
  <1>. SUFFICES ASSUME NEW x \in Members, NEW m \in Members,
                       pc'[x] = "announce", pc'[m] \in Looping,
                       NEW i \in 1 .. turn'[x] - 1,
                       TeamOf(m) = (TeamOf(x) + i) % NUM_TEAMS
                PROVE  WillTry(m)'
    BY DEF AnnouncedWillTry, TeamOf
  <1>1. pc[x] = "announce"
    <2>. SUFFICES ASSUME pc[x] # "announce" PROVE FALSE
      OBVIOUS
    <2>1. x = a /\ AlertAll(a)
      <3>1. x = a
        BY WhoLoops
      <3>2. Quiet(a)
        BY <3>1, GoToWhere, QuietSteps
           DEF Step, AwaitTag, Grab, GiveUp, Reserve, LeaveStation, Work, Ship,
               IInv, Locations
      <3>3. pc[a] = "alert"
        BY <3>1, <3>2, GoToWhere, ArrivedWhere DEF Quiet, Looping, IInv
      <3> QED
        BY <3>1, <3>3, GoToWhere, ArrivedWhere
           DEF Step, AwaitTag, Grab, GiveUp, Reserve, ReserveFails, Blocked,
               Peek, Weigh, SignalOther, Sleep, Claim, EnterLine, LeaveStation,
               AlertBlockedTeam, Announce, Work, Ship, IInv, Locations
    <2>2. turn'[x] = 1
      BY <2>1 DEF AlertAll, IInv, LoopsBegin
    <2> QED  BY <2>2
  <1>2. conveyor_lock = 0
    BY <1>1 DEF IInv, LocksHeld
  <1>3. ~ReserveFails(a) /\ ~Reserve(a)
    BY <1>2 DEF ReserveFails, Reserve
  <1>4. CASE pc[m] \notin Looping
    BY <1>4, WhoLoops, GrabWillTry
  <1>5. CASE pc[m] \in Looping
    <2>1. CASE Announce(a)
      <3>1. a = x
        BY <1>1, <2>1 DEF Announce, IInv, LocksHeld
      <3>2. turn'[x] = turn[x] + 1 /\ turn[x] \in 1 .. NUM_TEAMS - 1
            /\ NUM_TEAMS \in Nat
        <4>1. turn[x] \in 1 .. NUM_TEAMS - 1 /\ NUM_TEAMS \in Nat
          BY SizesAssumption DEF IInv, TypeOK
        <4>2. turn'[x] = turn[x] + 1 \/ turn'[x] = 1
          BY <2>1, <3>1, NextTurnWhere DEF Announce, IInv
        <4>3. turn'[x] # 1
          OBVIOUS
        <4> QED  BY <4>1, <4>2, <4>3
      <3>3. CASE i < turn[x]
        <4>1. WillTry(m)
          BY <1>1, <1>5, <3>2, <3>3 DEF IInv, AnnouncedWillTry
        <4> QED  BY <1>3, <4>1, WillTryKept
      <3>4. CASE i = turn[x]
        BY <2>1, <3>1, <3>4, SignalledWillTry DEF Announce, OtherTeam
      <3> QED  BY <3>2, <3>3, <3>4
    <2>2. CASE ~Announce(a)
      <3>1. turn'[x] = turn[x]
        <4>1. CASE x # a
          BY <4>1, NextTurnWhere
             DEF Step, AwaitTag, Grab, GiveUp, Reserve, ReserveFails, Blocked,
                 Peek, Weigh, SignalOther, Sleep, Claim, EnterLine,
                 LeaveStation, AlertBlockedTeam, AlertAll, Announce, Work, Ship,
                 IInv
        <4>2. CASE x = a
          BY <1>1, <2>2, <4>2
             DEF Step, AwaitTag, Grab, GiveUp, Reserve, ReserveFails, Blocked,
                 Peek, Weigh, SignalOther, Sleep, Claim, EnterLine,
                 LeaveStation, AlertBlockedTeam, AlertAll, Work, Ship
        <4> QED  BY <4>1, <4>2
      <3>2. WillTry(m)
        BY <1>1, <1>5, <3>1 DEF IInv, AnnouncedWillTry
      <3> QED  BY <1>3, <3>2, WillTryKept
    <2> QED  BY <2>1, <2>2
  <1> QED  BY <1>4, <1>5

\* A member that has reserved its list keeps a station.
LEMMA ClaimKeeps ==
  ASSUME IInv, NEW m \in Members, pc[m] = "claim"
  PROVE  \E s \in Stations : g_stations[s] # NoPacket
  <1>1. /\ pkt[m] # NoPacket /\ instructions[pkt[m]] \in Routes
        /\ cleared[pkt[m]] = 0 /\ pc[m] \in Holding
    BY PacketType DEF Holding, IInv, TypeOK, ListProgress
  <1>2. /\ Len(instructions[pkt[m]]) \in Nat \ {0}
        /\ instructions[pkt[m]][1] \in Stations
    BY <1>1, RoutesAssumption
  <1>3. instructions[pkt[m]][1] \in Kept(m)
    BY <1>1, <1>2 DEF Kept, FirstKept
  <1> QED  BY <1>1, <1>2, <1>3 DEF IInv, StationExclusion

LEMMA ForgottenStep ==
  ASSUME IInv, NEW a \in Members, Step(a) PROVE NoTeamForgotten'
  <1>. SUFFICES ASSUME \A s \in Stations : g_stations'[s] = NoPacket,
                       \A n \in Members : pc'[n] \notin {"alert", "announce"},
                       NEW m \in Members, pc'[m] \in Looping
                PROVE  \E w \in Members : WillTry(w)'
    BY DEF NoTeamForgotten
  <1>1. ~Reserve(a)
    <2>. SUFFICES ASSUME Reserve(a) PROVE FALSE
      OBVIOUS
    <2>1. LineInv' /\ pc'[a] = "claim"
      BY LineStep, GoToWhere DEF Reserve, IInv, Locations
    <2>2. pc[a] = "reserve" /\ instructions[pkt[a]] \in Routes /\ pkt[a] # NoPacket
      BY PacketType DEF Reserve, Looping, IInv, TypeOK
    <2>3. instructions[pkt[a]][1] \in StationsOf(pkt[a])
          /\ instructions[pkt[a]][1] \in Stations
      BY <2>2, RoutesAssumption DEF StationsOf
    <2> QED  BY <2>2, <2>3 DEF Reserve
  <1>2. ~LeaveStation(a)
    BY GoToWhere DEF LeaveStation, IInv, Locations
  <1>3. UNCHANGED g_stations
    BY <1>1, <1>2 DEF Step, AwaitTag, Grab, GiveUp, ReserveFails, Blocked, Peek,
           Weigh, SignalOther, Sleep, Claim, EnterLine, AlertBlockedTeam,
           AlertAll, Announce, Work, Ship, line
  <1>4. ~ReserveFails(a)
    <2>. SUFFICES ASSUME ReserveFails(a) PROVE FALSE
      OBVIOUS
    <2>1. instructions[pkt[a]] \in Seq(Stations) /\ Len(instructions[pkt[a]]) \in Nat
      BY PacketType DEF ReserveFails, Looping
    <2>2. StationsOf(pkt[a]) \subseteq Stations
      BY <2>1 DEF StationsOf
    <2> QED  BY <1>3, <2>2 DEF ReserveFails, AllAvailable
  <1>5. CASE pc[m] \notin Looping
    BY <1>5, WhoLoops, GrabWillTry
  <1>6. CASE pc[m] \in Looping /\ \A n \in Members : pc[n] \notin {"alert", "announce"}
    <2>1. PICK w \in Members : WillTry(w)
      BY <1>3, <1>6 DEF IInv, NoTeamForgotten
    <2>2. pc'[w] \in Looping
      BY <1>1, <2>1, WhoLoops DEF WillTry
    <2> QED  BY <1>4, <2>1, <2>2, WillTryKept
  <1>7. CASE pc[m] \in Looping /\ \E x \in Members : pc[x] \in {"alert", "announce"}
    <2>1. pc[a] \in {"alert", "announce"}
      BY <1>7, WhoLoops
    <2>2. m # a /\ pc'[m] = pc[m]
      BY <1>7, <2>1, WhoLoops DEF Looping
    <2>3. CASE AlertBlockedTeam(a)
      <3>1. PICK n \in Members : /\ TeamOf(n) = blockedTeam.teamIndex
                                 /\ pc[n] \in Looping \cup {"claim"}
        BY <2>3 DEF AlertBlockedTeam, IInv, BlockedTeamIsBlocked
      <3>2. pc[n] \in Looping
        BY <1>3, <3>1, ClaimKeeps
      <3>3. pc'[n] \in Looping
        BY <1>1, <3>2, WhoLoops
      <3> QED  BY <2>3, <3>1, <3>3, SignalledWillTry DEF AlertBlockedTeam
    <2>4. CASE Announce(a)
      <3>1. turn[a] = NUM_TEAMS - 1 /\ pc[a] = "announce" /\ NUM_TEAMS \in Nat
        <4>1. turn[a] \in 1 .. NUM_TEAMS - 1 /\ NUM_TEAMS \in Nat
          BY SizesAssumption DEF IInv, TypeOK
        <4>2. pc[a] = "announce" /\ NextTurn(a, "announce", Arrived(a))
          BY <2>4 DEF Announce
        <4>3. GoTo(a, "announce") => pc'[a] = "announce"
          BY GoToWhere DEF IInv, Locations
        <4>4. turn[a] + 1 = NUM_TEAMS
          BY <4>2, <4>3, NextTurnWhere DEF IInv
        <4> QED  BY <4>1, <4>2, <4>4
      <3>2. TeamOf(m) # TeamOf(a)
        BY <1>7, <2>1, <2>2, TagType DEF Active, Looping
      <3>3. PICK i \in 1 .. NUM_TEAMS - 1 :
              TeamOf(m) = (TeamOf(a) + i) % NUM_TEAMS
        BY <3>2, MemberTeam, OtherTeamsReached
      <3>4. CASE i = turn[a]
        BY <2>4, <3>3, <3>4, SignalledWillTry DEF Announce, OtherTeam
      <3>5. CASE i # turn[a]
        <4>1. i \in 1 .. turn[a] - 1
          BY <3>1, <3>5
        <4>2. WillTry(m)
          BY <1>7, <3>1, <3>3, <4>1 DEF IInv, AnnouncedWillTry
        <4> QED  BY <1>4, <4>2, WillTryKept
      <3> QED  BY <3>4, <3>5
    <2> QED
      BY <2>1, <2>3, <2>4, GoToWhere
         DEF Step, AwaitTag, Grab, GiveUp, Reserve, ReserveFails, Blocked, Peek,
             Weigh, SignalOther, Sleep, Claim, EnterLine, LeaveStation,
             AlertAll, Work, Ship, IInv, Locations
  <1> QED  BY <1>5, <1>6, <1>7
-----------------------------------------------------------------------------
(* The invariant holds in every state that can be reached. *)

LEMMA InitTags == ASSUME Init PROVE OneTagPerTeam
  <1>1. /\ \A m \in Members : ~Active(m)
        /\ \A m \in Members : HasTag(m) <=> m[2] = 0
    BY DEF Init, HasTag, Active
  <1>2. \A m, n \in Members : m[1] = n[1] /\ m[2] = n[2] => m = n
    BY DEF Members
  <1>3. \A t \in Teams : <<t, 0>> \in Members
    BY SizesAssumption DEF Members
  <1> QED  BY <1>1, <1>2, <1>3 DEF OneTagPerTeam, TeamOf

LEMMA InitIInv == ASSUME Init PROVE IInv
  <1>. USE SizesAssumption DEF Init
  <1>1. TypeOK
    <2>1. packet_queue \in Seq(Packets)
      BY DEF Packets
    <2>2. \A k \in Packets : cleared[k] = 0 /\ Len(instructions[k]) \in Nat
      BY RoutesAssumption
    <2>3. turn \in [Members -> 1 .. NUM_TEAMS - 1]
          /\ blockedTimes \in [Members -> 0 .. BLOCKED_LIMIT]
      OBVIOUS
    <2>4. pc \in [Members -> Locations]
      BY DEF Locations
    <2> QED  BY <2>1, <2>2, <2>3, <2>4 DEF TypeOK
  <1>2. \A m \in Members : pc[m] \notin Looping \cup Holding
    BY DEF Looping, Holding
  <1>3. PacketInHand /\ ListProgress
    BY <1>2 DEF PacketInHand, ListProgress, Looping
  <1>4. PacketsOnce
    <2>1. \A i \in 1 .. Len(packet_queue) :
            packet_queue[i] = i - 1 /\ packet_queue[i] \in Packets
      BY DEF Packets
    <2> QED  BY <2>1 DEF PacketsOnce
  <1>5. StationExclusion
    BY <1>2 DEF StationExclusion
  <1>6. LocksHeld /\ LoopsBegin
    BY DEF LocksHeld, LoopsBegin
  <1>7. BlockedTeamIsBlocked
    BY DEF BlockedTeamIsBlocked
  <1>8. AnnouncedWillTry /\ NoTeamForgotten
    BY <1>2 DEF AnnouncedWillTry, NoTeamForgotten
  <1> QED  BY <1>1, <1>3, <1>4, <1>5, <1>6, <1>7, <1>8, InitTags DEF IInv

LEMMA StutterIInv == ASSUME IInv, UNCHANGED vars PROVE IInv'
  <1>. USE DEF vars, IInv
  <1>1. TypeOK'
    BY DEF TypeOK
  <1>2. OneTagPerTeam'
    BY DEF OneTagPerTeam, HasTag, Active, TeamOf
  <1>3. PacketInHand' /\ PacketsOnce' /\ ListProgress'
    BY DEF PacketInHand, PacketsOnce, ListProgress
  <1>4. StationExclusion'
    BY DEF StationExclusion, Kept, FirstKept
  <1>5. LocksHeld' /\ LoopsBegin'
    BY DEF LocksHeld, LoopsBegin
  <1>6. BlockedTeamIsBlocked'
    BY DEF BlockedTeamIsBlocked, TeamOf
  <1>7. AnnouncedWillTry' /\ NoTeamForgotten'
    BY DEF AnnouncedWillTry, NoTeamForgotten, WillTry, TeamOf
  <1> QED  BY <1>1, <1>2, <1>3, <1>4, <1>5, <1>6, <1>7

LEMMA NextIInv == ASSUME IInv, [Next]_vars PROVE IInv'
  <1>1. ASSUME NEW m \in Members, Step(m) PROVE IInv'
    BY <1>1, TypeStep, TagStep, LineStep, LocksStep, LoopsStep, BlockedTeamStep,
       AnnouncedStep, ForgottenStep DEF IInv, LineInv
  <1>2. CASE Stopped \/ UNCHANGED vars
    BY <1>2, StutterIInv DEF Stopped
  <1> QED  BY <1>1, <1>2 DEF Next

\* The inductive invariant holds of every run of fedOops.
THEOREM Invariance == Spec => []IInv
  <1>1. Init => IInv
    BY InitIInv
  <1>2. IInv /\ [Next]_vars => IInv'
    BY NextIInv
  <1> QED  BY <1>1, <1>2, PTL DEF Spec

\* Every variable keeps its type: no binary semaphore of fedOops is ever above
\* 1, and no member clears more instructions than its packet has.
THEOREM TypeCorrect == Spec => []TypeOK
  <1>1. IInv => TypeOK
    BY DEF IInv
  <1> QED  BY <1>1, Invariance, PTL

\* The members' semaphores make exactly one member of each team work at a time,
\* and the tag survives the end of the packets (teamMember.c:55-74, 141).
THEOREM OneTag == Spec => []OneTagPerTeam
  <1>1. IInv => OneTagPerTeam
    BY DEF IInv
  <1> QED  BY <1>1, Invariance, PTL

\* No two packets are ever at one station, and a station is taken exactly from
\* reserveStations to the leaveStation of the packet it was reserved for.
THEOREM ExclusiveStations == Spec => []StationExclusion
  <1>1. IInv => StationExclusion
    BY DEF IInv
  <1> QED  BY <1>1, Invariance, PTL

\* The flag of blockedTeam is only up while the team it names waits: the one
\* signal of leaveStation finds a member that can use it.
THEOREM BlockedTeamWaits == Spec => []BlockedTeamIsBlocked
  <1>1. IInv => BlockedTeamIsBlocked
    BY DEF IInv
  <1> QED  BY <1>1, Invariance, PTL

\* No wakeup is lost: never are all stations free, all signals sent, and all
\* the waiting teams asleep.
THEOREM NobodyForgotten == Spec => []NoTeamForgotten
  <1>1. IInv => NoTeamForgotten
    BY DEF IInv
  <1> QED  BY <1>1, Invariance, PTL
-----------------------------------------------------------------------------
(* The members implement Shipping. *)

\* What a team holds is the packet that one of its members has, if one does.
HeldIsInHand ==
  \A t \in Teams :
    /\ \A m \in Members :
         TeamOf(m) = t /\ pkt[m] # NoPacket => heldByTeam[t] = pkt[m]
    /\ (\A m \in Members : TeamOf(m) = t => pkt[m] = NoPacket)
         => heldByTeam[t] = NoPacket

LEMMA Held == IInv => HeldIsInHand
  <1>. SUFFICES ASSUME IInv, NEW t \in Teams
       PROVE /\ \A m \in Members :
                  TeamOf(m) = t /\ pkt[m] # NoPacket => heldByTeam[t] = pkt[m]
             /\ (\A m \in Members : TeamOf(m) = t => pkt[m] = NoPacket)
                  => heldByTeam[t] = NoPacket
    BY DEF HeldIsInHand
  <1>1. CASE \E m \in Members : TeamOf(m) = t /\ Active(m)
    <2>1. /\ ActiveMember(t) \in Members
          /\ TeamOf(ActiveMember(t)) = t /\ Active(ActiveMember(t))
      BY <1>1 DEF ActiveMember
    <2>2. heldByTeam[t] = pkt[ActiveMember(t)]
      BY <1>1 DEF heldByTeam
    <2>3. \A m \in Members : TeamOf(m) = t /\ pkt[m] # NoPacket => m = ActiveMember(t)
      <3>1. \A m \in Members : pkt[m] # NoPacket => Active(m)
        BY DEF IInv, PacketInHand, Active, Looping, Holding
      <3> QED  BY <2>1, <3>1, TagType
    <2> QED  BY <2>1, <2>2, <2>3
  <1>2. CASE ~\E m \in Members : TeamOf(m) = t /\ Active(m)
    <2>1. heldByTeam[t] = NoPacket
      BY <1>2 DEF heldByTeam
    <2>2. \A m \in Members : TeamOf(m) = t => pkt[m] = NoPacket
      BY <1>2 DEF IInv, PacketInHand, Active, Looping, Holding
    <2> QED  BY <2>1, <2>2
  <1> QED  BY <1>1, <1>2

LEMMA HeldNext == IInv' => HeldIsInHand'
  BY Held, PTL

\* What a step does to the packet of one member it does to that of its team.
LEMMA HeldStep ==
  ASSUME IInv, IInv', NEW m \in Members, Active(m) \/ pkt'[m] = pkt[m],
         \A n \in Members : n # m => pkt'[n] = pkt[n]
  PROVE  heldByTeam' = [heldByTeam EXCEPT ![TeamOf(m)] =
                          IF pkt'[m] = pkt[m] THEN @ ELSE pkt'[m]]
  <1>1. HeldIsInHand /\ HeldIsInHand'
    BY Held, HeldNext
  <1>2. DOMAIN heldByTeam = Teams /\ DOMAIN heldByTeam' = Teams
    BY DEF heldByTeam
  <1>3. heldByTeam = [t \in Teams |-> heldByTeam[t]]
        /\ heldByTeam' = [t \in Teams |-> heldByTeam'[t]]
    BY DEF heldByTeam
  <1>4. ASSUME NEW t \in Teams
        PROVE  heldByTeam'[t] = IF t = TeamOf(m) /\ pkt'[m] # pkt[m]
                                THEN pkt'[m] ELSE heldByTeam[t]
    <2>1. CASE \A n \in Members : TeamOf(n) = t => pkt'[n] = pkt[n]
      <3>1. ~(t = TeamOf(m) /\ pkt'[m] # pkt[m])
        BY <2>1
      <3>2. \A n \in Members : TeamOf(n)' = TeamOf(n)
        BY DEF TeamOf
      <3>3. heldByTeam'[t] = heldByTeam[t]
        <4>1. CASE \A n \in Members : TeamOf(n) = t => pkt[n] = NoPacket
          BY <1>1, <2>1, <3>2, <4>1 DEF HeldIsInHand
        <4>2. CASE \E n \in Members : TeamOf(n) = t /\ pkt[n] # NoPacket
          BY <1>1, <2>1, <3>2, <4>2 DEF HeldIsInHand
        <4> QED  BY <4>1, <4>2
      <3> QED  BY <3>1, <3>3
    <2>2. CASE t = TeamOf(m) /\ pkt'[m] # pkt[m]
      <3>1. \A n \in Members : TeamOf(n) = t /\ n # m =>
              pkt[n] = NoPacket /\ pkt'[n] = NoPacket
        <4>1. \A n \in Members : pkt[n] # NoPacket => Active(n)
          BY DEF IInv, PacketInHand, Active, Looping, Holding
        <4> QED  BY <2>2, <4>1, TagType
      <3>2. \A n \in Members : TeamOf(n)' = TeamOf(n)
        BY DEF TeamOf
      <3> QED  BY <1>1, <2>2, <3>1, <3>2 DEF HeldIsInHand
    <2> QED  BY <2>1, <2>2
  <1> QED  BY <1>2, <1>3, <1>4, MemberTeam

LEMMA HeldKept ==
  ASSUME IInv, IInv', UNCHANGED pkt PROVE heldByTeam' = heldByTeam
  <1>1. <<0, 0>> \in Members
    BY SizesAssumption DEF Members, Teams
  <1>2. heldByTeam' = [heldByTeam EXCEPT ![TeamOf(<<0, 0>>)] = @]
    BY <1>1, HeldStep
  <1>3. heldByTeam = [u \in Teams |-> heldByTeam[u]]
    BY DEF heldByTeam
  <1>4. ASSUME NEW f, NEW g, NEW u, f = [v \in Teams |-> f[v]],
               g = [f EXCEPT ![u] = @]
        PROVE  g = f
    BY <1>4
  <1> QED  BY <1>2, <1>3, <1>4

LEMMA HeldByMember ==
  ASSUME IInv, NEW m \in Members, pc[m] \in Looping \cup Holding
  PROVE  /\ heldByTeam[TeamOf(m)] = pkt[m]
         /\ TeamOf(m) \in Teams
         /\ Line!StationsOf(pkt[m]) = StationsOf(pkt[m])
  <1>1. pkt[m] # NoPacket /\ instructions[pkt[m]] \in Seq(Stations)
    BY PacketType
  <1>2. heldByTeam[TeamOf(m)] = pkt[m]
    BY <1>1, Held, MemberTeam DEF HeldIsInHand
  <1> QED  BY <1>1, <1>2, MemberTeam DEF Line!StationsOf, StationsOf

LEMMA LineInit == ASSUME Init PROVE Line!Init
  <1>1. heldByTeam = [t \in Teams |-> NoPacket]
    BY DEF heldByTeam, Init, Active
  <1> QED  BY <1>1 DEF Init, Line!Init, Line!Packets, Packets

LEMMA GrabPicksUp ==
  ASSUME IInv, IInv', NEW m \in Members, Grab(m)
  PROVE  Line!PickUp(TeamOf(m))
  <1>. DEFINE k == Head(packet_queue)
  <1>1. /\ pc[m] = "grab" /\ packet_queue # <<>> /\ packet_queue' = Tail(packet_queue)
        /\ UNCHANGED <<g_stations, instructions, cleared>>
        /\ pkt' = [pkt EXCEPT ![m] = k]
    BY DEF Grab
  <1>2. /\ pkt[m] = NoPacket /\ Active(m) /\ k \in Packets /\ k # NoPacket
    <2>1. pkt[m] = NoPacket /\ Active(m)
      BY <1>1 DEF IInv, PacketInHand, Looping, Holding, Active
    <2>2. packet_queue \in Seq(Packets)
      BY DEF IInv, TypeOK
    <2>3. k \in Packets
      BY <1>1, <2>2
    <2> QED  BY <2>1, <2>3, SizesAssumption
  <1>3. pkt'[m] = k /\ \A n \in Members : n # m => pkt'[n] = pkt[n]
    BY <1>1 DEF IInv, TypeOK
  <1>4. heldByTeam' = [heldByTeam EXCEPT ![TeamOf(m)] = k]
    BY <1>2, <1>3, HeldStep
  <1>5. heldByTeam[TeamOf(m)] = NoPacket
    <2>1. \A n \in Members : pkt[n] # NoPacket => Active(n)
      BY DEF IInv, PacketInHand, Active, Looping, Holding
    <2>2. \A n \in Members : TeamOf(n) = TeamOf(m) => pkt[n] = NoPacket
      BY <1>2, <2>1, TagType
    <2> QED  BY <2>2, Held, MemberTeam DEF HeldIsInHand
  <1> QED  BY <1>1, <1>4, <1>5 DEF Line!PickUp

LEMMA ReserveReserves ==
  ASSUME IInv, IInv', NEW m \in Members, Reserve(m)
  PROVE  Line!Reserve(TeamOf(m))
  <1>1. /\ pc[m] = "reserve" /\ AllAvailable(pkt[m])
        /\ g_stations' = [s \in Stations |-> IF s \in StationsOf(pkt[m])
                                             THEN pkt[m] ELSE g_stations[s]]
        /\ UNCHANGED <<packet_queue, instructions, cleared, pkt>>
    BY DEF Reserve
  <1>2. /\ pkt[m] # NoPacket /\ cleared[pkt[m]] = 0
        /\ heldByTeam[TeamOf(m)] = pkt[m]
        /\ Line!StationsOf(pkt[m]) = StationsOf(pkt[m])
    BY <1>1, PacketType, HeldByMember DEF Looping, IInv, ListProgress
  <1>3. heldByTeam' = heldByTeam
    BY <1>1, HeldKept
  <1> QED  BY <1>1, <1>2, <1>3 DEF Line!Reserve, AllAvailable

LEMMA WorkProcesses ==
  ASSUME IInv, IInv', NEW m \in Members, Work(m)
  PROVE  Line!Process(TeamOf(m))
  <1>. DEFINE k == pkt[m]
  <1>1. /\ pc[m] = "work" /\ pc[m] \in Holding
        /\ cleared' = [cleared EXCEPT ![k] = cleared[k] + 1]
        /\ UNCHANGED <<packet_queue, g_stations, instructions, pkt>>
    BY DEF Work, Holding
  <1>2. /\ heldByTeam[TeamOf(m)] = k /\ k # NoPacket
        /\ cleared[k] \in Nat /\ cleared[k] < Len(instructions[k])
        /\ instructions[k] \in Seq(Stations)
        /\ \A i, j \in 1 .. Len(instructions[k]) :
             i # j => instructions[k][i] # instructions[k][j]
    BY <1>1, PacketType, HeldByMember DEF IInv, ListProgress
  <1>3. heldByTeam' = heldByTeam
    BY <1>1, HeldKept
  <1>4. Kept(m) = {instructions[k][n] : n \in cleared[k] + 1 .. Len(instructions[k])}
    BY <1>1 DEF Kept, FirstKept
  <1>5. ASSUME NEW i \in DOMAIN instructions[k]
        PROVE  Line!IsReservedFor(instructions[k][i], k) <=> i > cleared[k]
    <2>1. i \in 1 .. Len(instructions[k]) /\ instructions[k][i] \in Stations
      BY <1>2
    <2>2. ASSUME i > cleared[k] PROVE g_stations[instructions[k][i]] = k
      <3>1. instructions[k][i] \in Kept(m)
        BY <1>2, <1>4, <2>1, <2>2
      <3> QED  BY <1>1, <3>1 DEF IInv, StationExclusion
    <2>3. ASSUME g_stations[instructions[k][i]] = k PROVE i > cleared[k]
      <3>1. PICK n \in Members :
              /\ pc[n] \in Holding /\ instructions[k][i] \in Kept(n) /\ pkt[n] = k
        BY <1>2, <2>1, <2>3 DEF IInv, StationExclusion
      <3>2. n = m
        BY <1>2, <3>1 DEF IInv, StationExclusion
      <3>3. PICK j \in cleared[k] + 1 .. Len(instructions[k]) :
              instructions[k][i] = instructions[k][j]
        BY <1>4, <3>1, <3>2
      <3>4. j \in 1 .. Len(instructions[k]) /\ j > cleared[k]
        BY <1>2, <3>3
      <3> QED  BY <1>2, <2>1, <3>3, <3>4
    <2> QED  BY <2>2, <2>3 DEF Line!IsReservedFor
  <1>. HIDE DEF k
  <1> QED  BY <1>1, <1>2, <1>3, <1>5 DEF Line!Process

LEMMA LeaveStationLeaves ==
  ASSUME IInv, IInv', NEW m \in Members, LeaveStation(m)
  PROVE  Line!Leave(TeamOf(m))
  <1>. DEFINE k == pkt[m]
              station == instructions[k][cleared[k]]
  <1>1. /\ pc[m] = "leave" /\ pc[m] \in Holding /\ cleared[k] > 0
        /\ g_stations' = [g_stations EXCEPT ![station] = NoPacket]
        /\ UNCHANGED <<packet_queue, instructions, cleared, pkt>>
    BY DEF LeaveStation, Holding
  <1>2. /\ heldByTeam[TeamOf(m)] = k /\ k # NoPacket
        /\ cleared[k] \in Nat /\ cleared[k] <= Len(instructions[k])
        /\ Len(instructions[k]) \in Nat
    BY <1>1, PacketType, HeldByMember
  <1>3. heldByTeam' = heldByTeam
    BY <1>1, HeldKept
  <1>4. station \in Kept(m)
    BY <1>1, <1>2 DEF Kept, FirstKept
  <1>5. g_stations[station] = k
    BY <1>1, <1>4 DEF IInv, StationExclusion
  <1> QED  BY <1>1, <1>2, <1>3, <1>5 DEF Line!Leave, Line!IsReservedFor

LEMMA ShipShips ==
  ASSUME IInv, IInv', NEW m \in Members, Ship(m)
  PROVE  Line!Ship(TeamOf(m))
  <1>. DEFINE k == pkt[m]
  <1>1. /\ pc[m] = "ship" /\ pc[m] \in Holding /\ Active(m)
        /\ pkt' = [pkt EXCEPT ![m] = NoPacket]
        /\ UNCHANGED <<packet_queue, g_stations, instructions, cleared>>
    BY DEF Ship, Holding, Active, line
  <1>2. /\ heldByTeam[TeamOf(m)] = k /\ k # NoPacket
        /\ cleared[k] = Len(instructions[k]) /\ Len(instructions[k]) \in Nat
    BY <1>1, PacketType, HeldByMember DEF IInv, ListProgress
  <1>3. pkt'[m] = NoPacket /\ \A n \in Members : n # m => pkt'[n] = pkt[n]
    BY <1>1 DEF IInv, TypeOK
  <1>4. heldByTeam' = [heldByTeam EXCEPT ![TeamOf(m)] = NoPacket]
    BY <1>1, <1>2, <1>3, HeldStep
  <1>5. Kept(m) = {}
    BY <1>1, <1>2 DEF Kept, FirstKept
  <1>6. \A s \in Stations : g_stations[s] # k
    BY <1>2, <1>5 DEF IInv, StationExclusion
  <1> QED  BY <1>1, <1>2, <1>4, <1>6 DEF Line!Ship, Line!IsReservedFor

LEMMA NextShipping == IInv /\ IInv' /\ [Next]_vars => [Line!Next]_(Line!vars)
  <1>. SUFFICES ASSUME IInv, IInv', [Next]_vars
                PROVE  Line!Next \/ UNCHANGED Line!vars
    OBVIOUS
  <1>1. ASSUME UNCHANGED <<line, pkt>> PROVE UNCHANGED Line!vars
    BY <1>1, HeldKept DEF Line!vars, line
  <1>2. ASSUME NEW m \in Members, Step(m)
        PROVE  Line!Next \/ UNCHANGED Line!vars
    <2>1. CASE Grab(m)
      BY <2>1, GrabPicksUp, MemberTeam DEF Line!Next
    <2>2. CASE Reserve(m)
      BY <2>2, ReserveReserves, MemberTeam DEF Line!Next
    <2>3. CASE LeaveStation(m)
      BY <2>3, LeaveStationLeaves, MemberTeam DEF Line!Next
    <2>4. CASE Work(m)
      BY <2>4, WorkProcesses, MemberTeam DEF Line!Next
    <2>5. CASE Ship(m)
      BY <2>5, ShipShips, MemberTeam DEF Line!Next
    <2>6. CASE Quiet(m) \/ AwaitTag(m) \/ GiveUp(m)
      BY <1>1, <2>6 DEF Quiet, AwaitTag, GiveUp
    <2> QED
      BY <1>2, <2>1, <2>2, <2>3, <2>4, <2>5, <2>6, QuietSteps DEF Step, IInv
  <1>3. CASE Stopped \/ UNCHANGED vars
    BY <1>1, <1>3 DEF Stopped, vars, line
  <1> QED  BY <1>2, <1>3 DEF Next

\* Whatever the semaphores do, the packages are handled as Shipping says: taken
\* in order, all stations reserved at once, visited in the order of the list.
THEOREM LineImplementsShipping == Spec => ImplementsShipping
  BY LineInit, NextShipping, Invariance, PTL
     DEF Spec, Line!Spec, ImplementsShipping
=============================================================================

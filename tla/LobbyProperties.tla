-------------------------- MODULE LobbyProperties ---------------------------
(***************************************************************************)
(* What is checked of the seats and sockets of module Lobby.               *)
(***************************************************************************)
EXTENDS Lobby

\* Renumberings move seats down, never out of the table.
Renumberings == UNION {[S -> 1..MaxSeats] : S \in SUBSET (1..MaxSeats)}

\* The parallel vectors of a room have one element for each seat.
RoomType(r) ==
    /\ r \in Room
    /\ Len(r.players) <= MaxSeats
    /\ Len(r.ready) = Len(r.players)

\* The types of the variables, with the parallel vectors of Room aligned.
TypeOK ==
    /\ RoomType(room)
    /\ issued \subseteq Token
    /\ tokenOf \in [Socket -> Token \cup {None}]
    /\ player_id \in [Socket -> 1..MaxSeats \cup {None}]
    /\ session \in [Socket -> 1..MaxSeats \cup {None}]
    /\ events \in [Pod -> Seq(Renumberings)]

-----------------------------------------------------------------------------
(* Safety.                                                                 *)

\* Every entry of a room leads its token home.
LeadsHome(r) ==
    \A e \in r.disconnected :
        /\ IsSeat(r, e.seat)
        /\ r.players[e.seat].token \in {e.token, None}

\* No token of a room is at two places.
Unmixed(r) ==
    /\ \A s1, s2 \in 1..Len(r.players) :
          Human(r, s1) /\ r.players[s1].token = r.players[s2].token => s1 = s2
    /\ \A e, f \in r.disconnected :
          e.token = f.token \/ e.seat = f.seat => e = f
    /\ \A e \in r.disconnected, s \in 1..Len(r.players) :
          e.token = r.players[s].token => e.seat = s

\* The entries of a room lead home and its tokens are not mixed up.
Sound(r) == LeadsHome(r) /\ Unmixed(r)

\* Every entry leads its token home: to a seat of the room that is still the
\* token's, or is a bot that has no token of its own.  Seats are compacted
\* while entries wait (remove_lobby_seat); a wrong one hands a human's seat to
\* another.
EntriesPointHome == LeadsHome(room)

\* No token has two seats, or two entries, or a seat and an entry that leads
\* to another seat: rejoin_room takes the first entry it finds.
OneSeatEach == Unmixed(room)

\* The only connections a broadcast reaches at a seat are those of the human
\* who sits there: once nothing is in flight, the session map agrees with the
\* room.  Broadcasts show the hand of the session's seat.
SessionsFollowSeats ==
    (Exists /\ \A p \in Pod : events[p] = <<>>)
    => \A c \in Socket, s \in 1..Len(room.players) :
          session[c] # None /\ tokenOf[c] # None /\ room.players[s].token = tokenOf[c]
          => session[c] = s

\* A request acts on the seat of the human who sent it.
SpeaksForItsSeat ==
    Exists
    => \A c \in Socket, s \in 1..Len(room.players) :
          player_id[c] # None /\ room.players[s].token = tokenOf[c]
          => player_id[c] = s

-----------------------------------------------------------------------------
(* What a step may do.                                                     *)

HasHost(r) == \E s \in 1..Len(r.players) : Present(r, s) /\ r.players[s].creator

\* A lobby with a connected host keeps one as long as a human is connected:
\* whoever goes with the crown passes it on, whatever seats move meanwhile.
HostIsKept ==
    [][room.phase = "Lobby" /\ HasHost(room)
       /\ room'.phase = "Lobby" /\ HasConnectedHuman(room')
       => HasHost(room')]_vars

PresentTokens(r) == {r.players[s].token : s \in {s \in 1..Len(r.players) : Present(r, s)}}

\* A step that does not remove the room disconnects at most one human: the
\* seats it reaps and moves are nobody else's.
OthersStay ==
    [][room'.phase # "Gone"
       => \A t1, t2 \in PresentTokens(room) \ PresentTokens(room') : t1 = t2]_vars

\* Only a public lobby is removed under its connected humans.
NotRemovedInUse ==
    [][Exists /\ room'.phase = "Gone"
       => \/ room.public /\ room.phase = "Lobby"
          \/ Cardinality(PresentTokens(room)) <= 1]_vars

\* A session of the seat its human sits on, once all that is under way to its
\* pod has arrived: the path is the seat after each message.
Agrees(c) ==
    LET coming == events[PodOf[c]]
    IN  \E path \in [0..Len(coming) -> 1..MaxSeats] :
           /\ path[0] = session[c]
           /\ \A i \in 1..Len(coming) : path[i] = Moved(path[i - 1], coming[i])
           /\ IsSeat(room, path[Len(coming)])
           /\ room.players[path[Len(coming)]].token = tokenOf[c]

\* The human behind a session has a seat.
Sits(c) ==
    /\ session[c] # None /\ tokenOf[c] # None
    /\ \E s \in 1..Len(room.players) : room.players[s].token = tokenOf[c]

\* A lobby seat went and no pod was told.
CompactsUntold == Len(room'.players) < Len(room.players) /\ events' = events

\* A pod renumbers its sessions before an earlier renumbering has reached it.
CompactsAhead ==
    /\ Len(room'.players) < Len(room.players)
    /\ \E p \in Pod : events[p] # <<>> /\ events'[p] = events[p]

\* A session that shows the seat of its human, or will when what was sent has
\* arrived, does so after every step but these two: whatever seats move, each
\* pod's map follows.
SessionsKeepUp ==
    [][Exists
       => \/ \A c \in Socket : Sits(c) /\ Agrees(c) /\ Sits(c)' => Agrees(c)'
          \/ CompactsUntold \/ CompactsAhead
          \/ ~Unmixed(room)]_vars

-----------------------------------------------------------------------------
(* What must happen.                                                       *)

Deserted == Exists /\ ~HasConnectedHuman(room)

\* A room whose last human lost the connection is dropped, unless a human
\* comes.
DroppedRoomsGo == (Deserted /\ room.deserted # None) ~> ~Deserted

\* A room whose last human left is dropped.
EmptyRoomsGo == Deserted ~> ~Deserted
=============================================================================

------------------------------- MODULE Seats --------------------------------
(***************************************************************************)
(* The seats of a room and what lobby operations do to them (struct Room   *)
(* and its methods in game/state.rs, apply_seat_disconnect and             *)
(* remove_player of rooms.rs), as operators on the value of a room.        *)
(*                                                                         *)
(* A room has the phase, whether it is public, the seats in order, a ready *)
(* bit for each, the entries of disconnected_players as a set (the code's  *)
(* list is searched by token and by seat, and neither occurs twice), and   *)
(* last_human_disconnect_at.  Seat i of the model is id i - 1 of the code: *)
(* `players[i].id == i` is the position here.  Instants are kept as ages,  *)
(* None for no instant.                                                    *)
(*                                                                         *)
(* A seat is a bot iff it has no token, and is connected iff it has no     *)
(* disconnect time: the code sets the two fields of each pair together.    *)
(***************************************************************************)
EXTENDS Naturals, SequencesExt

CONSTANTS Token,          \* the tokens of the humans
          Pod,            \* the processes of the server
          None,
          LobbyTimeout,   \* DISCONNECT_TIMEOUT_SEC
          OrphanTimeout,  \* ROOM_ORPHAN_TIMEOUT_SECS
          RejoinTimeout,  \* REJOIN_TIMEOUT_SECS
          MaxAge          \* bound: older than every timeout is all the same

ASSUME NoneAssumption == None \notin Token \cup Pod \cup Nat

ASSUME TimeoutAssumption ==
    /\ LobbyTimeout \in Nat /\ OrphanTimeout \in Nat /\ RejoinTimeout \in Nat \ {0}
    /\ MaxAge \in Nat
    /\ \A t \in {LobbyTimeout, OrphanTimeout, RejoinTimeout} : t <= MaxAge

MaxSeats == 4

Age == 0..MaxAge

SeatRecord == [token   : Token \cup {None},
               gone    : Age \cup {None},   \* since disconnect_time
               creator : BOOLEAN,
               owner   : Pod \cup {None}]   \* owned_by_pod

Entry == [seat : 1..MaxSeats, token : Token, age : Age]

Room == [phase        : {"None", "Lobby", "Started", "Gone"},
         public       : BOOLEAN,               \* is_public
         players      : Seq(SeatRecord),
         ready        : Seq(BOOLEAN),
         disconnected : SUBSET Entry,
         deserted     : Age \cup {None}]    \* since last_human_disconnect_at

NoRoom == [phase |-> "None", public |-> FALSE, players |-> <<>>, ready |-> <<>>,
           disconnected |-> {}, deserted |-> None]

\* delete: nothing is left of a removed room.
GoneRoom == [NoRoom EXCEPT !.phase = "Gone"]

-----------------------------------------------------------------------------
(* Seats and humans.                                                       *)

IsSeat(room, s) == s \in 1..Len(room.players)

Human(room, s) == IsSeat(room, s) /\ room.players[s].token # None

\* A human seat with a connection.
Present(room, s) == Human(room, s) /\ room.players[s].gone = None

HasConnectedHuman(room) == \E s \in 1..Len(room.players) : Present(room, s)

AllHumanReady(room) ==
    \A s \in 1..Len(room.players) : Human(room, s) => room.ready[s]

\* Mutant: the timer alone decides.
IsOrphanedByTimer(room) ==
    room.deserted # None /\ room.deserted >= OrphanTimeout

\* Mutant: seats that are kept for humans who are away count.
IsOrphanedWhenEmpty(room) ==
    /\ ~\E s \in 1..Len(room.players) : Human(room, s)
    /\ room.deserted # None
    /\ room.deserted >= OrphanTimeout

IsOrphaned(room) ==
    /\ ~HasConnectedHuman(room)
    /\ room.deserted # None
    /\ room.deserted >= OrphanTimeout

NewSeat(t, crown, pod) ==
    [token |-> t, gone |-> None, creator |-> crown, owner |-> pod]

Bot == NewSeat(None, FALSE, None)

NewRoom(t, pod, public) ==
    [phase |-> "Lobby", public |-> public,
     players |-> <<NewSeat(t, TRUE, pod)>>, ready |-> <<TRUE>>,
     disconnected |-> {}, deserted |-> None]

AddPlayer(room, t, pod) ==
    [room EXCEPT !.players = Append(@, NewSeat(t, FALSE, pod)),
                 !.ready   = Append(@, FALSE)]

\* start_game in the lobby: bots fill the table.
FillWithBots(room) ==
    [room EXCEPT
        !.phase   = "Started",
        !.players = [s \in 1..MaxSeats |-> IF IsSeat(room, s) THEN @[s] ELSE Bot],
        !.ready   = [s \in 1..MaxSeats |-> IF IsSeat(room, s) THEN @[s] ELSE TRUE]]

-----------------------------------------------------------------------------
(* Entries to come back by.                                                *)

\* Mutant: at most one entry.
AddFirstDisconnected(room, s, t) ==
    IF room.disconnected # {}
    THEN room
    ELSE [room EXCEPT !.disconnected =
             @ \cup {[seat |-> s, token |-> t, age |-> 0]}]

\* Mutant: without the check for the seat.
AddDisconnectedTwice(room, s, t) ==
    [room EXCEPT !.disconnected = @ \cup {[seat |-> s, token |-> t, age |-> 0]}]

\* add_disconnected_player: at most one entry for a seat.
AddDisconnected(room, s, t) ==
    IF \E e \in room.disconnected : e.seat = s
    THEN room
    ELSE [room EXCEPT !.disconnected =
             @ \cup {[seat |-> s, token |-> t, age |-> 0]}]

\* cleanup_expired_disconnected
CleanupExpired(room) ==
    [room EXCEPT !.disconnected = {e \in @ : e.age < RejoinTimeout}]

\* restore_seat and human_reconnected, by a socket of the pod.
RestoreSeat(room, s, t, pod) ==
    [room EXCEPT
        !.players[s] = [@ EXCEPT !.token = t, !.gone = None, !.owner = pod],
        !.deserted   = None]

-----------------------------------------------------------------------------
(* A seat leaves the lobby.  A renumbering is a function from old to new   *)
(* seats; a list of pairs of which the first match counts is one too.      *)

\* Mutant: the entries behind the seat are not shifted.
DropEntry(entries, s) == {e \in entries : e.seat # s}

\* The entries after seat s is taken out.
ShiftEntries(entries, s) ==
    {[e EXCEPT !.seat = IF @ > s THEN @ - 1 ELSE @] :
        e \in {f \in entries : f.seat # s}}

\* Mutant: the ready bit stays.
RemoveSeatOnly(room, s) ==
    [room EXCEPT !.players      = RemoveAt(@, s),
                 !.disconnected = ShiftEntries(@, s)]

\* remove_lobby_seat
RemoveSeat(room, s) ==
    [room EXCEPT !.players      = RemoveAt(@, s),
                 !.ready        = RemoveAt(@, s),
                 !.disconnected = ShiftEntries(@, s)]

\* Mutant: the seat right behind is not reported.
SeatsFurtherBehind(room, s) == [i \in (s + 2)..Len(room.players) |-> i - 1]

\* What remove_lobby_seat returns.
SeatsBehind(room, s) == [i \in (s + 1)..Len(room.players) |-> i - 1]

\* Mutant: a seat without a disconnect time counts as stale.
StaleOrPresent(room, s) ==
    /\ IsSeat(room, s)
    /\ room.players[s].gone = None \/ room.players[s].gone >= LobbyTimeout

Stale(room, s) ==
    /\ IsSeat(room, s)
    /\ room.players[s].gone # None
    /\ room.players[s].gone >= LobbyTimeout

\* One list of pairs behind another: of two pairs for a seat the first counts.
\* (It is @@ of TLC, of which the prover knows no definition.)
Extend(moved, more) ==
    [i \in DOMAIN moved \cup DOMAIN more |->
        IF i \in DOMAIN moved THEN moved[i] ELSE more[i]]

\* One turn of the loop: the lowest stale seat goes, and the pairs it moves
\* are appended to the list.
ReapOne(reaped) ==
    LET room == reaped.room
    IN  IF \E s \in 1..Len(room.players) : Stale(room, s)
        THEN LET s == CHOOSE s \in 1..Len(room.players) :
                        /\ Stale(room, s)
                        /\ \A i \in 1..(s - 1) : ~Stale(room, i)
             IN  [room |-> RemoveSeat(room, s),
                  renumbered |-> Extend(reaped.renumbered, SeatsBehind(room, s))]
        ELSE reaped

\* cleanup_disconnected_lobby_players: there are at most four seats to reap.
ReapStale(room) ==
    ReapOne(ReapOne(ReapOne(ReapOne([room |-> room, renumbered |-> <<>>]))))

\* Mutant: the next human, connected or not.
TransferCrownToHuman(room, s) ==
    IF \E i \in 1..Len(room.players) : i # s /\ Human(room, i)
    THEN LET next == CHOOSE i \in 1..Len(room.players) :
                        /\ i # s /\ Human(room, i)
                        /\ \A j \in 1..(i - 1) : j # s => ~Human(room, j)
         IN  [room EXCEPT !.players[next] = [@ EXCEPT !.creator = TRUE],
                          !.ready[next]   = TRUE]
    ELSE room

\* transfer_crown_from: the next human wears a crown and is ready.  The one
\* who leaves keeps its own.
TransferCrown(room, s) ==
    IF \E i \in 1..Len(room.players) : i # s /\ Present(room, i)
    THEN LET next == CHOOSE i \in 1..Len(room.players) :
                        /\ i # s /\ Present(room, i)
                        /\ \A j \in 1..(i - 1) : j # s => ~Present(room, j)
         IN  [room EXCEPT !.players[next] = [@ EXCEPT !.creator = TRUE],
                          !.ready[next]   = TRUE]
    ELSE room

-----------------------------------------------------------------------------
(* A human goes.  The result is the room, GoneRoom if it is removed, and   *)
(* the renumbering.                                                        *)

Outcome(room) == [room |-> room, renumbered |-> <<>>]

\* record_human_disconnect
RecordHumanDisconnect(room) ==
    [room EXCEPT !.deserted = IF HasConnectedHuman(room) THEN None ELSE 0]

Disconnect(room, s) ==
    [room EXCEPT !.players[s] = [@ EXCEPT !.gone = 0, !.owner = None]]

PassCrownOn(room, s) ==
    IF room.players[s].creator THEN TransferCrown(room, s) ELSE room

\* A seat of a running game is played by a bot.
TurnIntoBot(room, s) ==
    [room EXCEPT !.players[s] = [@ EXCEPT !.token = None, !.gone = None]]

ReleaseOwner(room, s) == [room EXCEPT !.players[s] = [@ EXCEPT !.owner = None]]

UnlessOrphaned(outcome) ==
    IF IsOrphaned(outcome.room) THEN Outcome(GoneRoom) ELSE outcome

\* Both ways to go dissolve a public lobby when a creator goes.
Dissolves(room, s) ==
    room.phase = "Lobby" /\ room.public /\ Human(room, s) /\ room.players[s].creator

\* apply_seat_disconnect for a seat that is there.
SeatDisconnect(room, s) ==
    LET kept   == AddDisconnected(room, s, room.players[s].token)
        reaped == ReapStale(PassCrownOn(Disconnect(kept, s), s))
    IN  CASE Dissolves(room, s) -> Outcome(GoneRoom)
          [] Human(room, s) /\ room.phase = "Lobby" /\ ~Dissolves(room, s) ->
                UnlessOrphaned([reaped EXCEPT !.room = RecordHumanDisconnect(@)])
          [] Human(room, s) /\ room.phase # "Lobby" ->
                UnlessOrphaned(Outcome(RecordHumanDisconnect(
                    ReleaseOwner(TurnIntoBot(kept, s), s))))
          [] ~Human(room, s) ->
                Outcome([room EXCEPT !.players[s] = [@ EXCEPT !.gone = 0]])

\* remove_player for a seat that is there.
RemovePlayer(room, s) ==
    LET t == room.players[s].token
        forgotten == [PassCrownOn(room, s) EXCEPT !.disconnected =
                         {e \in @ : e.token # t}]
    IN  CASE Dissolves(room, s) -> Outcome(GoneRoom)
          [] Human(room, s) /\ room.phase = "Lobby" /\ ~Dissolves(room, s) ->
                [room |-> RemoveSeat(forgotten, s),
                 renumbered |-> SeatsBehind(room, s)]
          [] Human(room, s) /\ room.phase # "Lobby" ->
                UnlessOrphaned(Outcome(RecordHumanDisconnect(TurnIntoBot(room, s))))
          [] ~Human(room, s) -> Outcome(room)

-----------------------------------------------------------------------------
\* A second passes for every instant the room keeps.
Older(age) == IF age = None \/ age = MaxAge THEN age ELSE age + 1

OlderSeat(seat) == [seat EXCEPT !.gone = Older(@)]

AgeRoom(room) ==
    [room EXCEPT
        !.players      = [s \in 1..Len(@) |-> OlderSeat(@[s])],
        !.disconnected = {[e EXCEPT !.age = Older(@)] : e \in @},
        !.deserted     = Older(@)]
=============================================================================

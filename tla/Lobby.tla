------------------------------- MODULE Lobby --------------------------------
(***************************************************************************)
(* The sockets around one room: who creates, joins, leaves, drops and      *)
(* comes back, and the three places that remember a socket's seat: the     *)
(* room, the socket's own player_id (ws.rs), and the session map of its    *)
(* pod, which broadcasts are personalised by (rooms.rs).                   *)
(*                                                                         *)
(* An action is one step under the room lock, or what a socket's task does *)
(* before or after it.  Once the game is started only its seats are        *)
(* followed; module Game plays it.                                         *)
(***************************************************************************)
EXTENDS Seats

CONSTANTS Socket,   \* connections, used again when closed
          PodOf,    \* the pod a socket is connected to
          MayDrop,  \* the sockets that may close without a LeaveRoom
          Hasty     \* whether a human may go while another's join or leave is
                    \* between its locked step and the session map

ASSUME PodOfAssumption == PodOf \in [Socket -> Pod]

ASSUME HastyAssumption == MayDrop \subseteq Socket /\ Hasty \in BOOLEAN

VARIABLES
    room,       \* the room in the store
    issued,     \* the tokens given out so far
    tokenOf,    \* the token of the human behind a socket
    player_id,  \* handle_ws's own idea of its seat, None without one
    session,    \* the seat kept in the session map of the socket's pod
    events      \* renumberings published to a pod and not yet received

vars == <<room, issued, tokenOf, player_id, session, events>>

Init ==
    /\ room = NoRoom
    /\ issued = {}
    /\ tokenOf = [c \in Socket |-> None]
    /\ player_id = [c \in Socket |-> None]
    /\ session = [c \in Socket |-> None]
    /\ events = [p \in Pod |-> <<>>]

Exists == room.phase \in {"Lobby", "Started"}

\* A socket whose task is back at its read loop, without and with a seat.
Fresh(c)  == player_id[c] = None /\ session[c] = None
Seated(c) == player_id[c] # None /\ session[c] # None

Settled == \A c \in Socket : Fresh(c) \/ Seated(c)

-----------------------------------------------------------------------------
(* Session maps.                                                           *)

\* apply_renumbering: the first pair for an old seat counts.
Moved(seat, moved) == IF seat \in DOMAIN moved THEN moved[seat] ELSE seat

Renumber(seats, pod, moved) ==
    [c \in Socket |-> IF PodOf[c] = pod THEN Moved(seats[c], moved) ELSE seats[c]]

\* The end of with_lock: a removed room's sessions go, others are renumbered,
\* on the pod that did the step.
Commit(outcome, pod) ==
    /\ room' = outcome.room
    /\ session' = IF outcome.room.phase = "Gone"
                  THEN [c \in Socket |-> IF PodOf[c] = pod THEN None ELSE session[c]]
                  ELSE Renumber(session, pod, outcome.renumbered)

\* Mutant: the pod does not recognise its own message.
PublishToAll(moved, pod) ==
    events' = [p \in Pod |-> IF DOMAIN moved # {} THEN Append(events[p], moved)
                             ELSE events[p]]

\* A SeatChanged reaches the other pods by pub/sub, in order.
PublishSeatChanged(moved, pod) ==
    events' = [p \in Pod |-> IF p # pod /\ DOMAIN moved # {}
                             THEN Append(events[p], moved) ELSE events[p]]

\* run_once of pubsub.rs: one SeatChanged of another pod.
Deliver(p) ==
    /\ events[p] # <<>>
    /\ session' = Renumber(session, p, Head(events[p]))
    /\ events' = [events EXCEPT ![p] = Tail(@)]
    /\ UNCHANGED <<room, issued, tokenOf, player_id>>

-----------------------------------------------------------------------------
(* A socket takes a seat: the locked step first, the session map later.    *)

TakeSeat(c, t, s) ==
    /\ tokenOf' = [tokenOf EXCEPT ![c] = t]
    /\ player_id' = [player_id EXCEPT ![c] = s]
    /\ UNCHANGED <<session, events>>

\* create_room
Create(c, t, public) ==
    /\ Fresh(c) /\ room.phase = "None"
    /\ room' = NewRoom(t, PodOf[c], public)
    /\ issued' = {t}
    /\ TakeSeat(c, t, 1)

\* join_room
Join(c, t) ==
    /\ Fresh(c) /\ t \notin issued
    /\ room.phase = "Lobby" /\ Len(room.players) < MaxSeats
    /\ room' = AddPlayer(room, t, PodOf[c])
    /\ issued' = issued \cup {t}
    /\ TakeSeat(c, t, Len(room.players) + 1)

\* rejoin_room with an entry of the token; without one nothing is saved.
Rejoin(c, t) ==
    LET current == CleanupExpired(room)
    IN  /\ Fresh(c) /\ Exists
        /\ \E e \in current.disconnected :
              /\ e.token = t
              /\ room' = RestoreSeat([current EXCEPT !.disconnected = @ \ {e}],
                                     e.seat, t, PodOf[c])
              /\ TakeSeat(c, t, e.seat)
        /\ UNCHANGED issued

\* add_session with the player_id of the reply.  What is left in the session
\* maps for a room that is gone is not followed.
AddSession(c) ==
    /\ Exists /\ player_id[c] # None /\ session[c] = None
    /\ session' = [session EXCEPT ![c] = player_id[c]]
    /\ UNCHANGED <<room, issued, tokenOf, player_id, events>>

-----------------------------------------------------------------------------
(* Requests of a seated socket.                                            *)

\* ready_player: any seat of the room that is not a bot.
Ready(c, ready) ==
    /\ Seated(c) /\ Exists
    /\ Human(room, player_id[c])
    /\ room' = [room EXCEPT !.ready[player_id[c]] = ready]
    /\ UNCHANGED <<issued, tokenOf, player_id, session, events>>

\* start_game of the first round.
Start(c) ==
    /\ Seated(c) /\ room.phase = "Lobby"
    /\ IsSeat(room, player_id[c]) /\ room.players[player_id[c]].creator
    /\ AllHumanReady(room)
    /\ room' = FillWithBots(room)
    /\ UNCHANGED <<issued, tokenOf, player_id, session, events>>

\* The task ends; its sender is taken out of the session map afterwards.
EndTask(c) ==
    /\ tokenOf' = [tokenOf EXCEPT ![c] = None]
    /\ player_id' = [player_id EXCEPT ![c] = None]
    /\ UNCHANGED issued

MayGo(c) == Seated(c) /\ (Hasty \/ Settled)

\* LeaveRoom: remove_player of the seat the socket believes to have.
Leave(c) ==
    /\ MayGo(c) /\ Exists
    /\ IF IsSeat(room, player_id[c])
       THEN LET outcome == RemovePlayer(room, player_id[c])
            IN  /\ Commit(outcome, PodOf[c])
                /\ PublishSeatChanged(outcome.renumbered, PodOf[c])
       ELSE UNCHANGED <<room, session, events>>
    /\ EndTask(c)

\* The connection closes: leave_room of the seat the socket believes to have.
\* Its step publishes no SeatChanged.
Drop(c) ==
    /\ c \in MayDrop /\ MayGo(c) /\ Exists
    /\ IF IsSeat(room, player_id[c])
       THEN Commit(SeatDisconnect(room, player_id[c]), PodOf[c])
       ELSE UNCHANGED <<room, session>>
    /\ UNCHANGED events
    /\ EndTask(c)

\* remove_session
RemoveSession(c) ==
    /\ player_id[c] = None /\ session[c] # None
    /\ session' = [session EXCEPT ![c] = None]
    /\ UNCHANGED <<room, issued, tokenOf, player_id, events>>

-----------------------------------------------------------------------------
(* Steps nobody in the room asks for.                                      *)

\* check_room
CheckRoom ==
    /\ Exists
    /\ room' = CleanupExpired(room)
    /\ UNCHANGED <<issued, tokenOf, player_id, session, events>>

Tick ==
    /\ Exists
    /\ room' = AgeRoom(room)
    /\ UNCHANGED <<issued, tokenOf, player_id, session, events>>

\* reap_orphaned_rooms, on a pod that has clients in this or another room.
ReapOrphan(pod) ==
    /\ Exists /\ IsOrphaned(room)
    /\ Commit(Outcome(GoneRoom), pod)
    /\ UNCHANGED <<issued, tokenOf, player_id, events>>

Next ==
    \/ \E c \in Socket, t \in Token :
          \/ \E public \in BOOLEAN : Create(c, t, public)
          \/ Join(c, t) \/ Rejoin(c, t)
    \/ \E c \in Socket :
          \/ AddSession(c) \/ RemoveSession(c)
          \/ \E ready \in BOOLEAN : Ready(c, ready)
          \/ Start(c) \/ Leave(c) \/ Drop(c)
    \/ \E p \in Pod : Deliver(p) \/ ReapOrphan(p)
    \/ CheckRoom \/ Tick

Spec == Init /\ [][Next]_vars

\* Time passes, and a pod with clients reaps every fifth tick.
Fairness == WF_vars(Tick) /\ \A p \in Pod : WF_vars(ReapOrphan(p))

FairSpec == Spec /\ Fairness
=============================================================================

--------------------------- MODULE PodsProperties ---------------------------
(***************************************************************************)
(* What is checked of the processes of module Pods.                        *)
(***************************************************************************)
EXTENDS Pods, LobbyProperties

\* The types of the variables of the lobby and of the processes.
PodsTypeOK ==
    /\ TypeOK
    /\ up \subseteq Pod /\ alive \subseteq Pod
    /\ seen \in [Pod \cup Socket -> (SUBSET Pod) \cup {None}]

\* The human of a socket is in a seat.
InSeat(c) ==
    tokenOf[c] # None /\ \E s \in 1..Len(room.players) :
        Present(room, s) /\ room.players[s].token = tokenOf[c]

\* It is, and no socket of another process has taken the seat over.
Holds(c) ==
    InSeat(c) /\ \E s \in 1..Len(room.players) :
        room.players[s].token = tokenOf[c] /\ room.players[s].owner = PodOf[c]

\* A step in which no socket goes.
NobodyGoes == \A c \in Socket : tokenOf[c] # None => tokenOf'[c] = tokenOf[c]

\* No reaper and no rejoin takes the seat of a human whose socket is there
\* (reap_zombie_seats frees the seats of pods that died hard).
SeatsAreNotTaken ==
    [][NobodyGoes /\ room'.phase # "Gone"
       => \A c \in Socket : Holds(c) => InSeat(c)']_allVars

\* No reaper or rejoin under way takes the process of a socket for dead.
TakenForAlive(c) == \A x \in Pod \cup Socket : seen[x] = None \/ PodOf[c] \in seen[x]

\* As long as the key of its process is there when others look, the seat of a
\* human who is there is only taken by a step that compacts the lobby, for a
\* number that belonged to another seat.
OnlyCompactionTakesSeats ==
    [][/\ NobodyGoes /\ room'.phase # "Gone"
       /\ Len(room'.players) >= Len(room.players) /\ Sound(room)
       => \A c \in Socket : Holds(c) /\ TakenForAlive(c) => InSeat(c)']_allVars

-----------------------------------------------------------------------------
(* What keeps the seats apart, and what is at stake.                       *)

\* The tokens that find a seat to come back to: rejoin_room drops the entries
\* that are too old before it looks.
Remembered(r) ==
    {r.players[s].token : s \in 1..Len(r.players)}
    \cup {e.token : e \in CleanupExpired(r).disconnected}

\* A reclaim has left its entry at the seat, and that is too old by now
\* (rejoin_room, second path).
LeftoverExpired(r, s) ==
    \E e \in r.disconnected : e.token = r.players[s].token /\ e.age >= RejoinTimeout

\* Whoever is taken for dead in a running game can come back: its token keeps
\* a seat, or an entry that is not too old (apply_seat_disconnect).  The only
\* exception is one whose seat has the entry of an earlier reclaim:
\* add_disconnected_player does not renew it.
ReapedCanReturn ==
    [][/\ room.phase = "Started" /\ room'.phase = "Started"
       /\ NobodyGoes /\ Sound(room)
       => \A s \in 1..Len(room.players) :
             Human(room, s) => \/ room.players[s].token \in Remembered(room')
                               \/ LeftoverExpired(room, s)]_allVars

\* A socket takes back a seat, and a seat of the lobby goes.
ReclaimCompacts ==
    /\ Len(room'.players) < Len(room.players)
    /\ \E c \in Socket : tokenOf[c] = None /\ tokenOf'[c] # None

\* Only a reclaim that compacts the lobby mixes seats up: it writes the token
\* into the old number of the seat, which is the seat of another by then.
OnlyReclaimMixesSeats ==
    [][Sound(room) => Sound(room') \/ ReclaimCompacts]_allVars

-----------------------------------------------------------------------------
\* A seat of a process that was killed is taken.
HeldByTheDead ==
    \E s \in 1..Len(room.players) : Present(room, s) /\ room.players[s].owner \notin up

\* The seats of a process that was killed do not stay taken as long as some
\* process is active (tick_once, reap_zombie_seats).
ZombieSeatsGo == HeldByTheDead ~> ~HeldByTheDead
=============================================================================

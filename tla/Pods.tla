-------------------------------- MODULE Pods --------------------------------
(***************************************************************************)
(* The processes behind the sockets of module Lobby: they crash, their     *)
(* liveness keys expire, and the others free the seats they leave behind.  *)
(*                                                                         *)
(* A Pod is one boot of a process (boot_id): it does not come back from a  *)
(* crash, a new process is another one.  All have been started; one that   *)
(* is not yet in use is idle.                                              *)
(***************************************************************************)
EXTENDS Lobby

CONSTANTS MayCrash,   \* the processes that may be killed
          Busy,       \* the processes that have clients in other rooms, too
          ScanFails,  \* whether the SCAN for the keys may fail
          MayLeave,   \* bound: the sockets that may send LeaveRoom
          MayReclaim, \* bound: the sockets that may look for a zombie seat
          MayReady,   \* bound: what sockets may say of being ready
          Publicity   \* bound: what is_public may be

ASSUME PodsAssumption ==
    /\ MayCrash \subseteq Pod /\ Busy \subseteq Pod /\ ScanFails \in BOOLEAN
    /\ MayLeave \cup MayReclaim \subseteq Socket
    /\ MayReady \subseteq Socket \X BOOLEAN /\ Publicity \subseteq BOOLEAN

VARIABLES
    up,      \* the running processes
    alive,   \* the processes with a key pod:alive:{boot_id}
    seen     \* the live processes a reaper or a rejoin has read, None before

podVars == <<up, alive, seen>>
allVars == <<vars, podVars>>

InitPods ==
    /\ Init
    /\ up = Pod /\ alive = Busy
    /\ seen = [x \in Pod \cup Socket |-> None]

\* tick_once: a process without sessions does nothing.
Active(p) == p \in up /\ (p \in Busy \/ \E c \in Socket : PodOf[c] = p /\ session[c] # None)

-----------------------------------------------------------------------------
(* Liveness keys.                                                          *)

\* heartbeat, once a second.
Heartbeat(p) ==
    /\ Active(p) /\ p \notin alive
    /\ alive' = alive \cup {p}
    /\ UNCHANGED <<vars, up, seen>>

\* Mutant: the key has no EX.
KeyStays(p) == FALSE

\* The key of a process that does not refresh it: an active one always does
\* in time.
KeyExpires(p) ==
    /\ p \in alive /\ ~Active(p)
    /\ alive' = alive \ {p}
    /\ UNCHANGED <<vars, up, seen>>

\* kill -9: sockets, sessions and the subscription are gone, the room stays.
Crash(p) ==
    LET Lost(f) == [c \in Socket |-> IF PodOf[c] = p THEN None ELSE f[c]]
    IN  /\ p \in up \cap MayCrash
        /\ up' = up \ {p}
        /\ tokenOf' = Lost(tokenOf) /\ player_id' = Lost(player_id)
        /\ session' = Lost(session)
        /\ events' = [events EXCEPT ![p] = <<>>]
        /\ seen' = [x \in Pod \cup Socket |->
                      IF x = p \/ (x \in Socket /\ PodOf[x] = p) THEN None ELSE seen[x]]
        /\ UNCHANGED <<room, issued, alive>>

-----------------------------------------------------------------------------
(* Zombies: seats of processes that were not alive when last looked at.    *)

\* live_pods, before the room is locked.  A failing SCAN ends the list.  When
\* all are alive there is nothing to find.
ReadLive(x) ==
    /\ Exists /\ seen[x] = None
    /\ \E live \in IF ScanFails THEN SUBSET alive ELSE {alive} :
          live # Pod /\ seen' = [seen EXCEPT ![x] = live]
    /\ UNCHANGED <<vars, up, alive>>

\* A tick heartbeats before it reaps; a rejoin reads on a fresh socket.
ReadForReap(p)   == Active(p) /\ p \in alive /\ ReadLive(p)
ReadForRejoin(c) == c \in MayReclaim /\ PodOf[c] \in up /\ Fresh(c) /\ ReadLive(c)

Forget(x) == seen' = [seen EXCEPT ![x] = None]

\* Mutant: the owner is not looked at.
AnySeat(r, s, live) == Present(r, s)

Zombie(r, s, live) ==
    Present(r, s) /\ r.players[s].owner # None /\ r.players[s].owner \notin live

\* One of the ids collected before: it may be another seat by now.
TakeZombie(outcome, s, zombies) ==
    IF s \in zombies /\ IsSeat(outcome.room, s)
    THEN LET next == SeatDisconnect(outcome.room, s)
         IN  [next EXCEPT !.renumbered = Extend(outcome.renumbered, @)]
    ELSE outcome

\* The closure of reap_zombie_seats: there are at most four seats.
TakeZombies(r, live) ==
    LET zombies == {s \in 1..Len(r.players) : Zombie(r, s, live)}
        Take(outcome, s) == TakeZombie(outcome, s, zombies)
    IN  Take(Take(Take(Take(Outcome(r), 1), 2), 3), 4)

\* reap_zombie_seats: the renumbering goes to this pod's sessions only.
ReapZombies(p) ==
    /\ p \in up /\ seen[p] # None /\ Exists
    /\ Commit(TakeZombies(room, seen[p]), p)
    /\ Forget(p)
    /\ UNCHANGED <<issued, tokenOf, player_id, events, up, alive>>

\* The second path of rejoin_room: the seat is given up and taken again, by its
\* old number.  Its entry stays.  A room that the first half removes is removed,
\* whatever is replied.  A number that is gone panics: no step.
RejoinZombie(c, t) ==
    LET current == CleanupExpired(room)
    IN  /\ PodOf[c] \in up /\ Fresh(c) /\ seen[c] # None /\ Exists
        /\ ~\E e \in current.disconnected : e.token = t
        /\ \E s \in 1..Len(room.players) :
              LET outcome == SeatDisconnect(current, s)
              IN  /\ Zombie(current, s, seen[c]) /\ current.players[s].token = t
                  /\ IsSeat(outcome.room, s) \/ outcome.room.phase = "Gone"
                  /\ Commit(IF outcome.room.phase = "Gone" THEN outcome
                            ELSE [outcome EXCEPT !.room = RestoreSeat(@, s, t, PodOf[c])],
                            PodOf[c])
                  /\ tokenOf' = [tokenOf EXCEPT ![c] = t]
                  /\ player_id' = [player_id EXCEPT ![c] = s]
        /\ Forget(c)
        /\ UNCHANGED <<issued, events, up, alive>>

-----------------------------------------------------------------------------
(* The steps of the lobby, by processes that run.                          *)

\* One of the tokens that nobody has had.
NewToken == CHOOSE t \in Token : t \notin issued

\* A socket that takes a seat by another way no longer needs what it has read.
Arrive(c) ==
    /\ \/ /\ issued # Token
          /\ \/ \E public \in Publicity : Create(c, NewToken, public)
             \/ Join(c, NewToken)
       \/ \E t \in Token : Rejoin(c, t)
    /\ Forget(c)
    /\ UNCHANGED <<up, alive>>

Request(c) ==
    /\ \/ AddSession(c) \/ RemoveSession(c)
       \/ \E ready \in BOOLEAN : <<c, ready>> \in MayReady /\ Ready(c, ready)
       \/ Start(c) \/ Drop(c)
       \/ c \in MayLeave /\ Leave(c)
    /\ UNCHANGED podVars

\* A message to a process that is gone is delivered to nobody.
Background ==
    /\ \/ \E p \in Pod : Deliver(p)
       \/ CheckRoom \/ Tick
    /\ UNCHANGED podVars

Reap(p) == Active(p) /\ ReapOrphan(p) /\ UNCHANGED podVars

NextPods ==
    \/ \E c \in Socket : PodOf[c] \in up /\ (Arrive(c) \/ Request(c))
    \/ \E p \in Pod :
          \/ Heartbeat(p) \/ KeyExpires(p) \/ Crash(p)
          \/ ReadForReap(p) \/ ReapZombies(p) \/ Reap(p)
    \/ \E c \in Socket : ReadForRejoin(c) \/ \E t \in Token : RejoinZombie(c, t)
    \/ Background

SpecPods == InitPods /\ [][NextPods]_allVars

\* A running process forgets what it has read by ReapZombies, or is killed.
EndReap(p) == p \in up /\ Exists /\ seen[p] # None /\ Forget(p)

\* Time passes, keys come and go, and an active process reaps every fifth tick.
FairnessPods ==
    /\ WF_room(Tick)
    /\ \A p \in Pod :
          /\ WF_alive(KeyExpires(p) \/ Heartbeat(p))
          /\ WF_seen(ReadForReap(p) \/ EndReap(p))
          /\ WF_room(Reap(p))

FairPods == SpecPods /\ FairnessPods
=============================================================================

-------------------------------- MODULE Game --------------------------------
(***************************************************************************)
(* One room from its first deal to the end of the match: the moves of its  *)
(* humans, seats that turn into bots and back, and the driver that acts    *)
(* for bots and idle humans from the two timers kept in the room           *)
(* (rooms.rs, DriverState of game/state.rs).  Every action is one step     *)
(* under the room lock.                                                    *)
(*                                                                         *)
(* Time is abstracted to the order of events: a pending action or an armed *)
(* watchdog may fire at any later tick.  The up to eight firings that one  *)
(* tick may chain are steps of their own, except that the last three-      *)
(* discard and the EnterPlaying it arms with no delay are one.             *)
(***************************************************************************)
EXTENDS Round

CONSTANTS Humans,      \* the seats humans take in the lobby; the rest are bots
          Creators,    \* the seats that wear a crown: two after a host came back
          Stale,       \* the seats a socket may speak for that is not theirs: its
                       \* number is out of date
          MayDrop,     \* the humans who may lose their connection or leave
          EarlyMoves,  \* whether clients may send a move before the phase is
                       \* Playing, which the server does not refuse
          MaxRound     \* bound: no deal once this many rounds are over

ASSUME HumansAssumption ==
    Humans \subseteq Seat /\ Creators \subseteq Humans /\ Stale \subseteq Seat

ASSUME MayDropAssumption == MayDrop \subseteq Humans

ASSUME EarlyMovesAssumption == EarlyMoves \in BOOLEAN

ASSUME MaxRoundAssumption == MaxRound \in Nat

VARIABLES
    control,   \* who plays a seat: a "human", a "bot", or a bot for a human
               \* who is "away" and has an entry in disconnected_players
    pending,   \* driver.pending
    watchdog   \* driver.watchdog_turn_seq, None when not armed

driver == <<pending, watchdog>>
vars   == <<roundVars, control, driver>>

IsBot(s) == control[s] # "human"

\* Some socket sends requests for the seat: no handler asks whether it is a bot's.
Sends(s) == ~IsBot(s) \/ s \in Stale

\* tick_once: a pod drives the rooms its own clients sit in.
Driven == \E s \in Seat : control[s] = "human"

-----------------------------------------------------------------------------
(* The driver's timers.                                                    *)

\* arm_watchdog for the state after the step: only a human's turn has one.
ArmWatchdog ==
    watchdog' = IF /\ phase' = "Playing"
                   /\ ~IsBot(current_player')
                   /\ current_player' \notin finished'
                THEN turn_seq' ELSE None

\* What a turn needs next: the bot's turn, or the watchdog over a human.  A
\* watchdog left from an earlier turn stays when a bot is up.
ArmTurn(left) ==
    \/ /\ phase' = "Playing" /\ IsBot(current_player')
       /\ pending' = "BotTurn"
       /\ watchdog' = left
    \/ /\ phase' = "Playing" /\ ~IsBot(current_player')
       /\ pending' = None
       /\ ArmWatchdog

\* arm_after_playing
ArmAfterPlaying(left) ==
    \/ ArmTurn(left)
    \/ /\ phase' # "Playing"
       /\ pending' = None
       /\ watchdog' = None

\* The tail of apply_human_move, which leaves the watchdog of a round that
\* is over alone.
ArmAfterHumanMove ==
    \/ ArmTurn(watchdog)
    \/ /\ phase' # "Playing"
       /\ pending' = None
       /\ UNCHANGED watchdog

\* Mutant: the next bot of a row is not armed.
ArmAfterLoneBot ==
    /\ pending' = None
    /\ IF phase' = "Playing" /\ IsBot(current_player')
       THEN UNCHANGED watchdog ELSE ArmWatchdog

\* Mutant: the pending action is not cleared when the bots are done.
ArmAfterBotKeepsPending ==
    \/ /\ phase' = "Playing" /\ IsBot(current_player')
       /\ pending' = "BotTurn"
       /\ UNCHANGED watchdog
    \/ /\ phase' # "Playing" \/ ~IsBot(current_player')
       /\ UNCHANGED pending
       /\ ArmWatchdog

\* fire_action, BotTurn: more bots in a row, or a human to watch.
ArmAfterBotTurn ==
    \/ /\ phase' = "Playing" /\ IsBot(current_player')
       /\ pending' = "BotTurn"
       /\ UNCHANGED watchdog
    \/ /\ phase' # "Playing" \/ ~IsBot(current_player')
       /\ pending' = None
       /\ ArmWatchdog

-----------------------------------------------------------------------------
(* Requests of the clients.                                                *)

\* start_game in the lobby: the empty seats are bots by now.
StartGame ==
    /\ phase = "Lobby"
    /\ DealAndStartDiscard
    /\ pending' = "StepThreeDiscard"
    /\ UNCHANGED <<control, watchdog>>

\* start_game between rounds, for a creator and while nobody has won.
StartNextRound ==
    /\ phase = "GameOver"
    /\ game_winner = None
    /\ \E s \in Creators : Sends(s)
    /\ round <= MaxRound
    /\ DealNextRound
    /\ pending' = "EnterPlaying"
    /\ UNCHANGED <<control, watchdog>>

\* apply_human_move.  A move the engine refuses changes nothing.
HumanPlay(p) ==
    /\ Sends(p)
    /\ phase = "Playing" \/ EarlyMoves
    /\ \E cards \in SUBSET hand[p] :
          /\ MayPlay(p, cards)
          /\ PlayCards(p, cards, p)
    /\ ArmAfterHumanMove
    /\ UNCHANGED control

HumanPass(p) ==
    /\ Sends(p)
    /\ phase = "Playing" \/ EarlyMoves
    /\ MayPass(p)
    /\ Pass(p)
    /\ ArmAfterHumanMove
    /\ UNCHANGED control

\* leave_room, after the game started: the socket is gone, the seat becomes a
\* bot and its human may come back.  The driver is not touched.
Disconnect(s) ==
    /\ s \in MayDrop
    /\ phase # "Lobby"
    /\ ~IsBot(s)
    /\ control' = [control EXCEPT ![s] = "away"]
    /\ UNCHANGED <<roundVars, driver>>

\* remove_player, after the game started: the human left for good.
Leave(s) ==
    /\ s \in MayDrop
    /\ phase # "Lobby"
    /\ ~IsBot(s)
    /\ control' = [control EXCEPT ![s] = "bot"]
    /\ UNCHANGED <<roundVars, driver>>

\* rejoin_room by a token in disconnected_players.
Rejoin(s) ==
    /\ control[s] = "away"
    /\ control' = [control EXCEPT ![s] = "human"]
    /\ UNCHANGED <<roundVars, driver>>

\* cleanup_expired_disconnected: the entry is too old to come back with.
ExpireRejoin(s) ==
    /\ control[s] = "away"
    /\ control' = [control EXCEPT ![s] = "bot"]
    /\ UNCHANGED <<roundVars, driver>>

-----------------------------------------------------------------------------
(* The driver, drive_room.  The code also asks for the phase before it     *)
(* fires a pending action and drops an action of another phase; that never *)
(* happens (OneTimer).                                                     *)

\* fire_action, EnterPlaying
FireEnterPlaying ==
    /\ Driven
    /\ pending = "EnterPlaying"
    /\ phase = "Playing"
    /\ UNCHANGED <<roundVars, control>>
    /\ ArmAfterPlaying(watchdog)

\* fire_action, StepThreeDiscard: the next seat shows its 3s.
FireStepThreeDiscard ==
    /\ Driven
    /\ pending = "StepThreeDiscard"
    /\ DiscardThrees
    /\ UNCHANGED <<control, driver>>

\* ... and the last one, with the EnterPlaying that is due at once.
FireLastThreeDiscard ==
    /\ Driven
    /\ pending = "StepThreeDiscard"
    /\ FinishDiscard
    /\ ArmAfterPlaying(watchdog)
    /\ UNCHANGED control

\* fire_action, BotTurn: process_one_bot_turn plays the weakest combo it can.
\* When that ends the round, skip_finished moves the turn to the last seat in.
\* A choice validate_play refuses would cost the seat its turn; there is none
\* (DriverMovesLegally).
FireBotPlay ==
    /\ Driven
    /\ pending = "BotTurn"
    /\ phase = "Playing"
    /\ IsBot(current_player)
    /\ \E cards \in BotPlays(hand[current_player], table) :
          PlayCards(current_player, cards,
                    SkipFinished(current_player, finished \cup {current_player}))
    /\ ArmAfterBotTurn
    /\ UNCHANGED control

FireBotPass ==
    /\ Driven
    /\ pending = "BotTurn"
    /\ phase = "Playing"
    /\ IsBot(current_player)
    /\ BotPlays(hand[current_player], table) = {}
    /\ Pass(current_player)
    /\ ArmAfterBotTurn
    /\ UNCHANGED control

\* Mutant: the human who came back is not watched.
BotTurnOfHumanUnwatched ==
    /\ Driven
    /\ pending = "BotTurn"
    /\ phase = "Playing"
    /\ ~IsBot(current_player)
    /\ UNCHANGED <<roundVars, control, watchdog>>
    /\ pending' = None

\* The human of the seat came back before the bot's turn: watch it instead.
FireBotTurnOfHuman ==
    /\ Driven
    /\ pending = "BotTurn"
    /\ phase = "Playing"
    /\ ~IsBot(current_player)
    /\ UNCHANGED <<roundVars, control>>
    /\ ArmAfterBotTurn

\* watchdog_due
WatchdogDue == watchdog = turn_seq /\ phase = "Playing"

\* fire_watchdog: the idle human's seat moves by itself.  The engine never
\* refuses that (DriverMovesLegally).
FireWatchdogPlay ==
    /\ Driven
    /\ WatchdogDue
    /\ ~IsBot(current_player)
    /\ LET cards == IdleMove(hand[current_player], table)
       IN  /\ cards # {}
           /\ MayPlay(current_player, cards)
           /\ PlayCards(current_player, cards, current_player)
    /\ ArmAfterPlaying(None)
    /\ UNCHANGED control

FireWatchdogPass ==
    /\ Driven
    /\ WatchdogDue
    /\ ~IsBot(current_player)
    /\ IdleMove(hand[current_player], table) = {}
    /\ MayPass(current_player)
    /\ Pass(current_player)
    /\ ArmAfterPlaying(None)
    /\ UNCHANGED control

\* The seat turned into a bot under the watchdog: it is only disarmed.
FireWatchdogOnBot ==
    /\ Driven
    /\ WatchdogDue
    /\ IsBot(current_player)
    /\ watchdog' = None
    /\ UNCHANGED <<roundVars, control, pending>>

-----------------------------------------------------------------------------
Init ==
    /\ RoundInit
    /\ control = [s \in Seat |-> IF s \in Humans THEN "human" ELSE "bot"]
    /\ pending = None
    /\ watchdog = None

Request(s) == \/ HumanPlay(s)
              \/ HumanPass(s)
              \/ Disconnect(s)
              \/ Leave(s)
              \/ Rejoin(s)
              \/ ExpireRejoin(s)

Drive == \/ FireEnterPlaying
         \/ FireStepThreeDiscard
         \/ FireLastThreeDiscard
         \/ FireBotPlay
         \/ FireBotPass
         \/ FireBotTurnOfHuman
         \/ FireWatchdogPlay
         \/ FireWatchdogPass
         \/ FireWatchdogOnBot

Next == \/ StartGame
        \/ StartNextRound
        \/ \E s \in Seat : Request(s)
        \/ Drive

Spec == Init /\ [][Next]_vars

\* Every pod with a client in the room ticks once a second, and a deadline
\* that has passed is fired by the next tick that gets the lock.
FairSpec == Spec /\ WF_vars(Drive)
=============================================================================

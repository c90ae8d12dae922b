# poker-banting-server: specification and proofs

TLA+ modules that model the card-game server under `src/`, the TLC runs that
check them on small rooms, and theorems about them checked by TLAPS. Paths and
line numbers below are relative to the repository (`src/rooms.rs` is the file
`rooms.rs` of the crate).

## The system

The server runs four-seat rooms of "poker banting" over WebSockets. Several
pods may share one Redis; a room lives in the store and every change to it is
one *locked step* (load, change, save, broadcast), so there is no task per room.

| part | state | operations | talks to |
|---|---|---|---|
| cards and combos (`game/card.rs`, `game/combo.rs`) | none | detect and compare combinations | rules, bots |
| bots and idle moves (`game/bot.rs`, `rules::idle_auto_move`) | none | choose a move for a seat | driver |
| rules and engine (`game/rules.rs`, `game/engine.rs`, `GameState`) | phase, hands, trick, ranking, scores, totals, turn counter | deal, three-discard, play, pass, resolve a trick, end a round | driver, rooms |
| driver (`DriverState`, `rooms.rs` `drive_room`, `fire_action`, `fire_watchdog`) | one pending action, one watchdog | arm and fire timers, act for bots and idle humans | engine, once a second from `tick_once` |
| lobby and seats (`Room`, `rooms.rs`) | seats, tokens, crown, readiness, entries to rejoin by | create, join, rejoin, leave, ready, settings, start, expire | sessions, store |
| sessions (`ws.rs`, `rooms.rs` session map) | a socket's room and seat | route requests and broadcasts | rooms, pub/sub |
| store and lock (`store.rs`) | rooms, room codes, lock, live pods | create, load, save, delete, lock with a time to live, heartbeat | rooms |
| liveness and reapers (`rooms.rs` `reap_*`, `tick_once`) | heartbeats, ownership of seats | free the seats of dead pods, drop orphaned rooms | store, seats |
| pub/sub (`pubsub.rs`) | none | relay broadcasts between pods | sessions |
| protocol, config, routes (`protocol.rs`, `config.rs`, `lib.rs`, `main.rs`) | none | JSON per viewer, environment, HTTP | everything |

What is hard in it, and what makes each part correct:

* **Rounds.** Turn order has to survive passes, finished seats and tricks that
  end; four paths end a round and each must rank, pay and count it once. A bomb
  ends a round in the middle of it and must hit the right seat.
* **Driver.** Everything that moves without a human moves because a step before
  it armed a timer in the room. A step that forgets strands the room; a timer
  that outlives its turn moves twice. Seats change hands while timers run.
* **Lobby.** Seat numbers are compacted when a seat leaves, while sockets,
  sessions of other pods and rejoin entries still hold the old numbers. The
  crown moves, entries expire, and the room goes when nobody is left.
* **Store.** A locked step is eight commands with an await between any two of them.
  Other tasks, on this pod and on others, run in between; a pod may be killed, a command
  may fail, the Redis lock may expire. What is promised is that none of it shows: a room
  changes at one instant per request, or not at all.
* **Liveness.** Seats of dead pods are freed by other pods, which know of them only
  that a key is missing; the list of live pods is read before the room is locked. The
  seat numbers collected from it are used while each freed seat shifts the others.

`PROJECT.json` lists every hazard with its line and the properties aimed at it.

## Modules

| module | what it is |
|---|---|
| `Cards` | combinations, legal plays, the bots' and the idle human's choice, as operators on sets of cards |
| `TurnOrder` | the abstract specification of a round: who is asked, who leads and who is ranked, without cards |
| `Round` | `GameState` as variables, and the state changes of a play, a pass, a discard, a deal |
| `Game` | a room from its first deal to the end of the match: requests, seats that become bots and return, the driver. EXTENDS `Round` |
| `GameProperties` | types, safety, action and liveness properties of `Game`, and the refinement of `TurnOrder` |
| `BombHistory` | `Game` with history variables for who held the bombed 2 and who bombed |
| `Seats` | `Room` as a value: seats, ready bits, rejoin entries, crown, and what each lobby operation and each way to go makes of it |
| `Lobby` | the sockets around one room, their session maps and the relay of renumberings between pods. EXTENDS `Seats` |
| `LobbyProperties` | types, safety, action and liveness properties of `Lobby` |
| `Pods` | processes that crash, their liveness keys, the zombie reaper and the zombie reclaim, composed with the sockets and rooms of `Lobby`. EXTENDS `Lobby` |
| `PodsProperties` | types, action and liveness properties of `Pods`, together with those of `LobbyProperties` |
| `AtomicRoom` | the abstract specification of a room in the store: each request takes effect at one instant or not at all |
| `Store` | the locked step over the two stores, one action per command, for one room code |
| `StoreProperties` | types, exclusion, the refinement of `AtomicRoom`, the order of broadcasts, liveness of `Store` |
| `MCGame`, `MCBombHistory`, `MCLobby`, `MCPods`, `MCStore` | small instances for TLC |
| `CardsProofs`, `RoundProofs` | lemmas about the operators |
| `GameProofs` | the inductive invariant and the safety theorems |
| `GameActionProofs` | the theorems about what a step may do and about the end of the match, and the refinement of `TurnOrder` |
| `SeatsProofs` | lemmas about the operators of `Seats`: what each keeps of a room, and who goes |
| `LobbyProofs` | the inductive invariants of `Lobby`, its safety theorems and the theorems about its steps |
| `PodsProofs` | the theorems of `Pods`: what crashes, reapers and reclaims do to seats and sessions. EXTENDS `LobbyProofs` |
| `StoreProofs` | the inductive invariants of `Store`, its safety theorems and the refinement of `AtomicRoom` |

### How the model corresponds to the code

* A **card** is `4 * rank_index + suit_index`; the order of numbers is the order
  of `sort_cards`. A hand and a play are sets. `trick.combo_type` is
  `DetectCombo(table)` and is not stored twice. A request that names one card
  twice is outside the model: plays are sets of cards.
* **Round** has one variable per field of `GameState` and `TrickState`.
  `players[i].finished` is the set `finished`; `three_discard` is `order` and the
  count `discarded`. The log, names, readiness and the play limit are left out.
* `PlayCards` is `engine::apply_play` from the accepted cards on, and the same part
  of `rules::process_one_bot_turn`, which repeats it; they differ in where
  `current_player` stays when the play ends the round, the parameter `parked`.
  `Pass` is `apply_pass` and the bot's pass. `OnTurn`, `MayPlay`, `MayPass` are the
  early returns in front of them. The engine does not ask for the phase, and
  neither do they.
* **Game** has one action per handler or firing under the room lock. No handler of a move asks
  whether the seat it names is a bot's: `Stale` are the seats for which a socket with an old number
  (finding 3) may still send moves. Whoever wears a crown may start a round (`Creators`); there
  may be two of them. `control`
  stands for `is_bot` together with the seat's entry in `disconnected_players`:
  *human*, *away* (a bot with an entry to come back by) or *bot*.
* `Drive` is `drive_room`. Deadlines are abstracted to order: an armed timer may fire
  at any later tick. The loop that chains up to eight firings is unrolled into
  steps, except for the `EnterPlaying` armed with delay 0 by the last discard,
  which is fired in the same action (`FireLastThreeDiscard`).
* A watchdog is its `turn_seq`, `None` when disarmed; `watchdog_deadline_ms` is set and
  cleared with it.
* The driver acts only while a client of the room is connected (`Driven`,
  `tick_once`).
* Shuffles are the constant `Deals`; `GuardedDeals` drops those with four 2s in a hand.

* **Seats** has operators on a record, because one step of the code makes several changes
  in a row (`SeatDisconnect` is `apply_seat_disconnect`: add the entry, mark the
  seat, pass the crown on, reap the stale seats, set the timer, ask whether
  the room is orphaned). Seat *i* is id *i - 1*; a renumbering is a function.
  `state.players`, `state.ready` and `scores`, which mirror the room's vectors in the
  lobby, are left out. Timestamps are ages, all on one clock: `Tick` makes
  everything a second older, up to `MaxAge`.
* `Extend` joins two lists of pairs; it is `@@` of the module TLC, which has no definition for
  the prover.
* **Lobby** has one action per locked step, and separate actions for what a
  socket's task does outside the lock: `AddSession` after a join's reply, `RemoveSession`
  after a leave. `player_id` is the local variable of `handle_ws`. A socket takes one
  seat; when it closes it may be used again as a new connection. A pod's own
  renumbering is part of the step (`Commit`), the others' arrives later (`Deliver`).
  When the room is gone nothing more is followed.
* **Pods** puts processes behind the sockets. A pod is one boot of a process (`boot_id` is
  new at every start), so a crashed one does not come back; `alive` is the set of keys
  `pod:alive:{boot_id}`, which an active process refreshes and an idle one lets expire
  (`tick_once` returns before the heartbeat when there is no session). `Busy` are the
  processes with clients in other rooms. `seen` is the result of `live_pods`, read in one
  step and used in another: the room is locked only in between. `TakeZombies` is the loop of
  `reap_zombie_seats`, unrolled over the four seats there can be; it uses the numbers
  collected before the first seat went. `RejoinZombie` restores the seat by its old number
  and leaves the entry in the room, as the code does; where the number is out of range the code
  panics before it saves, which is no step of the model.
* `NewToken` chooses a token instead of letting TLC try each: which of the unused ones is
  handed out makes no difference.
* **Store** has one action per command of a step: `TryLock`, `Load`, `Save` (the state),
  `List` (the code), `Delete`, `Unlist`, `Emit`, `Publish`, `Unlock`; `After` is their order. A load
  and the change it is for have no await between them and are one action. A room is the
  sequence of the tasks that created and changed it: enough to see a change lost, repeated or brought
  back. The lock says who holds it: in Redis the pod's name, in memory the task, whose permit it
  is. `Unlist` drops the lock's entry in memory, as `delete` does, and the pod's sessions of the room; what
  the step has to tell of the removal then goes to the other pods only. Times to live are actions that
  remove what they are on; `Faults` says whether they may do so under a running step. `drive_room`
  is a `try` like the other firings; the reads it does before the lock, to skip rooms with
  nothing due, are left out: they decide nothing that is not looked at again. A driver's step
  removes no room.
* What clients see of a room is `shown`, the last `State` sent to those of each pod in `Watched`, and
  `events`, what the pod's subscriber has yet to forward. `emit` is two steps of the task, as in the code: `Emit`
  delivers to the pod's own sessions (`Near`), `Publish` hands the message to the other pods. `Deliver` is `run_once`,
  which comes to the next message at any time; messages of all pods on a room are one channel, so they stay in order.
  `ClientsGo` forgets what was shown once the room is gone. In memory there is one process, and nothing is
  published. Messages that are lost while a subscriber reconnects are left out: clients of that pod stay
  at what they have been shown until the next message.
* `Create` without "collision" in `Faults` draws a code that is `Unused`: six random letters that
  no room has and no reaper is cleaning up.
* `TurnOrder` is refined with `ranking <- finished_order` and, during a round, `owner <- combo_player` and
  `turn <- current_player`. The code keeps no list of the seats that are still to be asked: `waiting` is
  everybody who is not finished, has not passed and does not own the table. `stage` is "dealt" while the
  three-discard is pending; an early play ends it.
* `AtomicRoom` is refined with `room <- state` and the same `answer`: `state` changes at the write,
  which is the instant the request takes effect.
* A bot has no token and a connected seat no disconnect time: the code sets the
  fields of each pair together, so `is_bot` and `connected` are not stored twice.

Operators called *Mutant* in comments are plausible wrong versions of the
definition after them. No specification uses them; each one, put in the place
of its definition, breaks the property that `PROJECT.json` pairs it with.

## Runs

All runs but `MCStore` use `CHECK_DEADLOCK FALSE`: a match that was won, whose bound on rounds
is reached, or a room that is gone, stops.

| run | instance | shows |
|---|---|---|
| `MCGameTable` | 4 humans, 3 deals, one round | `TrickRotation`, `RankingSoFar`, `RoundRanking`, `EveryMoveCounts` over every play, pass and auto-move, `GoesAround` (the refinement), and `DriverMovesLegally` for whoever is on turn |
| `MCGameDrops` | 2 humans who may drop, leave, return, expire; 2 bots; early moves, and moves sent for a bot's seat | `TypeOK`, `GameInv`, `OneTimer`, `StaysArmed` |
| `MCGameMatch` | 2 humans who may stay idle forever, 2 bots, target 15, up to 3 rounds | `RoundEnds` under fairness, `MovesRunOut`, `RoundBakedOnce`, `MatchEndsAtTarget`, and `GoesAround` with bots and the watchdog |
| `MCGameStranded` | short deals, humans may drop | finding: `NoRoomStranded` fails |
| `MCBombHistory` | 4 humans, the bomb deals | finding: `BombHitsBombedSeat` fails |
| `MCLobbySeats` | 3 humans on 2 pods, public or private, sockets with any idea of their seat | `TypeOK`, `EntriesPointHome`, `OneSeatEach`, `HostIsKept`, `OthersStay`, `NotRemovedInUse`, `SessionsKeepUp` |
| `MCLobbyStale` | 3 humans on one pod, explicit leaves only | finding: `SpeaksForItsSeat` fails |
| `MCLobbyRelay` | 3 humans on 2 pods, lobby timeout 0 | finding: `SessionsFollowSeats` fails |
| `MCLobbyEmpty` | 1 or 2 humans, explicit leaves only | finding: `EmptyRoomsGo` fails |
| `MCPods` | 3 humans on 2 processes, one of which may be killed | `PodsTypeOK`, `SessionsKeepUp`, `OnlyReclaimMixesSeats`, `OnlyCompactionTakesSeats`, `ReapedCanReturn`, and `ZombieSeatsGo`, `DroppedRoomsGo` under fairness |
| `MCPodsTaken` | 2 humans, an idle process and a busy one, no crash | finding: `SeatsAreNotTaken` fails |
| `MCStore` | 2 tasks and a reaper on 2 pods, in memory and in Redis, one pod may be killed; clients there and on a third pod | `TypeOK`, `OneWriter`, `EventsInOrder`, `Atomic` (the refinement), `OlderOnlyForwarded`, and `LockIsFreed`, `DanglingCodesGo` under fairness |

**Bounds.** Deals have one to five cards a seat instead of thirteen. `MixedDeal` has
pairs and a straight and two seats without 3s, so the three-discard's order
is decided by count, by suit and by seat; `BombDeal` has a single 2, a bomb, a
higher counter-bomb, and a lower card for the owner of the 2 to have led with;
`LastBombDeal` ends a hand with a bomb; `RedealtDeal` is never dealt. In them seats
finish in every order, two finished seats sit next to each other and tricks are
won by finished seats: what the turn order depends on. `MaxRound` bounds the
number of deals; `MCGameMatch` needs two rounds to reach its target. The theorems
hold for all deals, seatings, targets and bounds.

In the lobby a token is given out once, so the number of tokens bounds the number of
humans who ever sit down, and with it the renumberings in flight. Three are enough for a
seat that goes in front of one that waits and one that stays. In `MCLobbySeats` the
sockets of the first pod may close at any time; the one of the second may leave, and is told of what
the others do, but does not drop. The timeouts are one
or two ticks and `MaxAge` is the longest of them; `MCLobbySeats` lets an entry outlive its
seat's lobby timeout, as the five minutes do. In it sockets act on seats they only believe
to have, so the seat properties hold against requests for the wrong seat, too.

`MCPods` bounds who does what, not what happens: one socket on the process that may be killed, and two
on the other, one of which may drop, leave and reclaim a zombie seat; one says that it is
ready. That is enough for a process to die in the lobby and in the game, for a reaper to act on
what it read before a crash, and for the reclaim to meet a compaction; renumberings of both pods that
are under way at once are in `MCLobbySeats`. Only one process has clients
elsewhere: were none busy, nobody would be left to reap after the last drop, and that is what the
code does (`rooms.rs:1238`). For the same reason nobody is taken for dead twice in this run: with a third
process that is busy and both others mortal (85 thousand states with one socket on each and no drops) TLC
reaches the exception of `ReapedCanReturn`, and the theorem covers it.

`MCStore` has as many tasks as an interleaving of the step needs: one that works, one that interferes
and the reaper, which share a pod in part, so that a lock that names only its pod could be
mistaken. One task asks for steps, the other for the rest (`Asks`): two that ask for the same differ from these in
nothing but which of them waits. The clients that are looked at are those of the pod that may be killed, which sends
and receives, and of a pod that only receives. `MaxChanges` lets a room be changed once after it was created, so that
there is a newer state and an older one, and `MaxUnderWay` keeps a step that tells the same state again from
doing so while another message is under way. The theorems of `StoreProofs` hold for any
number of tasks, pods and changes.

**What is outside the passing runs.** With the constants of a run changed, TLC finds:

* `Store` with "outlive" (a step takes longer than the lock's fifteen seconds): `OneWriter`,
  `Atomic`, `EventsInOrder` and `OlderOnlyForwarded` fail. `release_lock` compares the name of the pod, so a late
  release may also free the lock of another task of its pod.
* with "collision" (a new code is in use): `OneWriter` holds, `Atomic`, `EventsInOrder` and `OlderOnlyForwarded` fail,
  because `InMemoryStore::create` inserts before it knows whether the code was taken.
* with "error" (a Redis command fails): `OneWriter` holds; `Atomic`, `EventsInOrder`,
  `OlderOnlyForwarded` and `DanglingCodesGo` fail. A caller whose save failed is told that it worked, and `reap_orphaned_rooms`
  deletes a room it could not load.
* `check_room` answers that there is no room when the lock is busy (`rooms.rs:771`); `AtomicRoom`
  therefore has it as an answer that says nothing (`Skip`).
* `MCPodsTaken` with both processes busy: no violation, unless `ScanFails = TRUE`. `live_pods` takes a
  failed SCAN for the end of the list (`store.rs:519`), and then every seat is a zombie's.
* `OnlyCompactionTakesSeats` without its condition on the number of seats: a reclaim or a reaper
  that compacts the lobby goes on with a number that is another human's by then
  (`rooms.rs:469`, `rooms.rs:950`).
* `EntriesPointHome` and `OneSeatEach` in `MCPods`. The old number of a reclaim that compacts the lobby
  belongs to another human by then, and `restore_seat` writes the token over that human's: one token has
  two seats, the other none. `OnlyReclaimMixesSeats` says that this is the only way. What comes after
  such a step is not promised to anybody, so `OnlyCompactionTakesSeats` and `ReapedCanReturn` speak of steps from a
  room in order (`Sound`).
* `OnlyCompactionTakesSeats` speaks of sockets whose process still owns the seat (`Holds`): the entry that
  a reclaim leaves behind lets a second window of the same human take the seat over on another
  process.
* `ReapedCanReturn` without its exception. The entry that a reclaim leaves behind (`rooms.rs:469`) stays at
  the seat; when the seat is freed again, `add_disconnected_player` finds it and adds none (`state.rs:492`). If it
  is older than five minutes by then, `rejoin_room` drops it before it looks (`rooms.rs:418`), and the human cannot
  come back, although "the player's token is kept in `disconnected_players` so a reconnect can reclaim
  the exact seat" (`rooms.rs:524`). The property names this as the only way (`LeftoverExpired`).
* `OlderOnlyForwarded` without its exception. A pod may load what another has stored, store a newer state and show it to
  its own clients before its subscriber forwards the other's message; the clients then stay at the older state until
  the next one. Messages are published "so cross-pod clients stay in sync" (`store.rs:62`), which they are
  only when no message is late. The property names this as the only way.

**Fairness.** `FairSpec` of `Game` asks for weak fairness of the driver as a whole: a pod with a
client in the room ticks every second and fires what is due, so a timer that
stays armed fires. Nothing is assumed of the clients: they may stay idle.
`RoundEnds` is checked for clients who do not drop and wait for the phase,
because of finding 2 and of the early moves described below. In the lobby time passes
(`Tick`) and a pod with a client, in this room or another, reaps (`ReapOrphan`); clients owe nothing.

In `Pods` time passes, a key that is not refreshed expires and an active process refreshes
its own, reads the live processes and reaps, and what it has read it uses: all of it is one loop that
runs every second, and every fifth time reaps. Weak fairness is enough, an active process stays
active until it is killed or its clients go. No fairness is asked of crashes or of a
reclaim.

In `Store` a task that has begun goes on (`Work`) and a lock that is left expires. A
task that waits for the lock is not promised to get it. The reaper is: it comes back
every five ticks for as long as the code is listed, and steps are short, so it meets a
free lock again and again; that it takes one of these chances is strong fairness of its beginning
on a free lock and of its `TryLock`.

## Findings

1. **Bomb scoring** (`rules.rs:372`). The comments say the bombed seat is the holder
   of the single 2, or the first bomber when the bomb was countered. The code
   takes `played.last()`, but a seat enters `played` once per trick. If the bombed
   seat led an earlier card of the same trick, the seat before it is scored
   -15; that may be the bomber itself, which then also loses its +10.
2. **Stranded turn** (`rooms.rs:600`). A human who drops or leaves on its own turn
   becomes a bot, but no `BotTurn` is armed, and the watchdog only disarms itself
   when it finds a bot. "No room can be stranded" (`rooms.rs:15`) does not hold.
3. **Stale seat of a socket** (`ws.rs:33`). `player_id` is set once. After a lobby seat in
   front of it is compacted away, a socket's Ready, LeaveRoom or close acts on the
   human who now has the old number.
4. **Unrelayed renumbering** (`rooms.rs:592`). A drop that reaps a stale lobby seat
   renumbers the sessions of its own pod; no `SeatChanged` goes to the others,
   whose clients are shown the hand of another seat.
5. **Deserted lobby** (`rooms.rs:711`). When the last human of a private lobby leaves,
   nothing starts the orphan timer, and the room is never dropped.
6. **Seat before the first heartbeat** (`rooms.rs:1238`). A process without sessions writes no
   heartbeat, and its first client's seat is stamped with its boot id at once. Until its next tick
   the reaper of another process finds the owner missing and frees the seat of a
   human who is connected.

One more way to lose the driver's timer is no disagreement with a document and has no run: a
move in the three-discard phase is accepted and clears the pending discard
(`engine.rs:163`, `rooms.rs:1155`), so the room does not get to Playing by itself.
`StaysArmed` says that this and finding 2 are the only ways.

`SessionsFollowSeats` fails in more ways than finding 4. `SessionsKeepUp`, which `MCLobbySeats` and
`MCPods` check and which speaks of steps, says what is left: a session that shows the right seat, now or once
all that was sent has arrived, keeps doing so, unless a seat goes and no pod is told
(`CompactsUntold`: finding 4, the reaper, the reclaim) or a pod renumbers its
own sessions before an earlier renumbering by another pod has reached it (`CompactsAhead`,
`rooms.rs:277`, `pubsub.rs:90`), or a reclaim has mixed the seats up. It does not speak of the session's first seat: between a join's locked
step and `add_session` a renumbering may be missed (`Hasty = TRUE`), and one that arrives late may
renumber a session that joined after it was sent. With lobby timeout 1 and four tokens a drop may reap two
seats; a survivor behind both has two pairs in the list and `apply_renumbering` follows the first.
And two seats may wear the crown: `transfer_crown_from` takes none away, so a host who
returns is host beside the new one.

## Theorems

Assumed of the constants: `None` is no number and no action, deals are disjoint
and give every seat a card that is no 3 (true of thirteen cards with four 3s
in the deck), the target is 1..9999, whoever wears a crown is a human. Nothing is assumed
about the number of rounds or turns.

`GameInv` is the inductive invariant:

* `TypeOK` alone is not inductive: `scores'` pays `Points[Len(finished_order)]`,
  which is a number only because fewer than three seats are ranked.
* `RankingSoFar` needs that the seat on turn is not finished, otherwise it could be ranked
  twice: that is `TrickRotation`.
* `TrickRotation` needs `RankingSoFar`: two seats are still in, so the turn moves on
  to somebody else, and a seat still in has cards, so a bot on an open table
  plays and does not pass.
* `OneTimer` needs that `turn_seq` grows with every move that does not end the
  round, and `PhaseFacts` carries what is at rest outside a round: the lobby that was
  never dealt to, the order of the discard, the ranking that names the next lead.

The argument goes over the operators, not the actions: `PlayStep` and `PassStep`
(`RoundProofs`) say what any play and any pass do to the round, `ArmedOnce` and
`AfterMove` (`GameProofs`) what any arming does to the timers; an action is a choice
of these. They rest on `SkipFinishedNearest` (the turn goes to the nearest seat
still in), `TurnAfterPlay` and `TurnAfterPass` (distances around the table),
`FinalizeRanksAll`, `BombEndsRound`, and `BotLeads` (a bot with cards always has a weakest
combo to lead).

Theorems: `Invariance`, `TypeCorrect`, `TurnsGoAround`, `RankingIsConsistent`,
`TimersDoNotCompete`, `DriverFollowsRules` (`GameProofs`); `RoundsAreBakedOnce`, `RoundsAreRanked`, `MovesAreTold`,
`RoundsRunOut`, `MatchEnds`, `RoomsStayArmed`, `RoundsGoAround` (`GameActionProofs`).

`RoundsRunOut` is the part of `RoundEnds` that needs no fairness. `Work` counts the cards held, five times
each, and, once a trick is on, the seats that have not passed. A play takes a card at least and a new
trick waits for four seats at most (`PlayLessens`); a pass takes its seat, which by `TrickRotation` has not
passed before, from those the trick waits for, or ends the trick, which was waiting for it at least (`PassLessens`); a
free lead cannot be passed. `Work` is a number, so a round of c cards has at most 5c moves, whatever is dealt.
With `RoomsStayArmed`, which says that a timer is there for every one of them, only the timer's firing is left
to fairness and to TLC.

`DriverFollowsRules` is why the model has no step for a choice of the driver that the engine refuses. It
rests on three lemmas of `CardsProofs`: `IdleMoveIsValid`, `BotLeads`, and `BotPlaysAreValid`, which shows that no bot
leads a bomb: a hand with a bomb has a single, whose `combo_strength` is at most 1020, and that of a bomb
is at least 9000.

`RoundsGoAround` is the refinement of `TurnOrder`. `skip_finished` looks for a seat that is not
finished, from the next seat on; that the one it finds is the first that has neither passed nor owns the
table, as `TurnOrder` asks, is what `TrickRotation` is for (`FirstAfter`, `FirstIsNearest`). By the same invariant
`check_trick_complete` holds exactly when the seat that passes is the last one of `waiting`, and a bomb that ends the
round leaves nobody unranked (`BombRanksAll`). Moves are a play or a pass of the seat on turn
(`MoveKinds`), so bots, the watchdog and humans share `PlayGoesAround` and `PassGoesAround`;
`DealGoesAround` and `DiscardGoesAround` start a round, and every other step stutters (`OthersStay`).

In the lobby nothing is assumed but that `None` is no token, no pod and no number, that
`MaxAge` is no shorter than a timeout and that the timeout of a rejoin is not zero; there may be any number of sockets, pods and
tokens. `SeatInv` is the inductive invariant; it is `RoomInv` (types, issued tokens, a room without a phase
is empty), which every step of `Pods` keeps, too, and `Sound` (entries and seats in order):

* `EntriesPointHome` alone is not inductive. Compaction keeps an entry with its seat, but
  `restore_seat` writes the entry's token into it; with two entries for a seat, or a second
  seat of that token, the other would then lead to a stranger. That is `OneSeatEach`.
* `OneSeatEach` needs that a token handed out by a join is new to the room's seats and to
  its entries: `TokensOf(room)` is a subset of `issued`.

`SeatsProofs` shows for each operator that what it makes of a typed room is typed, has no new token, and is
in order when the room was (`Keeps`), so a handler, which chains up to six of them, keeps what each of
them keeps (`KeepsTwice`). `SameSeatsKeep` covers those that only take tokens or entries away,
the other lemmas the compaction, the return and the new entry.

The theorems about steps need to know who goes. `Departs` says of a leave, a drop or a reaped seat: of the
connected humans only the one of the seat goes, and a lobby with a host has one afterwards as long as somebody is
left to be it; or the room is removed, and then it is a public lobby or nobody else was connected. It
holds for chains because each later operator takes nobody who is connected: `ReapStale` takes seats that
have been left for longer than the timeout. `DepartureCases` lists the steps: `Remains`, or one
departure, or an orphaned room that goes. `HostIsAlwaysKept`, `OthersAlwaysStay` and
`NeverRemovedInUse` follow.

`SessionsAlwaysKeepUp` needs `SocketInv` (the types of sockets and messages; a socket has a token if and only if it has
a seat number). `LeadsTo` is the path of a session through the messages that are under way. A step
that takes a seat out moves each survivor by the same function (`TakesOut`, `MovesHome`) and appends it to
the messages of the other pods (`LeadsOn`); a delivery takes the first step of the path (`LeadsAfter`); every other
step leaves seats and numbers alone or compacts untold (`StaysPut`). A lobby seat that changes hands does not matter
as long as no token is at two seats: that is where `Unmixed` is needed.

In `Pods` `PodsAssumption` says that the bounds are sets of processes and sockets. `PodInv`, the inductive invariant,
is `RoomInv`, `SocketInv` and the types of `up`, `alive` and `seen`; `Sound` is no part of it, because a
reclaim breaks it. `PodsSteps` reduces every step but a crash, a reaper and a reclaim to one of `Lobby`.

* `Took` says what a reaper makes of a room, whatever seats it takes: the others keep their holder as long as
  nobody is moved, and in a running game every human keeps its seat or has an entry (`Recalls`). It holds for one seat (`TakeZombieFacts`) and is
  transitive (`TookTwice`), so it holds for the loop.
* `Reclaimed` says the same of a reclaim: the seat is the token's again and the others are as they were, if
  nobody was moved.
* `OnlyReclaimsMixSeats` then is `RoomInvNext` and these two. `OnlyCompactionsTakeSeats` looks at the owner that
  the seat of the socket has: it is in what the reaper has read, so the seat is none of those to be taken.
  `ReapedCanAlwaysReturn` follows seat and entry of a token through each step of a running game: a new entry is
  not too old, so an old one that is found at the seat was there before (`Recalls`); a reclaim drops those that
  are too old first, so it never meets one. And
  `SessionsKeepUpWithPods` from `Took` and `Reclaimed`: who is not moved keeps up, and who is was not told.

Theorems: `EntriesAlwaysPointHome`, `OneSeatForEach`, `LobbyTypeCorrect`, `HostIsAlwaysKept`, `OthersAlwaysStay`,
`NeverRemovedInUse`, `SessionsAlwaysKeepUp` (`LobbyProofs`); `PodsTypeCorrect`, `OnlyReclaimsMixSeats`,
`OnlyCompactionsTakeSeats`, `ReapedCanAlwaysReturn`, `SessionsKeepUpWithPods` (`PodsProofs`). The properties of steps say
which steps are meant: `HostIsKept` those from a lobby with a connected host, `OnlyCompactionTakesSeats` those in which no
client goes and no seat is lost, `ReapedCanReturn` those of a game that goes on; each is
taken in the runs, too.

In the store `StoreAssumption` and `NoneAssumption` say that `Reaper`, `PodOf`, `MayCrash`, `Backend`
and `Faults` are what their names say and that `None` is nothing else. There may be any number of tasks, pods and
changes. What a theorem says of faults is its hypothesis on `Faults`:

* `StoreTypeCorrect` holds under all faults. `TypeOK` alone is not inductive: a task that is to save must hold a
  room to save, and a task's place must be one that its request can be at, or `After` has no value for it
  (`AllFit`). `Copied` adds that what waits to be saved or shown is a room.
* `StepsExclude` asks that nothing outlives the lock; commands may fail, codes collide, pods
  crash. `Mutex` strengthens `OneWriter` to all places of a step and says that whoever is
  there holds the lock. There is one exception: in memory the remover of a room has given up its lock with
  the entry when it gets to "unlock", and somebody else may have a new one.
* `RoomIsAtomic`, the refinement, asks for no faults at all. `Loaded` says that what a task
  under the lock has loaded is still the state: nobody else wrote since, because of
  `Mutex`. With it each action is a step of `AtomicRoom` or a stutter, action by action
  (`AtomicStep`): the write is the instant of a change, the load that of an answer without one.
* `PublishedInOrder` and `ShownInOrder` follow in the same way: nothing that a pod's clients are shown, and nothing that is
  under way to them, is newer than the room, or than what a step that removes the room has still to tell; later
  messages are of later states, and what is shown is among them (`Relay`). Who tells something tells the
  state, or the last one of a room it has removed (`KeptByAll`). A delivery may then go either way, and every other
  step only forward.

Theorems: `StoreTypeCorrect`, `StepsExclude`, `RoomIsAtomic`, `PublishedInOrder`, `ShownInOrder` (`StoreProofs`).

Every invariant and action property of a passing run is a theorem. Only model-checked: `RoundEnds`, `DroppedRoomsGo`,
`ZombieSeatsGo`, `LockIsFreed` and `DanglingCodesGo` (liveness under fairness is out of the prover's reach), and
the findings, which are counterexamples.

## Plan

In this order.

1. Renumberings that are lost while a pod's subscriber reconnects, and what a client can still
   rely on then.
2. `set_room_settings`, and the step from the lobby of `Lobby` to the game of `Game`.

## Not modelled

JSON and its per-viewer masking, configuration, routes and process start:
pure functions or I/O without state of their own. Wall-clock durations, and clocks that
differ between pods. The settings of a room are constants: `set_room_settings` changes two
numbers before the start. A connection that creates or joins twice. Several rooms: they share
nothing but the session map, the lock and the keys are per code. Messages lost between pods, and all messages but `State` and `SeatChanged`. A
room of `Game` is not removed when its humans are all gone; `Lobby` follows that. `Store` does not look into a
room and `Lobby` and `Pods` take a locked step as one action: that they may is what `RoomIsAtomic` shows, as
long as nothing outlives a time to live.

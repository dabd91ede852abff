# Verification of The Forgotten Server 0.4 (rev. 3996)

TLA+ models of the stateful and concurrent core of the server (`source/`), the TLC
configurations that check them and TLAPS proofs of the properties that matter most.

## 1. The system

The Forgotten Server is a game server. All game logic runs as *tasks* on one thread; three kinds of
threads feed it:

| thread | code | what it does |
|---|---|---|
| dispatcher | `dispatcher.cpp` | runs tasks, one after another: every packet, every timed event, every shutdown step |
| scheduler | `scheduler.cpp` | hands a timed event to the dispatcher when it is due |
| network | `server.cpp`, `connection.cpp` | `boost::asio`; accepts, reads, writes, parses packets into tasks |
| signal handlers | `otserv.cpp` | add tasks, or call the game directly |

| component | state | operations | what is hard |
|---|---|---|---|
| Dispatcher | `m_taskList`, `m_threadState`, lock, condition variable | `addTask`, `stop`, `shutdown`/`flush`, the thread | lost wakeups, expiry, shutdown from within a task |
| Scheduler | heap of events, `m_eventIds`, `m_lastEvent` | `addEvent`, `stopEvent`, `stop`, `shutdown`, the thread | deadlines against new events, cancelling lazily, id reuse, empty heap |
| Connection, OutputMessagePool, Protocol | connection state, pending reads/writes, reference counts, message states | accept, read, write, close, release | callbacks after close, retries while referenced, two threads |
| Server, ServiceManager | services, acceptors | `run`, `stop` | stop before or after `run` |
| WaitingList | one list, premium players first, entries with time-outs | `login`, `find`, `cleanup` | slots, time-outs, premium insertion |
| ProtocolGame | player, cast state | login, logout, takeover, cast | a character that is already online, reference counts |
| Game state | `gameState`, timers of the global save | `setGameState`, `saveGameState`, `globalSave`, `shutdown` | re-entry, orders from other threads between the save's own tasks |
| Creature lists | check vectors, reference counts, `releaseThings` | `addCreatureCheck`, `checkCreatures`, `placeCreature`, `removeCreature`, `freeThing` | removal while listed, double insertion, early release |
| Walks | `listWalkDir`, `eventWalk`, `walkTask` | `startAutoWalk`, `stopEventWalk`, `onWalk`, requests out of reach | events that cannot be recalled any more |
| Trade | per player `tradeState`, `tradePartner`, `tradeItem`; `tradeItems` | request, accept, close, look, item events | two players, callbacks in the middle, items that move |
| Party | leader, members, invitations | invite, revoke, join, leave, pass leadership, disband | deletion from within a call, both sides of a relation |
| Chat | channels, their users and invitations | open, leave, invite, exclude, guild and party channels | users that leave by another door |
| Houses, persistence | owner, access lists, rows of players and houses | `setOwner`, `payHouses`, load and save | failure halfway, rows written one by one |
| Decay | decay buckets, item references | `startDecay`, `checkDecay`, `stopDecay` | items that move, change or vanish while listed |
| Spawns | spawned map, timer | `checkSpawn`, `startSpawnCheck`, `removeMonster` | timers against removal |
| Items, containers | cylinders | `internalMoveItem`, `internalAddItem`, money | duplication and loss, partial moves |
| View of a client | known creatures, what the client shows | add, remove, move, transform, update on a tile | positions counted differently per viewer, limits |
| Open containers | windows of a client | open, close, `autoCloseContainers` | what is out of reach or deleted |
| Monsters | targets, friends, idle state, summons | appearance, walking, conviction, death | the order in which those around are told |
| Gains | sums of skills, stats, suppressions, speed | equip, de-equip, conditions, outfits | every addition needs its one subtraction |
| Scripts | environments, temporary items, timers | calls, `addEvent`, `stopEvent`, reload | calls inside calls, a limit of 21 |
| NPCs and their shops | `shopOwner`, `shopPlayerList`, callbacks in the Lua registry, `stateList`, `queueList` | open, close, buy, talk, think, leave | a window is written twice, references given back once |
| Guilds | `guildId`, `guildLevel`, ranks in the database, invitations | found, join, leave, invite, kick, promote, pass leadership, disband | the row or the copy of who is in the game, crashes |
| Wars | rows of `guild_wars`, `warMap` of players | declare, accept, reject, cancel, end, frag, look | an end that comes three seconds later |
| Bans, combat, spells, weapons, raids, beds, Lua data | various | various | mostly sequential rules |

How they interact. The network thread turns packets and lost connections into tasks
(`Dispatcher::addTask`); a task calls the game, which answers through `OutputMessagePool` (written by
the network thread again) and asks the scheduler for later tasks. So almost all state belongs to the
dispatcher thread, and what goes wrong goes wrong *between tasks*: something is looked up, and used in
a later task, on another thread, or from a callback in the middle. Shared by threads are the
queue, the heap, the connections, the pool and the reference counts.

## 2. Modules

| module | models | state ↔ code |
|---|---|---|
| `TaskQueue` | what the dispatcher promises | a double-ended queue; a task leaves it to run or to expire |
| `Dispatcher` | `dispatcher.{h,cpp}`, `setGameState(SHUTDOWN)`, `Game::shutdown` | `m_taskList`, `m_threadState`, the place of the thread, tasks and the calls they make, signals not yet given |
| `Timers` | what the scheduler promises | each event fires once, unless it was stopped |
| `Scheduler` | `scheduler.{h,cpp}` | heap as a set with ticks left, `m_eventIds`, `m_lastEvent`, the deadline slept on |
| `Connection` | `connection.cpp`, and the parts of `protocol.cpp`, `outputmessage.cpp` that close and release | connection state, socket, pending operations, ready handlers of `boost::asio`, timers, message states |
| `PoolLocks` | the order of `m_outputPoolLock` and `m_connectionLock` | who holds them, `m_autoSend`, `m_addQueue`, output buffers |
| `Trade` | trade in `game.cpp` and `player.cpp`, house sale in `house.cpp`, `talkaction.cpp` | `tradeState`, `tradePartner`, `tradeItem`, `tradeItems`, holders and references of items, owners of houses |
| `WaitingList` | `waitlist.cpp` | `waitList`; operators for the login that uses it |
| `Session` (extends `WaitingList`) | login, takeover, logout in `protocolgame.cpp`; the life of a player object in `game.cpp`, `player.cpp`; cast in `player.h` | protocols (`conn`, `player`, `m_refCount`, `m_eventConnect`), player objects (`body`), `releaseThings`, `cSpectators`, `castAutoList` |
| `View` | what is sent of a tile: `tile.cpp`, `protocolgame.cpp`, `player.h` | stacks of tiles, `knownCreatureList`, what each client shows |
| `Windows` | open containers: `player.cpp`, `game.cpp`, `container.cpp`, `depot.cpp` | `containerVec`, parents of containers, the windows of each client |
| `Party` | `party.cpp`, requests in `game.cpp` | `party` and `invitePartyList` of players, the `Party` objects |
| `Walk` | `creature.cpp`, `monster.cpp`, `player.cpp`, the requests of `game.cpp` that wait for a walk | one creature, whether it follows another and has a path there, its scheduler events, tasks of the dispatcher |
| `Items` | moving, adding, removing, money: `game.cpp`, `player.cpp`, `container.cpp`, `tile.cpp` | parents, counts, the lists of the cylinders |
| `Decay` | `game.cpp`, `item.cpp`, `movement.cpp` | `decayItems`, `toDecayItems`, `releaseThings`, reference counts, durations |
| `GlobalSave` | states and the daily save: `game.cpp`, `otserv.cpp`, `admin.cpp`, `luascript.cpp` | `gameState`, `globalSaveMessage`, timers, the queue |
| `Creatures` | spawns, summons, check lists: `spawn.cpp`, `game.cpp`, `creature.cpp`, `monster.cpp` | reference counts, check vectors, `spawnedMap`, masters and summons |
| `Storage` | `iologindata.cpp`, `iomapserialize.cpp`, `house.cpp`, `map.cpp` | players and house in memory, rows, what is left to write |
| `Chat` | `chat.cpp` and who calls it | channels, users, invitations, `dummyPrivate` |
| `Scripts` | `luascript.cpp`, `luascript.h` | `m_scriptEnv`, `m_localMap`, `m_tempItems`, `m_timerEvents` |
| `Abilities` | `movement.cpp`, `outfit.cpp`, `condition.cpp`, `player.cpp` | sums of what a player gains, `inventoryAbilities`, conditions |
| `Targets` | `monster.cpp`, `creature.cpp`, `player.cpp` | `targetList`, `attackedCreature`, `followCreature`, `isIdle` |
| `Shops` | `npc.cpp`, `player.cpp`, `player.h`, `game.cpp` | windows on both sides, references to callbacks, `stateList`, `queueList` |
| `Guilds` | `chat.cpp`, `talkaction.cpp`, `ioguild.cpp`, `player.cpp`, `iologindata.cpp` | ranks in rows and, of who is in the game, in copies; invitations; guilds |
| `Wars` | `ioguild.cpp`, `player.h`, `iologindata.cpp`, `luascript.cpp` | `wars` (rows), `warMap`, balances, the events that end a war |
| `Lists` | what is left of a list when some of its places are picked, and what a step for each entry in turn makes of a state; used by `WaitingList`, `Windows`, `Shops` and `Storage` | |
| `*_proofs` | theorems: `Affairs_proofs` about `GlobalSave`, `Scripts`, `Guilds` and `Wars`, `World_proofs` about `PoolLocks`, `Chat`, `Party` and `Walk`, `Connection_proofs` about `Connection` and `Windows`, `Scheduler_proofs` about `Scheduler` and `Shops`, `Dispatcher_proofs` about `Dispatcher` and `Storage`, `Lists_proofs` about lists and numbered places (lemmas only), each other about the module it is named after | |
| `MC*` | instances for TLC; `MCDispatcher`, `MCScheduler`, `MCConnection` and `MCWorld` hold several modules | `scene`: which of them moves |

An action is a critical section, a handler or a task, named after the function in the code (or, where one
function has several outcomes, after the outcome). `PROJECT.json` maps each definition to its lines. A
definition named `Mutant_X` is `X` with a plausible bug: put in the place of `X` it must break the
property it was written for, which shows that the property notices. Nothing else uses it.

What is abstracted: the content of packets and texts, positions (a few spots that differ in what is seen or
reached from them), formulas, the database's columns, scripts (they let an action happen or refuse it), and
time (ticks in Scheduler and Decay; elsewhere a timer is something that may happen from a certain moment on).
Object identities are reused once the code deletes the object.

**Ghosts.** Where the code itself breaks what it otherwise keeps, the model does as the code does and
records the event in a variable that the property then names: `misplaced`, `replaced`, `crowded`, `overfull`
(View), `doubled` (Windows), `twice` (Decay), `traded` (Items), `unwatched` (Creatures), `missed`,
`lingering` (Chat), `sharedItems`, `overflown`, `selfStopped` (Scripts), `drifted`, `unmasked`, `overlapped`,
`mistaken` (Abilities), `overdue` (Targets), `slowed` (Walk), `stale`, `suspect`, `marred` (Storage), `strayed`, `misused` (Shops), `torn`, `disowned` (Guilds),
`recruits`, `late`, `crossed` (Wars). So a property says: what is kept in two places agrees
unless exactly this has happened. What each of them is stands under "Seen while modelling".

## 3. Runs

`tlc -config X.cfg MCModule`. Six runs must find no error.

| run | instance | shows |
|---|---|---|
| `dispatcher` | scenes `dispatcher` (2 other threads, one of which may push to the front, 3 task objects, jobs that queue more, stop, shut down), `save`, `storage`, `scripts`; 228 k states | `NoLostWakeup`, `ListIsExact`, `OneTaskAtATime`; what is queued is served (`ServesTaskQueue`); the `Game::shutdown` queued before `stop()` is neither refused by it nor dropped as one that waited too long (`ShutdownIsNotLost`), and runs (`StopLeadsToShutdown`); and the properties of its other scenes |
| `scheduler` | scenes `scheduler` (2 callers, 2 events, delays 0–2, ids that wrap at 3), `shops`, `guilds`, `wars`; 270 k states | the thread sleeps past no event (`SleepsNoLonger`), `m_eventIds` is right (`IdsMatch`), stopped events never run (`StoppedNeverRuns`), armed ones fire (`FiresTimers`); and the properties of its other scenes |
| `connection` | scenes `connection`, `view`, `windows`; 329 k states | one connection with 2 messages: no use after deletion, one write at a time, no append to an encrypted buffer (`ConnectionSound`), closing completes (`ClosesCompletely`); what 2 viewers show of 2 tiles is there, and they know whom they show (`ClientSeesTheWorld`); no window on what is out of reach or deleted (`WindowsInReach`) |
| `trade` | 4 players, 2 bags, 2 house documents, 1 house, symmetric; 26 k states | `TradesAgree`: trades are mutual, `tradeItems` and references exact, offers not nested; `OfferStaysAtHand`; a thing changes hands only for the other (`OnlyByExchange`) |
| `session` | 6 scenes, 99 k states, see below | an account has one character in the game, clients and bodies match and a closed world is empty (`WorldOfClients`), references exact, waiting players keep their seats, an abandoned body leaves |
| `world` | 9 scenes, 119 k states, see below | a property per scene; `ThingsKept` is `ItemsConserved` and `DecaysOnce`, `FightersSound` is `AbilitiesMatch` and `TargetsHold` |

The scenes of `dispatcher`, `scheduler` and `world`, but for those the first two are named after:

| run | scene | instance | shows |
|---|---|---|---|
| `dispatcher` | `save` | a player, a gamemaster, 2 orders, 2 hours | `WorldIsClosed` while it is saved; `WorldReopens` |
| `dispatcher` | `storage` | 2 owners, 2 things, 1 house, 2 doings, 1 crash or failure | `RowsAreTrue`: what a crash leaves of things, owners and money |
| `dispatcher` | `scripts` | 2 items, 3 environments, 2 timers, 6 steps | `ScriptsSound`: environments are released in order, no item leaks, is deleted twice, or is reached after that |
| `scheduler` | `shops` | 2 players, 2 NPCs, 4 references, 4 talks | `ShopsAgree`: windows known to both sides, in sight, callbacks given back once, conversations one per player, who is queued waits in the queue |
| `scheduler` | `guilds` | 3 players, 2 guilds of at most 2, 3 orders, 1 crash | `GuildsSound`: no rank in and no invitation to a guild that is gone, one leader, no more members than allowed |
| `scheduler` | `wars` | 2 guilds, a soldier of each, 2 wars, 1 frag decides, 2 kills | `WarsSettle`: soldiers know the war there is, a war is paid once to who has won it, no more is paid than was staked |
| `world` | `locks` | 2 connections, one of them answered by the parser itself | `BufferIsListedOnce`; `StopsOnlyCrossed`: only two threads that wait for each other stop the output |
| `world` | `party` | 3 players, 2 places for parties | `PartiesAgree`: both sides of members, leaders and invitations, no pointer to a deleted party, no empty party |
| `world` | `walk` | a player or a monster, 1 step away, 2 inputs, 4 ids of events | `WalkSound`: a step is to come while `eventWalk` is set, a request is in one place and, if it waits for a walk, there is one; `WalksEnd`: it does not wait for ever, unless its player follows another |
| `world` | `items` | 8 stacks, a bag, a sword, 3 slots, 2 calls | `ItemsConserved`: parents and lists agree, no coin is made or lost but for what is owed, capacity |
| `world` | `decay` | 5 objects, 5 kinds, 3 buckets, 2 scripts | `DecaysOnce`: references exact, in one bucket, charged once, never used after deletion |
| `world` | `creatures` | 2 monsters, a player, a spawn with one place, 2 deeds | `CreaturesKept`: references exact, who lives is checked, an empty place has its timer, masters and summons agree |
| `world` | `chat` | 2 players, 1 party, 2 private channels, 5 calls | `ChannelsForget`: nobody stays in a channel after he has left the game, guild, or party; ids agree |
| `world` | `abilities` | 6 kinds, 2 slots, 2 outfits, 5 conditions, 4 events | `AbilitiesMatch`: sums are those of what is worn and lasts |
| `world` | `targets` | a player, a monster, a summon, 4 spots, 3 turns | `TargetsHold`: pointers are mutual or to someone alive, a monster that sees an opponent is awake and lists it |

Several properties are conjunctions of named parts, one for each thing that can go wrong; the parts
are commented where they are defined. The type invariant of a scene is a part of its property.

Why the bounds are enough. Two other threads give every overlap of two critical sections with the
dispatcher's; with three tasks one runs, one waits and one is added. Two events are the least with an
order, and ids that wrap after three meet old ones. In Trade a player trades with one partner, so four
make two trades at once; two bags nest. A connection has one write at a time, so two messages are
written, queued and collected at once. `session` plays one scene per behaviour: a takeover with a
third connection that comes while the second waits; two characters of one account; two characters and
one seat; closing the world with a gamemaster in it; closing it during takeovers; a cast with two
viewers (the limit of the instance) and a third who is refused. A scene binds only who comes, how
much the network leaves in the queue (one or two tasks) and which states the world is put in. `Ben`
may always enter, so that with one seat it is the account and not the list that keeps him out.

In `dispatcher`, `scheduler`, `connection` and `world` a behaviour stays in one scene, so the instance grows as the sum and not as the
product of its scenes. The number of calls is bounded (`MaxCalls`, `MaxScripts`, `MaxDeeds`, ...), so some
scenes begin where earlier calls may have left them: `targets` with a player and a monster at any two spots,
`windows` with containers anywhere, `view` with or without a ground and seen from the start or not, `items`
with a worn bag and two stacks of any size. Three heroes are the least for a party that changes its leader
and goes on; in a guild of at most two, three are the least of whom one is too many. Kinds of items in `decay` and `abilities` are chosen so that each class of transformation of
the code occurs. Larger instances were checked once and found no error: `targets` with 5 turns (230 k
states) and with two players and 4 turns (456 k), `storage` with 3 doings (4.5 M).

### Findings

Six runs show the code to disagree with what it says of itself. Each checks one property.

| run | what happens |
|---|---|
| `dispatcher_shutdown` | `shutdown()` holds the plain `m_taskLock` while `flush()` runs the remaining tasks: one that adds a task blocks for ever |
| `scheduler_early` | the wait of an empty heap is taken for a time-out: the first event added runs at once |
| `trade_stale_seller` | a house is sold by a trade that was still open when the seller lost the house |
| `pool_locks_answer` | a parser that answers takes the two locks in the other order than `sendAll`: deadlock |
| `session_cast` | a cast is looked up on the network thread and joined by a later task: viewers join a cast that has ended |
| `save_hour` | a server started in the hour of its daily save, or a whole number of hours before it, arms no save |

Seen while modelling, part of the models where they act, but contradicted by no text of the
repository and therefore not runs:

Sessions and connections:

- `kickCastViewers` (`player.h:229`) restarts and steps over entries while it erases; it passes `end()`
  whenever an odd rest is left, and with exactly one viewer online. With libstdc++ that is an endless
  loop (`Hang` in Session); otherwise viewers are skipped and stay.
- `login` for a cast reads `_player->client` of a player who may have left: NULL (`LoginCastCrashes`).
- A viewer's `addRef` (`protocolgame.cpp:385`) is undone only by a kick: refused or dropped viewers keep
  their `ProtocolGame` for ever, and dropped ones count against the limit of 50.
- The guard "A task has already been scheduled" (`protocolgame.cpp:275`) asks the new protocol's own
  `m_eventConnect`, which is never set there. Several takeovers may wait; `Session` shows that only
  one of them gets the character.
- `Protocol::getOutputBuffer` (`protocol.cpp:77`) tests and sets `m_outputBuffer` without a lock, from the
  dispatcher and from parsers. The test is a step of its own in `PoolLocks`, as `pool_locks_answer` shows.
- `ServiceManager::run` sets `running` after `io_service::run` returns, so `stop()` stops nothing.
- The slow-client branch of `Connection::send` (`m_pendingWrite > 100`) cannot be reached.

What clients see:

- `Tile::moveCreature` (`tile.cpp:463`) fills the old places for all spectators who are players and takes
  them one by one only for those who see the creature: after one who does not, the others get a wrong
  place (`misplaced`).
- `Tile::__replaceThing` sends an update with place -1 (`replaced`). When something leaves the first ten of a
  stack, what comes up behind it is not sent (`crowded`). More creatures may be in sight than a client may
  know (`overfull`).
- Using an open container closes its windows in the client, all of them, and forgets one (`doubled`).

Items, decay and gains:

- A bag offered in a trade has room that is counted and not used: coins given back may be doubled (`traded`).
- An item transformed while it waits for its bucket is filed, and charged, twice (`twice`).
- Skills in percent subtract what they are worth at the end, not what they added (`movement.cpp:1125`,
  `outfit.cpp`); after a change of level between the two the stats differ too (`drifted`). Of two items that suppress a
  condition the first one off lifts it (`unmasked`). Haste or paralysis met while suppressed still changes
  the speed (`overlapped`). A worn item replaced by one of another class leaves its gains (`mistaken`).

Creatures:

- `Monster::convinceCreature` empties a place of a spawn and starts no timer (`unwatched`).
- A summon that dies is nobody's before those around hear of it, so they keep it in their lists and stay
  awake until they next look (`overdue`); so with one who is heard and not seen from above.
- `setSpeed` to 0 at the end of a walk drops the event that would have found the waiting request (`slowed`).
- `Player::goToFollowCreature` (`player.cpp:3553`), which spares a walk that a request waits for, is never called:
  `Creature::goToFollowCreature` (`creature.h:280`) is not virtual, as that of `player.h:577` is, and its only calls
  (`creature.cpp:214`, `game.cpp:4301`) are made on a `Creature`. So the path to whom a player follows takes the place
  of that walk. If each step queues `updateCreatureWalk` (`creature.cpp:660`), whose path fills the list again before
  the next step, the list is never found empty and the request waits for as long as he follows: without its last
  disjunct `WalksEnd` is violated.

Chat, party, scripts:

- `removeUserFromAllChannels` (`chat.cpp:488`) goes on from an iterator it has erased (`missed`). `Party::leave`
  forgets the party before it closes its channel, which then finds no party (`lingering`).
- `ScriptEnviroment::reset` of any environment frees the temporary items of all (`sharedItems`); `loadBuffer` and
  `loadFile` ignore that no environment was left, and release another's (`overflown`); a timer that stops
  itself erases the iterator in use (`selfStopped`).

Shops and NPCs:

- A stackable item bought by a script with `|PRICE|` costs nothing once it is delivered in full, one that is not
  stackable and does not fit is charged one too many (`npc.cpp:1470-1523`). `canShopItem` looks the item's kind up
  by the id of the player (`player.cpp:1575`).
- A window opened by a script while another is being closed gives its references back twice, and one that
  fails to open keeps them (`strayed`, `misused`). An NPC that walks away closes no window.
- Who is promoted stays at the head of the queue; `getState` makes a state for who only ends a trade; `popState`
  writes `b3` into `n3`; `NpcEvents::onPlayerEndTrade` tests the handler of another event. A purchase answered by closing the window
  goes on to call a function that was given back.

Guilds and wars:

- `createGuild` finds the new guild by its owner, so a former leader who passed leadership to one who was away
  joins the old guild, as a second leader (`torn`, `disowned`). Kicking one who is away asks for no rank.
  A crash takes back whatever those in the game have left, been kicked from, or been promoted to.
- A second kill within three seconds of the one that decides a war pays it twice and overwrites its frags (`late`); a restart
  within them loses the kill. Who joins a guild at war knows no enemies until the next login (`recruits`).
  An accepted war may end in the past, and stakes are not given back when a war is refused, called off or ends.

Houses and storage (`stale`, `suspect`, `marred` in `Storage`): an auction's
result is overwritten by `loadHouses` after its row is gone; `payHouse` does not save an absent owner who has
paid; a transfer saves the owner before the tiles, so that a crash doubles what lay there.

### Fairness

A thread that can take a step takes one in the end (WF on the dispatcher, scheduler and network
threads: operating system threads in endless loops); who has unlocked signals. Strong fairness stands
where a thread competes for a lock or an event is overtaken by earlier ones: `Pop` and `Timeout` in
Scheduler, the two lock users in PoolLocks, whose critical sections end. In Connection, asynchronous
operations complete and timers expire; a message in use is given back. In Session, the queue is served, the
scheduler's events come (per event, since each has its own deadline), `checkCreatures` comes round, and
what may keep a body without client in the game (a fight, a tile, a script) does not for ever: without
that the code promises nothing. The order of two timers is assumed in one place: a retry due in 50 ms comes
before a connect due in a second. Without that order a refused takeover could leave a body with
`isConnecting` set, which never times out.

## 4. Proofs

`tlapm X_proofs.tla` checks each module's theorems. They hold for every value of the constants that
satisfies the module's assumption, so for any number of threads, players, items, connections and messages, and
for every bound; the runs show the same formulas on the instances above. Every proof has the same form: an invariant
that is kept by every step, by cases on the actions; below them, one lemma per operator the actions are built from.

| module | theorems | invariant |
|---|---|---|
| `Dispatcher_proofs` | `TypeCorrect`, `NoWakeupIsLost`, `ListStaysExact`, `OneTaskRuns`, `ShutdownStaysOnItsWay`, `DispatcherRefinesTaskQueue`, `RowsStayTrue` | `StackInv`, `StorageKept` |
| `Scheduler_proofs` | `TypeCorrect`, `NoEventIsSleptOver`, `StopsAreRemembered`, `StoppedEventsNeverRun`, `SchedulerRefinesTimers`, `ShopsStayInAgreement` | `IdsInv`, `Places`, `ShopsKept` |
| `World_proofs` | `BuffersAreListedOnce`, `ChannelsDoForget`, `PartiesStayAgreed`, `WalksStaySound` | `Collecting`, `Minded`, `Agree`, `WalkKept` |
| `Connection_proofs` | `ConnectionStaysSound`, `WindowsStayInReach` | `Steady`, `WindowsKept` |
| `Session_proofs` | `AccountsPlayOneCharacter`, `ClosedWorldIsEmpty`, `ClientsStayMatched`, `ReferencesAreExact`, `SeatsAreKept` | `Sound` |
| `Affairs_proofs` | `WorldStaysClosed`, `ScriptsStaySound`, `GuildsStaySound`, `WarsAlwaysSettle`, `TradesStayAgreed`, `OffersStayAtHand`, `PassesOnlyByExchange` | `Guarded`, `Tidy`, `Orderly`, `Fair`, `Story` |
| `Creatures_proofs` | `CreaturesStayKept` | `CreaturesSane` |

- **Dispatcher.** `NoLostWakeup` is inductive with the types: only a push to an empty list ends the state in which
  the thread may wait without work, and it leaves its caller in `signalling`. `ListIsExact` needs the lemmas on adding at
  either end and taking the head. `OneTaskAtATime` is not inductive: a call that `shutdown` makes starts another task.
  `Stack` says at each place of the thread which tasks are running and what they have left to call, so that nothing but
  `Game::shutdown`, as its last call, has tasks run under it. With it every step refines `TaskQueue`.
  `ShutdownIsNotLost` needs that only the call that sets `quitting` has `addShutdown` and `stop` to make, in that order, so that the
  list is still open, and that the task of `Game::shutdown` never carries an expiration.
- **Scheduler.** `IdsMatch` holds only while no id is carried twice; `FreshSpec` says so (an id comes back after
  2^32 events), and `IdsInv` adds that stopped events are in the heap until popped. `Places` says that an event is in
  one place at a time, and with both every step is a step of `Timers` or none.
- **PoolLocks.** The buffer a parser has not found may go to the queue before it gets the pool's lock: `Collecting` adds
  that it does not, since only the dispatcher, which holds that lock, could have put it there.
- **Chat.** `ChannelsForget` is inductive as it stands; `Minded` is the same with what `getChannel` reads as arguments. One lemma
  says when who hears a channel goes on hearing it rightly (`HearsOn`), and each way out is a case of it; another that a set of numbers has a
  smallest, which is the number of a new private channel.
- **Party.** `Agree` is `PartiesAgree` said of the state a call passes on, and that the place of a deleted party has nobody.
  Erasing from, putting before and adding to a list without repetitions become facts about sets. Each method changes one
  party and what is said of it (`Elsewhere`), so that the rest stands (`OneChanges`). Refusing all invitations is
  what each party makes of the player's leaving, put side by side, since none touches what another keeps.
- **Walk.** `WalkKept` adds that events are told apart by their ids and that who remembers an id knows what it is for
  (`IdsTell`), and says of the state a call passes on that a request has one place, so that it has none while it is served.
  Every call then drops events (`Drops`), never the step that is to come unless `eventWalk` says so; gives a request
  that has no place one (`Takes`); or passes on what there is (`PassesOn`), also where a forgotten event still comes due.
  `RequestsHaveAWalk` is kept because what ends a walk hands on or drops the request in the same call, and because following
  another, which begins a walk in the call of `setFollowCreature` or in that of a task, gives up the event only with the request.
- **Connection.** The property speaks of what is used and what is there; what keeps it true is in the handlers still to be
  called. `Steady` counts them: one write with the kernel or in a handler and none else, `onStop` once and only
  when no message is in use, and of the handlers that keep the connection alive only an aborted read after it.
- **Windows.** `WindowsKept` adds that no container is in itself and each is somewhere in the end (`Grounded`), and that who
  has nothing doubled has each container in one window. What a container is in is the least set closed under "is in"
  (`AroundIsLeast`), so that moving one box changes the end of what is in it and of nothing else (`AroundMoved`). The heart is
  that whoever has something at hand is told of what happens in its place (`AtHandIsTold`): so who is not told had nothing of it
  open, and who is closes it or has it at hand still (`PostRemoveFits`).
- **Shops.** `ShopsKept` says of the state a call passes on (`Good`) that windows are known on both sides, that each reference
  is held for one window or lost, and that a conversation is one per player and waits in the queue when put off. Who counts as
  heard of is an argument, since an NPC that thinks drops those who are gone from its queue before it has come to their
  states. A call leaves each state whose it was and gives its player no second one (`Follows`), so that a place in the list found before a
  script answers is right after it. Opening a window takes its reference before the old one is given back, so one more must be free than
  there are windows (`SomeReferenceFree`). The walks over NPCs, windows and states take one step for each entry, so what each step
  keeps, all keep (`AllHearGood`, `AllClosedGood`, `ThoughtGood`); an NPC gets through its list as each visit ends a state or goes on.
- **Storage.** The property relates memory to rows that may still have to be written. `Comes` says what memory comes to once
  they are: every row to be written says it, who is away with nothing to be written is as his rows are, and every thing not
  suspect is in one chest of it. A task saves a player once, and before the house (`Ordered`), so a row written or lost is final for
  its player, and a house that could not be saved leaves no player unsaved behind it. Every call of a task, from
  moving an item to `payHouse`, keeps this of the state it passes on (`Call`), with the players it has yet to save as an
  argument; `HouseKept` says the same of the owner and the lists. When a player who has left is not saved, his old rows become what
  memory comes to, and what was stale there is given up; a crash does so with all rows at once.
- **Trade.** `Story` is the properties and that a document on offer is for a house. What is around an item is the least
  set of bags closed under "is in", so what is shown of it is shown by giving another closed set (`IsLeast`): that a chain of
  holders has one end, and what becomes of it when something inside moves. `CloseKeeps` is the heart: closing a trade
  in the middle of another call takes its items from the registry and leaves the rest of the story as it was.
- **Session.** `OneCharacterPerAccount` is inductive with the types and a closed world being empty (`Admitted`). The others need
  who holds what. `Wired`: each protocol has the reference counts of its place, who has yet to log in is new and
  stands in the queue or waits for a second, who is to be closed is closing, each once; a viewer is in the list once and is
  counted. `Embodied`: the references of a body are those of its clients, of `releaseThings`, of the map and of
  the check vector, and a body has a client exactly when that client has it. `Listed`: a name waits once.
  Each is kept only with the others (`Sound`): a takeover changes three of them. That kicking viewers
  (`KickedFrom`) reaches only viewers is shown by the least place where it would not.
- **The global save and scripts.** For `WorldIsClosed` it is enough that the queue holds tasks (`Guarded`): logins, saves and orders are checked where they
  run. `ScriptsSound` needs more: `Tidy` says in which environment a script has left its item, that a timer has one
  task, here or there, until it runs, and that what ran and is still registered is what runs now.
- **Guilds.** `Orderly` adds that nothing is known of who is away and that guilds not yet founded have left no trace.
  The leaders are counted without cardinalities (`Led`).
- **Wars.** `Fair` adds that there is one war at a time unless they cross, that no end is to come of another, and
  `StakesCounted`: each declared war has taken a stake, each begun a second, and who is paid gets two. So no
  more is paid than was staked, which alone is not inductive.
- **Creatures.** `CreaturesSane` says of the state a call passes on (`Sane`) that each creature's references are counted, with three
  arguments for what is on its way: the references still to be given back (`owed`), whose the summons are while a list of them is
  gone through (`sm`), and who is being born, deleted or removed and so excused (`X`). It adds that a summon has no summons of its own, that
  what is referred to has been placed, and that only who is in a list is checked. What happens to one creature is nobody else's
  (`OthersStand`), so each method is a change of one creature; a list is gone through as a function of the steps (`OrphansInTurn`, `KillsInTurn`, `RemovalsInTurn`),
  each of which settles one reference. Counting masters and places needs no sums, as there is one of each.

The assumptions are those on the constants, each `ASSUME` being evaluated by TLC on the runs too. The ones that say more than
that a null value is no object: `GuildMaxPlayer` is at least 1 (a founder is a member; the default is 50); there are two
`Sides`; guilds and wars are numbered from 1, without gaps; bags, swords and documents are different things (`Trade`); so are containers, places and players, and each player has a depot of his own (`Windows`); the address of a party is no number of a channel (`Chat`); protocols and bodies are finitely many (`Session`),
as references are counted; so are monsters, and there are enough to fill the places of their spawn (`Creatures`); so are players and NPCs, and the registry of Lua, which grows as it must, has more references than there are players and one lost (`Shops`); there is a player, the rows of the map and of the house are no player's, and money is some of the things (`Storage`). `SeatsAreKept` also assumes that `PREMIUM_SKIP_WAIT` is off, as in the code's
default: with it a premium player enters whoever waits. `WalksStaySound` assumes infinitely many ids of events, so that `NewId`
always finds one nobody remembers; the code has 2^32 of them, and counts.

**What stays with TLC.** Liveness and what rests on it (`ServesTaskQueue`, `StopLeadsToShutdown`, `FiresTimers`,
`ClosesCompletely`, `AbandonedLeaves`, `WalksEnd`, `WorldReopens`, `StopsOnlyCrossed`): the prover does not reason about fairness. The sums of `Abilities` and the
counts of `Items` and `Decay` are computed by folds and by
recursion over data, and so is whom `Targets` tells of a step; facts about those need induction with an operator as parameter, which the installed provers cannot instantiate. (Where a
proof above needs such a fact, the function is written so that a least counterexample can be taken from a
set of numbers.) Not yet proved, with no such obstacle: `View`.

## 5. Not modelled, and the plan

Done, in this order: dispatcher and scheduler with their abstract specifications and proofs, trade,
connections and output, sessions; party, walks, items, decay, the global save, creatures, storage, chat,
scripts, gains, targets; what clients see and have open; shops, guilds and wars; the proofs of the output pool, chat, parties, connections,
trade, sessions, the global save, scripts, guilds, wars, walks, windows, shops, storage and creatures. Next, the proof that remains:
`ClientSeesTheWorld`, whose invariant speaks of places in sequences.

Not modelled, and why:

- **Rules on one thread**: formulas and areas of combat, spells, weapons, what NPCs answer, prices. They compute from
  their inputs; what they change goes through operations that are modelled (health, conditions, items,
  speed).
- **Lua bindings**: each takes its arguments and calls one operation of the game. What makes them hard, the
  environments and what is left in them, is `Scripts`.
- **Raids** (timed calls read from a file), **sleepers in beds**, guild halls, skulls, frags but for those of wars.
- **Formats**: packets, item attributes, XML and map files, columns, cryptography; database drivers.
- **Server and ServiceManager**, tables, configuration, logging: read at start.

`PROJECT.json` lists every part with its status, and every hazard with the properties that cover it or the reason
why none does.

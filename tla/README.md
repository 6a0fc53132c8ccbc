# Verification of the boardgame framework

TLA+ models of the boardgame framework (`src/boardgame-framework/`), the TLC
runs that check them, and TLAPS proofs about them.  The framework runs
turn-based games on servers: a lobby opens rooms and starts games, an engine
applies the players' commands to games defined by scenarios, a gateway relays
the resulting events to browsers.

In this document `core/` stands for `packages/game-core/src/`.

## 1. Inventory

| Component | State | Operations | Interacts with |
|---|---|---|---|
| Kingdoms scenario (`core/scenarios/kingdoms`) | ownership, loyalty, developed tiles, pieces, inventories, mortgages, per-turn marks | recruit, move, build, demolish, develop, attack, end-turn; round end; victory | runs inside the command pipeline; uses combat, connectivity, rounds, inventories |
| Frontier scenario (`core/scenarios/demo`) | flags on tiles, inventories, offers, fortifications | claim, end-turn, trade, fortify, post / accept / cancel offer | same |
| Command pipeline (`core/game.ts`, `actions`, `events`, `rules`, `state`) | status, event sequence number, history | `start`, `submit`: validate, execute, emit, judge victory | called by the engine |
| Rounds and players (`core/rounds`, `core/players`) | turn, round, phase, flags; player status | `endTurn`, `setPhase`, `setFlag`, `eliminate` | called by scenarios |
| Connectivity (`core/utils/connectivity.ts`) | none | breadth-first search with gates | called by Kingdoms |
| Combat (`core/rules/combat.ts`) | none | `resolveAttack` | called by Kingdoms |
| Engine (`apps/game-engine`) | games in memory; in Redis the saved state and the saved view | `createGame`, `handleCommand` (asynchronous), `GET init` | bus in and out, Redis |
| Event bus (`packages/event-bus`) | queues, unacknowledged messages | publish, subscribe; ack after the handler, nack without requeue | RabbitMQ |
| Gateway (`apps/realtime-gateway`) | subscriptions by socket and by game | connect, disconnect, subscribe, unsubscribe, command; relay | sockets, bus |
| Client stores (`apps/web/src/store`, `games/kingdoms/store`) | view of the game, socket, connection status; the room shown | connect, subscribe, apply event, fetch snapshot; poll | gateway, engine, lobby |
| Pages (`apps/web/src/pages`, `components`, `games/kingdoms`) | modes, forms, attacks and transfers being staged, requests under way | clicks; effects when the store changes | stores, gateway, lobby |
| Lobby (`apps/lobby-service`) | rooms in memory | create, join, ready, start, leave, close, purge | publishes to the bus |
| Auth (`apps/auth-service`) | users in the database | register, log in | REST |

Where the behaviour is hard:

- *Rules.*  Land, structures, units, capitals, player status and turn order are
  kept in separate maps, and a single attack may change all of them.  Nothing
  but the order of the assignments in `attack.ts` keeps them consistent, over
  games of any length.  The correct system keeps them consistent for every
  board and any number of players: units stand at home, structures follow the
  land, a player lives as long as its capital, nobody owes anything, a verdict
  is final.
- *Engine.*  Handlers run interleaved at every `await`; several replicas share
  the queues; a message is acknowledged after its handler.  What matters: one
  replica per game, no command applied twice, the stored view catches up with
  the game, a game whose start was announced does start.
- *Delivery.*  Clients combine a stream of events with snapshots fetched over
  HTTP, in no fixed order, over connections that break and are made again.  What
  matters: a connection gets the events in order and without a gap, the
  registry knows who listens, a page shows a state the game was really in.
- *Lobby.*  Requests arrive in any order, from anyone, and race with a timer;
  pages learn of a start only by polling.  What matters: games start with a
  roster the engine takes, no open room stays for ever, a page follows the start of its game.
- *Frontier.*  Offers reserve resources across turns, and the reducer in the
  browser repeats what the executors do.  What matters: resources are neither
  created nor lost by trading, the copy follows the game, the verdict comes in
  time.
- *Pages.*  They decide by rules of their own, from a copy that may lag, what a
  player can click, and put commands together over several clicks.  What
  matters: what they offer on an up-to-date copy is accepted.

`PROJECT.json` lists every hazard at its line, with the properties that cover
it.

## 2. Plan

| # | Modules | Subject | Status |
|---|---|---|---|
| 1 | `Combat`, `Kingdoms`, `MCKingdoms`, `KingdomsProofs` | the Kingdoms scenario | checked and proved |
| 2 | `Engine`, `MCEngine`, `EngineProofs`, `EngineStoreProofs` | creation and commands on replicas, the bus, Redis, crashes | checked, safety proved |
| 3 | `Frontier`, `FrontierClient`, `MCFrontier`, `FrontierProofs` | the Frontier scenario, composed with reducer and page of a browser | checked, safety proved |
| 4 | `Lobby`, `LobbyClient`, `MCLobby`, `LobbyProofs` | rooms and timer, composed with the page and store of a browser | checked, safety proved |
| 5 | `GameLog`, `EngineLog` | what the engine promises the clients of a game, and that it keeps it | refinement checked and proved |
| 6 | `Delivery`, `MCDelivery`, `DeliveryProofs` | `GameLog`, gateways, connections and both game stores | checked, safety proved |
| 7 | `KingdomsClient`, `MCKingdomsClient`, `KingdomsClientProofs` | Kingdoms composed with the page of a browser | checked, safety proved |
| 8 | `KingdomsSearch`, `KingdomsTurns`, `KingdomsLoopProofs` | the breadth-first search; turns within a round | proved |

How they are composed: `Kingdoms` uses `Combat`; `FrontierClient`,
`LobbyClient` and `KingdomsClient` extend the module they are clients of and
conjoin its actions with their own; `Delivery` stands on `GameLog`, the
abstract specification that `EngineLog` shows the engine to implement, so that
the engine's handlers and the gateways' connections are not multiplied in one
state space.

What is left of the plan: setup, phases, flags, decks and the snake order of
the game core once a scenario uses them, registration against a database model, and the liveness
of a page that waits for its subscription.

## 3. What is modelled

### Combat

Armies and battles.  The pieces on a tile are a *force*, a bag that counts
units by kind; ids are dropped because casualties are drawn at random.
`resolveAttack` compares `attack * sqrt(n)` of both sides in doubles and takes
`floor` of expected casualties.  `Outcomes` compares the squares, which are
integers, and allows both results exactly where the exact values coincide, the
only place where rounding can decide.

### Kingdoms

| Variable | Code |
|---|---|
| `owner`, `loyalty`, `developed` | `k:ownership`, `k:tileLoyalty`, `k:developed` |
| `units`, `structure` | `state.pieces` |
| `moved`, `attacked` | `k:movedThisTurn`, `k:attackedFrom` |
| `mortgaged` | `k:mortgagedCities` |
| `stock` | `state.inventories` |
| `eliminated`, `active`, `round` | `state.players`, `state.rounds` |
| `winner` | the `game-ended` event and the status |

Each command is one action, validator and executor together; what the
validator asks is an operator of its own (`MayRecruit`, ..., `MayAttack`),
because the page has rules of its own to compare with.  `Next` conjoins
`JudgeVictory`, because `Game.submit` evaluates the victory condition in the
same call.  Commands are processed one at a time (`submit` is synchronous), so
an action is one call.  No action tests whether the game is over, because no
validator does.

- `moved` counts the moved units of a tile.  Only the active player's units can
  be marked, and the marks are cleared at end of turn.
- `Connected(p)` is defined as the least set of owned tiles that holds the
  capital and is closed under the steps of the search.
- The mortgage takes the oldest city in the code and any city in the model.
- An attack names its units in a list, which may name a unit again and again:
  `Counted(f)` is the force the battle counts when the units of `f` are named,
  and `Losses` are the units that fall when some of those counted are picked.
  `MaxRepeats` bounds how often units of a kind are named again.
- Sums over tiles (`Total`) are cardinalities of disjoint unions: the theorems
  of the library then apply to boards of any size.

Board, balance limits and starting stock are constants.  The code's own values
(`LoyaltyDamagePerAttack` 45, limits 20/8/10 and 5/3/3, 37 tiles) satisfy the
assumptions `RosterAssumption`, `BoardAssumption` and `SetupAssumption`.

### Engine

Replicas of the engine, the part of the event bus they use, and Redis.

| Variable | Code |
|---|---|
| `sent`, `status`, `consumer` | the queues `engine-game-starting` and `engine-commands`, and the messages RabbitMQ holds unacknowledged |
| `inbox[r]` | messages delivered to replica `r` whose callback has not run yet |
| `pending[r]` | Redis requests of `r` not yet answered; each stands for the handler that awaits it |
| `live[r][g]` | `EngineService.games`, with the buffer of `GameInstance` |
| `saved`, `view` | `engine:state:<id>`, `engine:view:<id>` in Redis |
| `events` | what was published on `game.events` |

| Action | Code |
|---|---|
| `Send` | the lobby's `game-starting`, the gateway's `game-command` |
| `Deliver` | a message of a shared queue goes to one replica |
| `BeginCreate`, `CreateSaved`, `CreateViewed` | `createGame`, cut at its two awaits |
| `BeginForeign`, `Loaded` | `handleCommand` for a game that is not in memory here |
| `Refuse` | `handleCommand`, the validator refuses |
| `BeginCommand`, `CommandSaved`, `CommandViewed` | `handleCommand`, cut at its two awaits |
| `BeginLate` | `handleCommand` on a game already won: `submit` executes, then throws |
| `RequestFails` | a Redis request is rejected; the handler throws |
| `Crash` | a replica dies and starts again |

- *Handlers* are cut at their awaits and nowhere else; JavaScript runs the code
  between two awaits without interruption.  Every await is a Redis request, and
  ioredis sends the requests of a replica on one connection and answers them in
  order, so the handlers of a replica resume in the order in which they awaited.
- *The bus.*  No prefetch limit is set, so any number of messages may be
  delivered.  A message is acknowledged when its handler returns and rejected
  without requeue when it throws.
- *A game* is the sequence of the commands applied to it and the command that
  ended it.  Which commands are valid and which one wins is left open.  A
  command emits one event, and `game-ended` if it wins.  A game once won stays
  won: for Kingdoms this is the theorem `WinnerAlone`.
- *The view* names the winner only in the handler of the command that won,
  because `handleCommand` takes the verdict from its own result.
- *A crash* loses the memory of the replica; a prefix of its requests may still
  reach Redis; its unacknowledged messages are delivered again.
- Assumed: the scenario of a game is known to the engine and takes as many
  players as were announced (what the lobby guarantees of that is `RostersFit`;
  otherwise `createGame` throws before anything is stored, and the message is
  rejected), its executors do not throw (for Kingdoms, see `DebtFree`), and
  RabbitMQ itself loses nothing.

### Connectivity and rounds

`KingdomsSearch` is `getConnectedTiles` step by step, on any state of a game:
`queue` and `visited` as in the code, `Visit(t)` one pass of its loop, `Found(t)` the
tiles a pass pushes.  The queue is a set, since a tile that is queued twice is
skipped the second time.  `KingdomsTurns` adds a history to Kingdoms, `turns`,
which counts how often each player was on turn in the current round.

### Frontier

| Variable | Code |
|---|---|
| `owner`, `fort` | the flags in `state.pieces`, `extras.fortifications` |
| `offers`, `lastOfferId` | `extras.tradeOffers`, `extras.nextOfferId` |
| `stock` | `state.inventories` |
| `claimed`, `leap` | the turn flags `claimedThisTurn`, `stoneLeap` |
| `active`, `round`, `ended`, `winner` | `state.rounds`, the status and the verdict |

`ClaimTile`, `EndTurn`, `Trade`, `Fortify`, `PostOffer`, `AcceptOffer`,
`CancelOffer` are the commands of `actions.ts`.  Validators are operators of
their own (`MayClaim`, ...), as in Kingdoms.  Dice are any roll; income at the end of a round is part of `EndTurn`.
`JudgeVictory` is conjoined to every command, as in Kingdoms, and looks at both
conditions in the order of the scenario: the race is won by the first in the
order of seats, and a full board ends the game.

`FrontierClient` adds one browser.

| Variable | Code |
|---|---|
| `shown` | the view in `store/game.ts` |
| `channel` | events published and not yet applied |
| `fortifyMode`, `composing` | `GamePage`, `TradePanel` |

`OthersCommand` is a command of anybody else, `MyClick` a click that the page
offers (`Can...`, computed from `shown`), `Receive` the reducer (`ApplyEvent`)
with the effects that follow it, `TogglePage` the modes.  A command that the
validator refuses changes nothing.

### Lobby

| Variable | Code |
|---|---|
| `rooms`, `opened` | `LobbyService.rooms`; the ids ever given |
| `announced` | `game-starting` events published |
| `current` | `currentRoom` of `store/lobby.ts` |
| `place` | the route: the lobby, or the page of a game |
| `clicks`, `poll` | requests of buttons and of the polling interval under way |
| `loading` | `RoomDetailPanel.loading` |
| `left` | rooms a user has left (history, for a property) |

`Lobby` has one action per request (`CreateRoom`, `JoinRoom`, `SetReady`,
`StartGame`, `LeaveRoom`, `CloseRoom`), the timer (`Purge`) and the loss of all
rooms (`Restart`).  The age of a room counts periods of the timer.  `Sizes` are
the sizes that requests ask for, any numbers, because the service stores them
unchecked; `FormSizes` are those the form of the page offers.  `EngineTakes`
is the check of `createGameState`, the first thing that becomes of an announced
game, with `MaxPlayers` for what a scenario takes.  In
`LobbyClient` a request is sent (`ClickPanel`, `ClickLobby`, `SendPoll`),
handled (`Serve`, `ServePoll`) and answered (`React`, `ReactToPoll`) in three
steps; it can be lost before or after it was handled (`Lose`, `LosePoll`).
`Show` is what every change of the store does: the panel follows a game that is
starting, or goes away with its flags.  Users without a modelled browser do
whatever the service allows (`Others`).

### GameLog, EngineLog

`GameLog` says what the clients of one game may rely on, as long as no replica
dies: commands are announced in their order, each once; the stored view is a
state on the way, never goes back, and holds nothing unannounced before the
end.  Requests to Redis may fail: a view is skipped then, and the promise is
kept.  `EngineLog` maps the variables of `Engine` to it for every game
(`INSTANCE ... WITH`): the commands of the events of type `applied` are what
was told, those of the stored view are what is stored.  `Told` picks the events
by the one ascending list of their places (`Listing`), which a proof can speak
of, and not by a recursive `SelectSeq`.

### Delivery

| Variable | Code |
|---|---|
| `bus`, `relayed[w]` | `game.events`, and how far the exclusive queue of gateway `w` was consumed |
| `home`, `up`, `down` | connections: socket to gateway, requests and events under way |
| `bySocket`, `byGame` | the two maps of `RoomRegistryService` |
| `joined` | the rooms of socket.io |
| `page`, `view` | the game whose page is open, the store's view |
| `link`, `sid`, `buffered`, `troubled` | the store's socket, its id, what it sends when connected, `connectionStatus` |
| `fetches` | `GET init` under way |
| `sawStart`, `heard` | history, for properties |

| Action | Code |
|---|---|
| `EngineApplies`, `EngineStores`, `EngineStarts`, `EngineRefuses` | the engine, as `GameLog` promises it |
| `Relay` | `EventRelayService.dispatch`: public events to the room, private ones by the registry |
| `HandleRequest` | `subscribe`, `unsubscribe` |
| `Disconnected` | `handleDisconnect`, at any time after the connection was lost |
| `Restart` | a gateway restarts; its queue and its sockets are gone |
| `Connect`, `Break` | the client's socket, with what each store does on `connect` and `disconnect` |
| `OpenPage`, `ClosePage` | `connect(gameId)` and `disconnect()` of both stores |
| `Receive`, `ServeFetch`, `Answer` | an event, the engine's answer, the arrival of the answer |

Commands of the browser are not in the model: the gateway forwards them without
state, and what becomes of them is `Engine`.

### KingdomsClient

`shown` is the store's view, `behind` how many changes it lags, `page` what the
player has selected and staged (mode, source, target, units), `transfer` the
`move-unit` commands of a confirmed transfer, which are sent one after the
other.  The actions are the clicks on the board and the panel (`SelectTile`,
`PickTarget`, `PickDestination`, `StartAttack`, `TargetSelected`, `StartSend`,
`CountAttack`, `CountSend`, `Cancel`), the commands (`ClickOrder`,
`ConfirmAttack`, `ConfirmSend`, `ServeTransfer`), a new copy (`Receive`, with
the effects that restage an attack or a transfer) and everybody else
(`OthersCommand`).  The panel's conditions (`Can...`) are those of
`ActionPanel.tsx`; the queries they share with the rules are `Kingdoms` itself,
instantiated on the copy.  `Accepted(o)` is what the validator says of a
command, `Overlooked(o)` what the panels do not look at.

## 4. Runs

| Run | Question | Bounds |
|---|---|---|
| `kingdoms_war` | do types, forces, capitals, eliminations and the verdict stay right in a war of three players to the last one standing, with commands that arrive after the end? | three mutually adjacent capitals, one cannoneer and one noble each, no income but gold; `MaxRound` 4, `MaxRepeats` 1, damage 45 as in the code |
| `kingdoms_realm` | do structures and land change hands together, and only by conquest? | two players, four tiles of which one is a dead end behind the other player's reach, one city each; `MaxRound` 2, `MaxRepeats` 1, damage 100 so that a conquest and its reversal fit |
| `kingdoms_economy` | can anybody get into debt? | two players, three tiles, stock to recruit, build, demolish and develop, deficits that gold covers fully, partly and not at all; `MaxRound` 3, `MaxRepeats` 0 |
| `kingdoms_limits` | "Max instances per player" (`structures.ts:48`) | the board of `kingdoms_realm`; violated: a capture hands over a second city |
| `engine` | with handlers interleaved, a crash and a failed request at any point: one owner, no command twice, no message lost, Redis catches up, the game starts, commands settle? | two replicas, one game, two commands, `MaxCrashes` 1, `MaxFailures` 1 |
| `engine_requeue` | "others reject and re-enqueue" (`game-runner.service.ts:16`) | two replicas, one game, one command, no crash or failure; violated: the command is dropped |
| `engine_late` | "Publishes resulting events" (`architecture.md:45`) | two replicas, one game, two commands, no crash or failure; violated: a command behind the winning one shows in the view and in no event |

| `frontier` | does the market lose nothing, does the verdict come in time, does the reducer rebuild the game, does the page offer what is accepted? | two players, a strip of four tiles; `WinVP` 7 so that both the race and the full board decide; one open offer per player, two ever, of one ware each; `MaxRound` 3; `MaxLag` 1 |
| `frontier_leap` | "next claim ignores adjacency" (`GamePage.tsx:60`) | the same; violated: the board lights up adjacent tiles only |
| `lobby` | are rosters fit, do strangers come only by leaving, do open rooms end, are starts followed? | three users of whom one has a browser, one room of size 0, 2 or 3, of which the form offers 2; `MaxPlayers` 2, two games, one click and one poll under way, one failure; `SoloTTL` 0, `RoomTTL` 1 |
| `delivery` | do both registries agree, are events in sequence, are views real, does the Kingdoms page keep subscribed? | both scenarios; one gateway, one game, one command; three events, two sockets, two fetches, one failure |
| `kingdoms_client` | does the page of Kingdoms offer what is accepted, and foresee battles? | two players, two capitals around a forest, structure limits 0; `MaxLag` 2, `MaxRepeats` 0; to the end of the second turn of the page's player |

The bounds are enough for what they are there for.  Three players are needed
for an elimination that does not end the game, and three rounds at damage 45
for a capture, with recovery in between; the war run reaches a winner and goes
on behind it.  In the realm run land is cut off from its capital and
structures are captured.  The invariants the Kingdoms runs check are also proved for
every value of the constants (section 5), so the runs' purpose is to show that
the models do what the theorems are about: every action and every alternative
occurs in some run, except the step over a gate, which needs a longer chain of
tiles than the boards have and is covered by `SearchCorrect`.

No Kingdoms run states liveness: nothing forces a player to move, and the code
has no turn timer.  `CHECK_DEADLOCK` is left on there: the active player can
always end its turn.

In the engine, games share nothing but the order of the requests of a replica,
so one game shows what its handlers can do to each other; two commands and the
creation give three handlers under way at once, one of which can win.  Two
replicas and one crash are needed for a redelivery to the other one.  The
invariants were also checked once with two crashes.

`FairSpec` assumes weak fairness of delivery as a whole (RabbitMQ delivers what
is ready to somebody), and per replica of starting handlers and of resuming
them (the event loop runs what is runnable, Redis answers or the request
fails).  No fairness is put on `Send`, `Crash` and `RequestFails`: nothing has
to be sent, and nothing has to fail.  The engine runs have `CHECK_DEADLOCK
FALSE`, because the system stops when all that was sent is handled.

What the two liveness properties do *not* say: a command may be settled by
being dropped, and `GameStarts` excuses a failed request, after which the
`game-starting` message is rejected and the game never starts.
`StoredWasAnnounced` excepts dropped commands from what it says of the view,
because of the behaviour that `engine_late` shows.

*Frontier.*  Two players are enough because accepting an offer and the race
concern two.  The bounds are on rounds and on what offers name; behind the
verdict the game goes on, as no validator asks for it.  `CHECK_DEADLOCK FALSE`:
the winner screen leaves the page nothing to click, and the bound stops the
others.  `MaxLag` 1 lets the others go on while one event is under way, so that
events overtake clicks; the copy lags by more within one command, which may
publish several.

*Lobby.*  With one room the browser can leave it, come back by a late answer
and be drawn into its second game; the third user keeps the room alive when
another leaves.  With `MaxPlayers` 2, the room of three is one that was opened
for more players than a game takes, the room of size 0 one that nobody can
join.  `FairSpec` assumes that the timer fires and that polls are
sent, served and answered.  The page's interval starts again at every
re-render, so this assumes that it is left alone for 2.5 seconds now and then.
Nothing is assumed of users and of other requests.  `CHECK_DEADLOCK FALSE`:
users may stop.

*Delivery.*  One gateway is enough for what breaks: a page comes back to the
same gateway, to which its old connection may still be open.  Two sockets are
the old and the new connection, two fetches can be answered in either order.
More gateways and games are covered by the proofs; with
two events, all five invariants were also checked once with two gateways and
once with two games.  Safety only:
nothing forces the engine or a user to act, so the run stops when the bounds
are used up.

*Kingdoms page.*  `ClientBound` stops at the end of the second turn of `Me`: by
then an attack was staged, overtaken by the other player's turn, and made.  The
other player moves, attacks and ends turns; it recruits no spearmen and neither
builds nor develops, since what it buys is of no account to the page.  The page
names each unit once, so nobody repeats any here.  With `MaxLag` 2 a target can
be staged on a copy older than its conquest.  A cut-off source and
an empty food stock are exceptions in `OfferedIsAccepted` that this board does
not reach; that they are all the exceptions there are is proved (section 5).

## 5. Proofs

For every roster of at least two players, every finite board and every setup
that satisfies the named assumptions:

| Theorem | States |
|---|---|
| `TypeCorrect` | `Spec => []TypeOK` |
| `ForcesAtHome` | `Spec => []ForcesStandAtHome` |
| `StructuresOnLand` | `Spec => []StructuresFollowLand` |
| `EliminatedGone` | `Spec => []EliminatedAreGone` |
| `CapitalsStand` | `Spec => []CapitalsHeld` |
| `WinnerAlone` | `Spec => []WinnerStandsAlone` |
| `ConquestOnly` | `Spec => LandChangesHands` |
| `DebtFree` | `Spec => []NoDebt` |

The argument.  `TypeOK` and `ForcesStandAtHome` are inductive.  The other
properties are not inductive on their own: that an attack cannot hit a player
who is already out needs `EliminatedAreGone`, that income and capture see the
same structure needs `StructuresFollowLand`.  `Consistent` (`TypeOK`,
`StructuresFollowLand`, `EliminatedAreGone`) is the inductive invariant on
which the proofs about the rules build.  Every preservation proof distinguishes the
commands that leave the land alone (`PeacefulStep`), the repelled attack and
the won attack; the last is summarised once, in `WonEffects`.

- `CapitalsHeld`: a capital captured is a player fallen, whose structures all
  stand on its own land and go with it.
- `WinnerStandsAlone`: a step never brings a player back and never removes the
  active one (`AliveShrinks`), so the verdict of one survivor is final.
- `NoDebt`: costs are admitted by `Affords`; food is bought for at most the
  gold at hand (`FoodBoughtBound`), so `AfterCycle` stays non-negative; and
  with no debt the set of mortgaged cities is empty, because every city has an
  owner.  This confirms the comment in `economy-loop.ts:149`: the mortgage step
  cannot fire.

Not proved: anything about `StructureLimits` (it does not hold).

A ninth theorem, `MovedUnitsStand` (`Spec => []MovedAreThere`), is there for the
browser: no tile has more units marked as moved than the active player has on
it.  Casualties take their marks along, at least as many of them as the units
left on the tile require (`LossesMoved`); attackers stay where they are, and on the land they attack
nothing of theirs stands (`NoneOnTarget`); the end of a turn clears the marks.

`KingdomsLoopProofs` proves of `KingdomsTurns` `TurnsGoRound` (`TurnsSpec => []TurnsInOrder`) and
`RoundsComplete`: the next seat is above the active one, with nobody in the
game in between, or the least of all, and then every player in the game was on
turn (`NextSeat`).  Eliminations only make the set of players smaller, and
never remove the active one.  Of `KingdomsSearch` it proves `SearchCorrect`: what was
visited or is queued is connected, and whatever a visited tile is linked to is
visited or queued; so when the queue is empty, `visited` is the least closed
set, `Connected`, that the rules speak of.  (That the queue gets empty is not
stated: `visited` grows in every step.)

`KingdomsClientProofs` needs besides the assumptions of `Kingdoms` only
`ClientAssumption` (`Me` is a player, `MaxLag` a number) and `NoTileAssumption`:

| Theorem | States |
|---|---|
| `BrowserPlaysByTheRules` | `ClientSpec => Spec`: the composition implements the rules |
| `OffersStand` | `ClientSpec => []OfferedIsAccepted` |
| `PreviewsForesee` | `ClientSpec => []PreviewIsRight` |

With the first, every theorem of `KingdomsProofs` holds of a game with a
browser.  It is not immediate: the browser makes up its commands itself, also
from an old copy, and an order names tiles and units that must be some
(`OrderIsCommand`, `PlayedOrNot`).  The inductive invariant is `ClientInv`:

- `RulesInv`: what is proved of the rules, and `MovedAreThere`.
- `PageInv`: types; the tiles a mode works on are chosen (`PageIsWhole`); no
  more units are staged than the copy shows on their tile, moved and fresh ones
  counted apart (`StagedIsShown`); the copy is of one moment (`CopyIsWhole`).
  When a new copy arrives, what is staged is cut down to it (`ReceiveStep`),
  whichever way the turn went.
- `CopyIsRecent`: with nothing under way the copy is the view.

All three hold for every lag.  A copy two changes behind has a consequence of its
own: the player confirms an attack, ends the turn, and stages the same target
once more before a new copy is there; nothing unstages it, and in the player's
next turn the panel offers an attack on the player's own land, which the
validator refuses.  `OfferedIsAccepted` names this case with the others that the
panels overlook.

An up-to-date page then asks `Kingdoms` itself (`SameQueries`), and its rules
are compared with the validators one command at a time (`OrdersAccepted`,
`AttackIsAccepted`, `TransferIsAccepted`).  The proof settled what the panels
overlook: a limit may be exceeded, not only reached, since a captured city counts (`kingdoms_limits`).
`PreviewIsRight` rests on `ForcesStandAtHome`: the preview counts the units of
the owner of a tile, the rules everybody's, and only the owner has any there
(`GarrisonIsOwners`).

`EngineProofs` needs only `EngineAssumption` (games and commands are different
messages, the bounds are numbers) and `NoneAssumption` (`None` is no instance,
snapshot or sequence of commands).  For any number of replicas, games, commands, crashes and failures:

| Theorem | States |
|---|---|
| `TypeCorrect` | `Spec => []TypeOK` |
| `NeverHandledTwice` | `Spec => []InHand`, the first part of `Custody` |
| `OwnerIsUnique` | `Spec => []OneOwner` |
| `NoneAppliedTwice` | `Spec => []AppliedOnce` |
| `RemovalIsLast` | `Spec => []RemovedIsSilent` |

The code takes no lock, so the theorems rest on the bus alone.  The inductive
invariant `EngineInv` is the conjunction of the five and of three facts that
say why they hold.

- `HomeOf`: a game is in memory only on the replica that handles its
  `game-starting` message, or after that message was acknowledged or dropped.
  A message is held by one replica at a time (`InHand`), and a crash that
  makes it ready again also forgets the game: so no second replica ever
  creates it (`OneOwner`).
- `WinnerLast`: commands behind the one that won throw before they await, so
  in the replica's queue of requests the winner's save is behind all saves of
  the game, and its view behind everything of the game.  When the view is
  stored and the game removed, nobody else waits (`RemovedIsSilent`).
- `AppliedHere`: a command in the log of a game in memory was handled by the
  replica of the game and is not waiting anywhere to be handled again; a crash
  that makes it ready again takes the log with it (`AppliedOnce`).

Each invariant has one lemma that a step preserves it; the actions are grouped
by what they do to messages (`ActionKinds`).

`EngineStoreProofs`, under the same assumptions, is about what the engine
publishes and stores:

| Theorem | States |
|---|---|
| `NoMessageIsLost` | `Spec => []Custody` |
| `CreationComesFirst` | `Spec => CreationAckedFirst` |
| `StartedMeansViewable` | `Spec => []StartIsViewable` |
| `NothingStoredUnannounced` | `Spec => []StoredWasAnnounced` |
| `PublishedInOrder` | `Spec => []EventsInOrder` |
| `RedisCatchesUp` | `Spec => []CatchesUp` |
| `EngineKeepsItsPromise` | `Spec => KeepsItsPromise` |

None of the first six is inductive, because Redis and the events trail behind the
games in memory: what they will hold is in the queues of requests.  `StoreInv`
adds to `EngineInv`, besides the second part of `Custody` (`Held`):

- `Proper`: a request that writes has a snapshot to write, and `createGame`
  loads nothing.
- `CreatorFirst`: in the queue of its replica, the save of `createGame` is
  before every request of the game, and its view before every view.  So when
  the view of a command is stored, its handler being the only way to
  acknowledge an accepted command, the `game-starting` message is acknowledged
  or was dropped.
- `Plain`: what waits in the buffer of a game are its own events; the only
  `game-started` is the one published with its view.
- `LogsTold`: of the commands in a game, a request to save it and a request to
  store its view, each was announced or dropped (for a save and for a game
  still open: announced).  What Redis holds was in such a request, also after
  a crash (`StoreWrites`).
- `EventsCounted`: without a crash, `Emitted(i)`, the next number less the
  length of the buffer, is the number of the last event published, the buffer
  goes on from there, and a game not yet created has no events.
- `UpToDate`: as long as no request failed, the last save in the queue, or what
  is saved if there is none, is the game in memory, and so is the last view
  once no save is left (`Reaches`); and while the game is still in memory after
  its end, the command that won is waiting to write its verdict
  (`WinnerWaits`).  With nobody left to write this is `CatchesUp`.

The steps of the engine are reduced to three changes of a queue (push, pop, pop
and push) and to what they do to one game on one replica (`BeginEffects`,
`CommandEffects`, `ContinueEffects`, `CrashEffects`); each invariant has lemmas
about these three, and steps of other games are dealt with once.  `GameStarts`
and `Settles` are liveness and stay with TLC.

`EngineKeepsItsPromise` is the refinement: every initial state of `Engine` is
one of `GameLog` for each game, and every step is a step of `GameLog` for each
game or leaves its variables alone (`PromiseStep`).  The steps that are not
stutters are `BeginCommand` (`Tell`), `CommandViewed` (`Store`), `CreateViewed`
(`Start`), `CreateSaved` when late commands of a finished game wait in its
buffer (`Tell`), and `Crash` (`Fault`).  `PromiseInv` adds to `StoreInv`:

- `Tales`: as long as no replica died, the log of a game in memory is what was
  told of it followed by what waits in its buffer, and nothing waits before the
  end (`Story`); the stored view and the views under way to Redis are prefixes
  of the log, each of the next (`ViewsLead`).  That answers come in the order of
  the requests is what makes the stored view go forward.
- `Unshown`: a game whose message is not yet handled has no view.
- `StartsOnce`: a game whose start was announced has its message settled, so
  that the start is announced once.

What the events tell is a list of numbers in ascending order, of which there is
only one (`ListsOnce`, by the least place where two lists could differ), and
events published later tell more at its end (`TellsConcat`).

`FrontierProofs`, for every roster, board, goal and limit of offers:

| Theorem | States |
|---|---|
| `BrowserPlaysByTheRules` | `ClientSpec => Spec`: the composition implements the rules |
| `TypeCorrect`, `MarketIsSound`, `FortsStandOnOwnLand`, `VerdictIsInTime` | `ClientSpec => []TypeOK`, `[]MarketSound`, `[]FortsOnOwnLand`, `[]VerdictInTime` |
| `EventsRebuildTheView` | `ClientSpec => [][~ ended => Rebuilds']_vars`: events under way make the copy the view |
| `OffersAreAccepted` | `ClientSpec => []OfferedIsAccepted` |

The four are proved of `Spec` through `RulesInv`, their conjunction, and carried
over to the browser by the refinement.  `TypeOK` holds because every removal
from a stock is covered by what its validator saw; `MarketSound` because ids
only grow; `VerdictInTime` because every command is followed by a verdict and
points never fall.

The browser's copy follows the game by `Followed`: while the game runs, the
events under way lead from the copy to the game's own view, and once it is over
they tell so.  `Becomes(v, es, w)` says that there is a list of views from `v`
to `w`, each the reducer's answer to the next event; it replaces the fold of
`ClientFollows`, which is a recursion over data, so `EventsRebuildTheView`
states the same thing in a form that can be proved, and TLC checks the fold.
Every command has a lemma (`ClaimIsTold` to `EndTurnIsTold`): its event does to
the view what the executor does to the state.  `Spend` floors at zero and the
executors do not, so this needs `TypeOK` and what the validators saw.  The
income of a round is one event per fort and per earner, in any order: the view
after the first `k` counts how many of the first `k` forts a player built
(`Places`), and the count over all is the executor's `RoundIncome`, since
`SetToSeq` is a bijection.  An up-to-date page therefore shows the game itself,
and `OfferedIsAccepted` compares page and validators on one and the same state;
`MarketSound` gives the limit of offers.

`MarketConserves` is a fold over sets and stays with TLC.

`LobbyProofs`, for any number of users, rooms, browsers and requests and for
rooms of any size (`LobbyAssumption` asks only that `Sizes` are integers):

| Theorem | States |
|---|---|
| `TypeCorrect`, `RostersAreFit` | `Spec => []TypeOK`, `[]RostersFit` |
| `BrowsersUseTheService` | `ClientSpec => Spec` |
| `StrangersOnlyByLeaving` | `ClientSpec => []StrangersHadLeft` |

`RostersFit` has two parts.  `RoomsKnowTheirGame`: a room that is starting knows
its game, which was announced for this room, and its members are players of
that game, because nobody joins any more.  `GamesFit`: a game is announced with
its host, with two players at least and with no more than the engine takes,
unless its room was opened for more.  The second follows from `PlacesHold`,
which is inductive: the host is in its room to the end, and neither a room nor
a game ever has more players than its size admits besides the host, who is put
into the room without being asked (so that a room of size 0 has one member).

`ClientInv` adds for each browser that every copy of a room it holds, on the
page, in an answer or in a request under way, is `Grounded`: the user is in the
room or has left it, and is a player of the game the copy names or has left its
room.  Answers stay grounded however late they are,
because rosters never change and `left` only grows.

`DeliveryProofs`, for any number of gateways, games, sockets, events, fetches
and failures:

| Theorem | States |
|---|---|
| `TypeCorrect` | `Spec => []TypeOK` |
| `RegistryIsRight` | `Spec => []RegistryAgrees` |
| `EventsArriveInSequence` | `Spec => []EventsInSequence` |
| `StaysSubscribed` | `Spec => []KeepsSubscribed` |
| `PagesShowRealStates` | `Spec => []ViewsAreReal` |

`Connection` says which parts of the store and the socket go together.  The
registry is shown to agree entry by entry (`Agree`), since a subscription
changes one entry of each map and a disconnect all entries of one socket.
`Stream` is the inductive invariant behind the two after it: all requests of the
page's connection subscribe to its game, so the connection never leaves the
room again; the events on it are numbered without a gap and end with the last
one its gateway relayed; and a Kingdoms page that is connecting has a
subscription in its buffer or knows of the trouble and will send one.

`ViewsAreReal` relates a page to all that was ever told to the engine, and what
lies between them goes into the inductive invariant `DeliveryInv`.  `Announced`
ties the bus to the engine: the events announce the commands told, one by one,
so the command of an event is the one whose number is the count of such events
up to it (`CountTo`); a snapshot published or stored is a prefix of what was
told.  `FetchesReal` says that of the answers under way; they stay prefixes
however late they come, because `told` only grows.  `ShownReal` is the property
with the length of a Frontier view added: the commands announced up to the last
event heard, so that the next event goes on exactly where the view ends.
`Reception` is what rules out a gap: a Frontier page subscribes once, so when
the connection on which it saw the start is gone it hears nothing any more
(`store/game.ts:233-262`), and its view stays as it is.  Besides
`DeliveryAssumption` this needs `NoneAssumption`: `None` is no view.

## 6. Divergences met

- Captured structures are not subject to the limits per player
  (`attack.ts:175` against `structures.ts:48`): run `kingdoms_limits`.
- `recruit-unit` looks at the food in stock only, not at the food balance that
  `economy-loop.ts:22` speaks of.
- An attack that names a unit twice counts it twice in the battle
  (`attack.ts:63`, `:86`); the page names each once.
- Commands that reach a replica without the game are dropped: run
  `engine_requeue`.
- Commands behind the winning one take effect and are never announced: run
  `engine_late`.
- There is no Redis lock and no recovery: `engine.service.ts:10` and
  `architecture.md:77` describe a lock and the pick-up of a lost game from its
  snapshot; the code throws at `engine.service.ts:87`.  After a crash a game
  is gone unless its `game-starting` message was still unacknowledged.
- `seq` is 0 for `game-started` and `error` (`engine.service.ts:62`, `:102`),
  against "Monotonic seq assigned by the engine" (`game-events.ts:9`).
- `clientSeq` is not used to reject duplicates (`action.ts:17`).
- The prices in the comment `recruit.ts:28` (23 and 663) are 24 and 559 in the
  code.

- Frontier.  A leap that was paid for cannot be used on the page: run
  `frontier_leap`.  The reducer has no branch for `round-ended`, so the round
  shown stays (`GamePage.tsx:232`; `ClientFollows` leaves the round out).
  The page offers claims after the claim of the turn and a second leap, because
  the turn flags are not in the view; fortify mode survives purchases, and the form of the
  market outlives the turn and the limit of offers (the exceptions in
  `OfferedIsAccepted`).  The header of `scenario.ts` speaks of 19 tiles and 12
  points, the code has 37 and 18.  When several players pass the goal in one
  command, the first seat wins.
- Lobby.  "Back to lobby" leads back to the game that started; `handleLeave`
  leaves the panel of a room joined meanwhile disabled; a full room refuses its
  own members; a late poll brings back a room that was left, whose next game is
  then entered as a stranger; a second start request starts a second game; the
  timer skips rooms that are starting, for ever; rooms are in memory, not in
  Postgres; leaving is accepted from users who were never in the room.  The size
  of a room is stored unchecked (`lobby.service.ts:55`; `CreateRoomRequest` is a
  type only, so nothing validates the body): with 0 or 1 nobody can join, without
  one the room is never full, and from a room of more than four a game can be
  announced that `createGameState` refuses (`game-setup.ts:26`); its message is
  dropped and its players wait on the page of a game that never starts.  This
  is the exception in `GamesFit`.
- Delivery.  A Frontier page that is opened in a running game loses or doubles
  the events around its fetch; a view fetched upon an event may be the one
  stored before it; the Frontier store does not subscribe again after a
  reconnect; the answer for a page that was closed can show the view of another
  game.
- Engine.  `createGame` flushes what a command emitted meanwhile, also behind
  `game-ended`.
- Kingdoms page.  A transfer counts units that have moved already
  (`KingdomsPage.tsx:796`); the panel of a staged attack looks neither at the
  turn nor at the attacks made since (`ActionPanel.tsx:332`), and not at the owner
  of the target either, which may be the player by now when the copy was two changes behind; recruiting and
  building are offered beyond the limits, without food and cut off from the
  capital (`ActionPanel.tsx:692`).
- With the snake order, `endTurn` would count a round at every step backward
  (`round-manager.ts:69`).

## 7. Not modelled

- *Game core.*  The setup phase, phases and flags of a turn, decks, follow-up
  rules, the snake order and the elimination of the active player: no scenario
  uses them.
- *Engine.*  The `GET` endpoints only read Redis (`Delivery` has what they
  answer).
- *Auth.*  Registration is a check and an insert that a unique index in the
  database guards; tokens and passwords are library calls.  Checks of tokens are
  left out of gateway and lobby, too.
- *Web user interface.*  Layout, panning and zooming of the boards, animations,
  sounds, dialogs, tutorials and settings.  Tile effects and the last combat,
  which are shown and forgotten.  The board of Kingdoms keeps a mark of its own
  that the last press was a pan, which can outlive the pan when the pointer
  leaves the board; the next click is then lost.
- *Views.*  The previews of income and food, which are only shown.
- *Stubs and deployment.*  Matchmaking and snapshots do nothing; containers,
  routing and broker configuration are not code of the system.

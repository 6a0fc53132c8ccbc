--------------------------- MODULE KingdomsClient ---------------------------
(***************************************************************************)
(* A browser on a game of Kingdoms: the page of the player Me, which       *)
(* decides from its copy of the view what the player can click, and in     *)
(* which attacks and transfers of troops are put together over several     *)
(* clicks while the copy is replaced underneath (KingdomsPage.tsx,         *)
(* ActionPanel.tsx).                                                       *)
(*                                                                         *)
(* A new copy is the view of the present moment: one that was read earlier *)
(* and arrives late has the same effect as one that arrived earlier (how   *)
(* copies arrive is the subject of Delivery).  A command takes effect as   *)
(* it is sent; its way to the engine is part of the time the copy is       *)
(* behind.  The others play by the rules.                                  *)
(*                                                                         *)
(* Units have no ids here.  When fewer units of a kind are shown on a tile *)
(* than before, any of them may be the ones that left.                     *)
(***************************************************************************)
EXTENDS Kingdoms

CONSTANTS
  Me,
  MaxLag      \* bound: changes the copy may be behind while Me clicks

ASSUME ClientAssumption == Me \in Players /\ MaxLag \in Nat

NoTile == "no tile"

ASSUME NoTileAssumption == NoTile \notin Tiles

VARIABLES
  shown,      \* the view, in the store
  behind,     \* changes of the game since it was read
  page,       \* what the player selected and put together
  transfer    \* move-unit commands under way

rules      == vars
client     == <<shown, behind, page, transfer>>
clientVars == <<rules, client>>

-----------------------------------------------------------------------------
(* The view *)

\* buildKingdomsView.  What it computes from these (income, connection) the
\* page's operators below compute from the copy.
View ==
  [owner |-> owner, loyalty |-> loyalty, developed |-> developed, units |-> units,
   moved |-> moved, structure |-> structure, attacked |-> attacked, stock |-> stock,
   eliminated |-> eliminated, active |-> active, winner |-> winner]

\* The queries of the rules, on the copy.
Shown == INSTANCE Kingdoms WITH
  owner <- shown.owner, loyalty <- shown.loyalty, developed <- shown.developed,
  units <- shown.units, moved <- shown.moved, structure <- shown.structure,
  mortgaged <- {}, attacked <- shown.attacked, stock <- shown.stock,
  eliminated <- shown.eliminated, active <- shown.active, round <- 0,
  winner <- shown.winner

IsMyTurn == shown.active = Me

Troops(t) == shown.units[Me][t]

\* movedThisTurn lists units of the player on turn only.
Spent(t) == IF IsMyTurn THEN shown.moved[t] ELSE NoForce
Fresh(t) == Troops(t) (-) Spent(t)

\* Units of f that may attack t.
Eligible(f, t) == IF shown.owner[t] = Nobody THEN Size(f) ELSE CombatSize(f)

\* findAttackSource: an own neighbour with the most eligible units.  Which of
\* several depends on the order of the directions and is left open.
AttackSources(t) ==
  { s \in Neighbours[t] :
      /\ shown.owner[s] = Me /\ Eligible(Troops(s), t) > 0
      /\ \A x \in Neighbours[t] :
           shown.owner[x] = Me => Eligible(Troops(x), t) <= Eligible(Troops(s), t) }

-----------------------------------------------------------------------------
(* The page *)

\* The selection and the staged attack or transfer.  The ids staged are split
\* by what the copy says of them: for an attack, the units still on the tile
\* (force) and whether there are others (stray); for a transfer, those that
\* can move (load) and those that have moved (idle).  What the code leaves
\* behind but never reads before it sets it again is cleared here.
Rest(t) ==
  [mode |-> "idle", selected |-> t,
   from |-> NoTile, to |-> NoTile, force |-> NoForce, stray |-> FALSE,
   sendFrom |-> NoTile, sendTo |-> NoTile, load |-> NoForce, idle |-> NoForce]

\* resetInteraction: the capital is selected, also when it has fallen.
AtRest == Rest(Capital[Me])

NoTransfer == [from |-> NoTile, to |-> NoTile, force |-> NoForce]

Selected == page.selected # NoTile
OwnTile  == Selected /\ shown.owner[page.selected] = Me
Linked2Capital == OwnTile /\ page.selected \in Shown!Connected(Me)

\* Is the panel that of the selected tile?
Browsing == page.mode = "idle"

\* The winner screen covers everything.
Playing == shown.winner = Nobody

-----------------------------------------------------------------------------
(* What the panel offers *)

\* The panel's own price list.
PanelUnitCost(k) ==
  IF k = "noble" THEN NobleCost(Shown!UnitCount(Me, "noble")) ELSE UnitCost[k]

\* Mutant: nobody has to pay.
CanRecruitUnpaid(k) ==
  /\ OwnTile /\ shown.structure[page.selected].kind \in {"capital-base", "city"}

CanRecruit(k) ==
  /\ OwnTile /\ shown.structure[page.selected].kind \in {"capital-base", "city"}
  /\ Shown!Affords(Me, PanelUnitCost(k))

CanBuild(k) ==
  /\ Linked2Capital /\ shown.structure[page.selected].kind = "none"
  /\ Shown!Affords(Me, StructureCost[k])

CanDemolish == OwnTile /\ shown.structure[page.selected].kind \in BuildableKinds

CanDevelop ==
  /\ Linked2Capital /\ page.selected \notin shown.developed
  /\ shown.stock[Me]["gold"] >= DevelopCost

\* A target was selected: the button picks the source.
CanTarget == Selected /\ ~ OwnTile /\ AttackSources(page.selected) # {} /\ ~ shown.attacked

\* A source was selected: the target is picked on the map.
CanStartAttack == OwnTile /\ Size(Troops(page.selected)) > 0 /\ ~ shown.attacked

CanStartSend == OwnTile /\ Size(Fresh(page.selected)) > 0

\* The panels of a staged attack or transfer ask neither whose turn it is nor
\* whether there was an attack.
CanConfirmAttack ==
  page.mode = "attack-select" /\ Eligible(page.force, page.to) > 0

CanConfirmSend ==
  page.mode = "send-troops" /\ page.sendTo # NoTile /\ Size(page.load) > 0

-----------------------------------------------------------------------------
(* The preview of a staged attack: MilitaryPanel's own copy of the combat   *)
(* rules.                                                                   *)

\* Mutant: nobles do not fight.
PreviewedTroopsNoNobles(f) == [f EXCEPT !["noble"] = 0]

\* Whose attack counts: every staged unit, nobles included.
PreviewedTroops(f) == f

\* Only the units of the land's owner defend.
Defenders(t) == IF shown.owner[t] = Nobody THEN NoForce ELSE shown.units[shown.owner[t]][t]

PreviewTerrain == [plains |-> 10, hills |-> 13, forest |-> 15, mountain |-> 20]

PreviewBonus(t) ==
  PreviewTerrain[Terrain[t]] * (IF shown.structure[t].kind \in {"capital-base", "castle"} THEN 2 ELSE 1)

Preview ==
  LET att == PreviewedTroops(page.force)
      def == Defenders(page.to)
  IN  Outcomes(TotalAttack(att), Size(att), TotalAttack(def), Size(def), PreviewBonus(page.to))

-----------------------------------------------------------------------------
(* Commands *)

Order(type, t, k) == [type |-> type, tile |-> t, kind |-> k]

\* What one click sends, but for attacks and transfers.
Orders ==
  IF ~ (Playing /\ IsMyTurn) THEN {}
  ELSE {Order("end-turn", NoTile, "none")}
       \cup { o \in { Order("recruit-unit", page.selected, k) : k \in UnitKinds } :
                Browsing /\ CanRecruit(o.kind) }
       \cup { o \in { Order("build-structure", page.selected, k) : k \in BuildableKinds } :
                Browsing /\ CanBuild(o.kind) }
       \cup { o \in {Order("demolish-structure", page.selected, "none")} : Browsing /\ CanDemolish }
       \cup { o \in {Order("develop-tile", page.selected, "none")} : Browsing /\ CanDevelop }

Execute(o) ==
  \/ o.type = "recruit-unit" /\ RecruitUnit(Me, o.tile, o.kind)
  \/ o.type = "build-structure" /\ BuildStructure(Me, o.tile, o.kind)
  \/ o.type = "demolish-structure" /\ DemolishStructure(Me, o.tile)
  \/ o.type = "develop-tile" /\ DevelopTile(Me, o.tile)
  \/ o.type = "end-turn" /\ EndTurn(Me)

\* Does the validator of the command let it pass?
Accepted(o) ==
  \/ o.type = "recruit-unit" /\ MayRecruit(Me, o.tile, o.kind)
  \/ o.type = "build-structure" /\ MayBuild(Me, o.tile, o.kind)
  \/ o.type = "demolish-structure" /\ MayDemolish(Me, o.tile)
  \/ o.type = "develop-tile" /\ MayDevelop(Me, o.tile)
  \/ o.type = "end-turn" /\ MayAct(Me)

\* A command the validators refuse changes nothing.
Refused == UNCHANGED <<rules, behind>>

Done == JudgeVictory /\ behind' = behind + 1

\* A player clicks while the copy is at most MaxLag behind, and commands are
\* served in the order they were sent.
MayClick == Playing /\ behind <= MaxLag
MaySend  == MayClick /\ transfer = NoTransfer

ClickOrder ==
  /\ MaySend
  /\ \E o \in Orders :
       /\ IF Accepted(o) THEN Execute(o) /\ Done ELSE Refused
       /\ page' = IF o.type = "end-turn" THEN AtRest ELSE page
  /\ UNCHANGED <<shown, transfer>>

\* The units of f left when was became is: of a kind that lost units, any may
\* be gone.
StillThere(f, was, is) ==
  { g \in SubForces(f) :
      \A k \in UnitKinds :
        IF is[k] >= was[k] THEN g[k] = f[k]
        ELSE g[k] <= is[k] /\ f[k] - g[k] <= was[k] - is[k] }

\* handleConfirmAttack: the validator refuses units that are not on the tile.
ConfirmAttack ==
  /\ MaySend /\ CanConfirmAttack
  /\ \E g \in StillThere(page.force, Troops(page.from), units[Me][page.from]) :
       IF ~ page.stray /\ g = page.force /\ MayAttack(Me, page.from, page.to, g)
       THEN AttackTile(Me, page.from, page.to, g, g) /\ Done
       ELSE Refused
  /\ page' = AtRest
  /\ UNCHANGED <<shown, transfer>>

\* handleConfirmSend: one command per unit.  Those for idle units, and for
\* units that are gone, are refused.
ConfirmSend ==
  /\ MaySend /\ CanConfirmSend
  /\ \E g \in StillThere(page.load, Fresh(page.sendFrom),
                         units[Me][page.sendFrom] (-) moved[page.sendFrom]) :
       transfer' = IF g = NoForce THEN NoTransfer
                   ELSE [from |-> page.sendFrom, to |-> page.sendTo, force |-> g]
  /\ page' = AtRest
  /\ UNCHANGED <<rules, shown, behind>>

ServeTransfer ==
  \E k \in UnitKinds :
    /\ transfer.force[k] > 0
    /\ LET left == transfer.force (-) Single(k)
       IN  transfer' = IF left = NoForce THEN NoTransfer ELSE [transfer EXCEPT !.force = left]
    /\ IF MayMove(Me, k, transfer.from, transfer.to)
       THEN MoveUnit(Me, k, transfer.from, transfer.to) /\ Done
       ELSE Refused
    /\ UNCHANGED <<shown, page>>

-----------------------------------------------------------------------------
(* Clicks that stay in the browser *)

Turn(p) == page' = p /\ UNCHANGED <<rules, shown, behind, transfer>>

\* Of an attack from s on t, all units join at first; nobles only when the
\* land is unowned.
Joining(s, t) ==
  [k \in UnitKinds |-> IF k = "noble" /\ shown.owner[t] # Nobody THEN 0 ELSE Troops(s)[k]]

StageAttack(s, t) ==
  [Rest(NoTile) EXCEPT !.mode = "attack-select", !.from = s, !.to = t, !.force = Joining(s, t)]

\* attackTargetTiles
TargetsFrom(s) == { t \in Neighbours[s] : shown.owner[t] # Me }

\* handleTileClick, while a target is awaited: any other tile ends the mode.
PickTarget(t) ==
  /\ page.mode = "attack"
  /\ Turn(IF t \in TargetsFrom(page.from) THEN StageAttack(page.from, t)
          ELSE Rest(page.selected))

AwaitsDestination == page.mode = "send-troops" /\ page.sendTo = NoTile

\* Any own tile will do, connected or not.
PickDestination(t) ==
  /\ AwaitsDestination
  /\ Turn(IF shown.owner[t] = Me /\ t # page.sendFrom
          THEN [page EXCEPT !.sendTo = t, !.load = NoForce, !.idle = NoForce]
          ELSE AtRest)

\* A click while units are counted out goes back to idle or, for a transfer,
\* to the choice of the destination.
SelectTile(t) ==
  /\ page.mode # "attack" /\ ~ AwaitsDestination
  /\ Turn(IF page.mode = "send-troops"
          THEN [Rest(NoTile) EXCEPT !.mode = "send-troops", !.sendFrom = page.sendFrom]
          ELSE Rest(IF page.selected = t THEN NoTile ELSE t))

\* The buttons of the panel.
StartAttack ==
  /\ Browsing /\ IsMyTurn /\ CanStartAttack
  /\ Turn([Rest(NoTile) EXCEPT !.mode = "attack", !.from = page.selected])

TargetSelected ==
  /\ Browsing /\ IsMyTurn /\ CanTarget
  /\ \E s \in AttackSources(page.selected) :
       Turn(StageAttack(s, page.selected))

StartSend ==
  /\ Browsing /\ IsMyTurn /\ CanStartSend
  /\ Turn([Rest(NoTile) EXCEPT !.mode = "send-troops", !.sendFrom = page.selected])

\* handleAttackUnitCountChange
CountAttack(k) ==
  /\ page.mode = "attack-select"
  /\ \/ page.force[k] < Troops(page.from)[k] /\ Turn([page EXCEPT !.force[k] = @ + 1])
     \/ page.force[k] > 0 /\ Turn([page EXCEPT !.force[k] = @ - 1])

\* handleSendUnitCountChange: the buttons count the units that can move, but
\* the handler takes the first unit of the kind, also one that has moved.
CountSend(k) ==
  /\ page.mode = "send-troops" /\ page.sendTo # NoTile
  /\ \/ /\ page.load[k] < Fresh(page.sendFrom)[k]
        /\ \/ Turn([page EXCEPT !.load[k] = @ + 1])
           \/ page.idle[k] < Spent(page.sendFrom)[k] /\ Turn([page EXCEPT !.idle[k] = @ + 1])
     \/ /\ page.load[k] > 0
        /\ \/ Turn([page EXCEPT !.load[k] = @ - 1])
           \/ page.idle[k] > 0 /\ Turn([page EXCEPT !.idle[k] = @ - 1])

Cancel == ~ Browsing /\ Turn(AtRest)

Click ==
  /\ MayClick
  /\ \/ \E t \in Tiles : PickTarget(t) \/ PickDestination(t) \/ SelectTile(t)
     \/ StartAttack \/ TargetSelected \/ StartSend \/ Cancel
     \/ \E k \in UnitKinds : CountAttack(k) \/ CountSend(k)

-----------------------------------------------------------------------------
(* The game goes on *)

OthersCommand ==
  /\ behind < MaxLag /\ active # Me
  /\ Next
  /\ behind' = behind + 1 /\ UNCHANGED <<shown, page, transfer>>

\* What the new copy says of the units staged for an attack.
AttackRestaged(v) ==
  IF page.from = NoTile THEN {page}
  ELSE { [page EXCEPT !.force = g, !.stray = @ \/ g # page.force] :
           g \in StillThere(page.force, Troops(page.from), v.units[Me][page.from]) }

Reloaded(p, l, i) == [p EXCEPT !.load = l, !.idle = i]

\* The same for a transfer.  At the end of the turn, the idle can move again.
SendRestaged(v, p) ==
  LET s     == p.sendFrom
      spent == IF v.active = Me THEN v.moved[s] ELSE NoForce
      fresh == v.units[Me][s] (-) spent
  IN  IF s = NoTile THEN {p}
      ELSE IF v.active = shown.active
      THEN { Reloaded(p, l, i) :
               l \in StillThere(p.load, Fresh(s), fresh), i \in StillThere(p.idle, Spent(s), spent) }
      ELSE { Reloaded(p, l, NoForce) :
               l \in StillThere(p.load (+) p.idle, Troops(s), fresh) }

Receive ==
  /\ behind > 0
  /\ shown' = View /\ behind' = 0
  /\ \E p \in AttackRestaged(View) : page' \in SendRestaged(View, p)
  /\ UNCHANGED <<rules, transfer>>

\* The page is opened, or loaded again: the capital is selected.
Open ==
  /\ shown' = View /\ behind' = 0
  /\ page' = AtRest
  /\ UNCHANGED <<rules, transfer>>

ClientInit ==
  /\ Init
  /\ shown = View /\ behind = 0
  /\ page = AtRest
  /\ transfer = NoTransfer

ClientNext ==
  OthersCommand \/ ClickOrder \/ ConfirmAttack \/ ConfirmSend \/ ServeTransfer \/ Click \/ Receive \/ Open

ClientSpec == ClientInit /\ [][ClientNext]_clientVars
-----------------------------------------------------------------------------
(* Properties *)

\* What the panel does not look at: the limits per player, the ban on
\* recruiting without food, and whether a recruiting tile is cut off.
Overlooked(o) ==
  \/ /\ o.type = "recruit-unit"
     /\ \/ UnitCount(Me, o.kind) >= UnitLimit[o.kind]
        \/ stock[Me]["food"] = 0
        \/ o.tile \notin Connected(Me)
  \/ /\ o.type = "build-structure" /\ o.kind \in LimitedKinds
     /\ StructureCount(Me, o.kind) >= StructureLimit[o.kind]

\* The staged attack is refused only when the turn passed or an attack was
\* made since it was staged, when staged units left, when the land it comes
\* from is cut off, or when its target is the player's own: on an old copy, it
\* can be staged after it was taken, and stays staged over turns.
AttackAccepted ==
  \/ MayAttack(Me, page.from, page.to, page.force)
  \/ ~ IsMyTurn \/ shown.attacked \/ page.stray
  \/ page.from \notin Connected(Me) \/ owner[page.to] = Me

\* The staged transfer is refused only when the turn passed or when the
\* destination is cut off.
TransferAccepted ==
  \/ \A k \in UnitKinds : page.load[k] > 0 => MayMove(Me, k, page.sendFrom, page.sendTo)
  \/ ~ IsMyTurn
  \/ page.sendTo \notin Connected(Me)

\* On an up-to-date page, what is offered is accepted, although attacks and
\* transfers were put together over several copies and the panel has rules of
\* its own.  The exceptions are what the panels overlook
\* (ActionPanel.tsx:332-789 against the validators).
OfferedIsAccepted ==
  behind = 0 /\ MaySend =>
    /\ \A o \in Orders : Accepted(o) \/ Overlooked(o)
    /\ CanConfirmAttack => AttackAccepted
    /\ CanConfirmSend => TransferAccepted

\* On an up-to-date page, the preview of a staged attack foresees the battle:
\* the units the page counts on either side and its tables are those of the
\* rules (MilitaryPanel.tsx:57-97 against attack.ts:83-108).
PreviewIsRight ==
  behind = 0 /\ CanConfirmAttack => Preview = BattleOutcomes(page.to, page.force)
=============================================================================

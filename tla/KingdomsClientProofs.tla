------------------------ MODULE KingdomsClientProofs ------------------------
(***************************************************************************)
(* Proofs about a browser on a game of Kingdoms, for every roster, board   *)
(* and balance: whatever is clicked on however old a copy, the game goes   *)
(* by the rules, so that what is proved of them holds with the browser;    *)
(* and on an up-to-date page, what is offered is accepted and the preview  *)
(* of an attack is right.                                                  *)
(***************************************************************************)
EXTENDS KingdomsClient, KingdomsProofs

-----------------------------------------------------------------------------
(* The invariant *)

Places == Tiles \cup {NoTile}

Views ==
  [owner : [Tiles -> Players \cup {Nobody}], loyalty : [Tiles -> 1 .. MaxLoyalty],
   developed : SUBSET Tiles, units : [Players -> [Tiles -> Army]],
   moved : [Tiles -> Army], structure : [Tiles -> Site], attacked : BOOLEAN,
   stock : [Players -> [Resources -> Int]], eliminated : SUBSET Players,
   active : Players, winner : Players \cup {Nobody}]

Pages ==
  [mode : {"idle", "attack", "attack-select", "send-troops"}, selected : Places,
   from : Places, to : Places, force : Army, stray : BOOLEAN,
   sendFrom : Places, sendTo : Places, load : Army, idle : Army]

Transfers == [from : Places, to : Places, force : Army]

ClientTypeOK ==
  /\ shown \in Views
  /\ behind \in Nat
  /\ page \in Pages
  /\ transfer \in Transfers

\* What the copy says of moved units is of one moment.
CopyIsWhole == \A t \in Tiles, k \in UnitKinds : shown.moved[t][k] <= shown.units[shown.active][t][k]

\* Tiles are chosen when they are needed.
PageIsWhole ==
  /\ page.mode = "idle" => page.from = NoTile /\ page.sendFrom = NoTile
  /\ page.mode \in {"attack", "attack-select"} => page.from \in Tiles /\ page.sendFrom = NoTile
  /\ page.mode = "attack-select" => page.to \in Neighbours[page.from]
  /\ page.mode = "send-troops" =>
       page.sendFrom \in Tiles /\ page.from = NoTile /\ page.sendTo # page.sendFrom

\* What is staged is shown on the tile it was taken from.
StagedIsShown ==
  \A k \in UnitKinds :
    /\ page.from \in Tiles => page.force[k] <= Troops(page.from)[k]
    /\ page.sendFrom \in Tiles => /\ page.load[k] <= Fresh(page.sendFrom)[k]
                                  /\ page.idle[k] <= Spent(page.sendFrom)[k]

TransferIsWhole == transfer = NoTransfer \/ (transfer.from \in Tiles /\ transfer.to \in Tiles)

\* A copy with no change behind it is the view of now.
CopyIsRecent == behind = 0 => shown = View

RulesInv == Consistent /\ ForcesStandAtHome /\ MovedAreThere /\ NoDebt

PageInv == ClientTypeOK /\ CopyIsWhole /\ PageIsWhole /\ StagedIsShown /\ TransferIsWhole

ClientInv == RulesInv /\ PageInv /\ CopyIsRecent

-----------------------------------------------------------------------------
(* Every step of the browser is a step of the rules, or none of the game *)

\* What an order on offer is for.
LEMMA OrderIsFor ==
  ASSUME ClientTypeOK, NEW o \in Orders
  PROVE  /\ Playing /\ IsMyTurn
         /\ \/ o.type = "end-turn"
            \/ /\ Browsing /\ o.tile = page.selected /\ o.tile \in Tiles
               /\ \/ o.type = "recruit-unit" /\ o.kind \in UnitKinds /\ CanRecruit(o.kind)
                  \/ o.type = "build-structure" /\ o.kind \in BuildableKinds /\ CanBuild(o.kind)
                  \/ o.type = "demolish-structure" /\ CanDemolish
                  \/ o.type = "develop-tile" /\ CanDevelop
<1>1. page.selected \in Places
  BY DEF ClientTypeOK, Pages
<1>2. OwnTile => page.selected \in Tiles
  BY <1>1 DEF OwnTile, Selected, Places
<1>3. CASE o = Order("end-turn", NoTile, "none")
  BY <1>3 DEF Orders, Order
<1>4. ASSUME NEW k \in UnitKinds, o = Order("recruit-unit", page.selected, k),
             Browsing, CanRecruit(o.kind), Playing, IsMyTurn
      PROVE  o.type = "recruit-unit" /\ o.kind \in UnitKinds /\ o.tile = page.selected /\ OwnTile
  BY <1>4 DEF Order, CanRecruit
<1>5. ASSUME NEW k \in BuildableKinds, o = Order("build-structure", page.selected, k),
             Browsing, CanBuild(o.kind), Playing, IsMyTurn
      PROVE  o.type = "build-structure" /\ o.kind \in BuildableKinds /\ o.tile = page.selected /\ OwnTile
  BY <1>5 DEF Order, CanBuild, Linked2Capital
<1>6. ASSUME o = Order("demolish-structure", page.selected, "none"), CanDemolish
      PROVE  o.type = "demolish-structure" /\ o.tile = page.selected /\ OwnTile
  BY <1>6 DEF Order, CanDemolish
<1>7. ASSUME o = Order("develop-tile", page.selected, "none"), CanDevelop
      PROVE  o.type = "develop-tile" /\ o.tile = page.selected /\ OwnTile
  BY <1>7 DEF Order, CanDevelop, Linked2Capital
<1>8. /\ Playing /\ IsMyTurn
      /\ \/ o = Order("end-turn", NoTile, "none")
         \/ \E k \in UnitKinds : o = Order("recruit-unit", page.selected, k) /\ Browsing /\ CanRecruit(o.kind)
         \/ \E k \in BuildableKinds : o = Order("build-structure", page.selected, k) /\ Browsing /\ CanBuild(o.kind)
         \/ o = Order("demolish-structure", page.selected, "none") /\ Browsing /\ CanDemolish
         \/ o = Order("develop-tile", page.selected, "none") /\ Browsing /\ CanDevelop
  BY DEF Orders
<1> QED BY <1>2, <1>3, <1>4, <1>5, <1>6, <1>7, <1>8

LEMMA OrderIsCommand ==
  ASSUME ClientTypeOK, NEW o \in Orders, Execute(o)
  PROVE  Command
<1>1. Me \in Players
  BY ClientAssumption
<1>2. CASE o.type = "end-turn"
  BY <1>1, <1>2 DEF Execute, Command
<1>3. CASE o.type # "end-turn"
  <2>1. /\ o.tile \in Tiles
        /\ o.type = "recruit-unit" => o.kind \in UnitKinds
        /\ o.type = "build-structure" => o.kind \in BuildableKinds
    BY <1>3, OrderIsFor
  <2> QED BY <1>1, <1>3, <2>1 DEF Execute, Command
<1> QED BY <1>2, <1>3

\* A force no larger than f is one of its parts.
LEMMA PartOf ==
  ASSUME NEW f \in Army, NEW g \in Army, \A k \in UnitKinds : g[k] <= f[k]
  PROVE  g \in SubForces(f)
<1>1. g["spearman"] \in 0 .. f["spearman"] /\ g["cannoneer"] \in 0 .. f["cannoneer"]
      /\ g["noble"] \in 0 .. f["noble"]
  BY DEF Army, UnitKinds
<1>2. g = [k \in UnitKinds |-> IF k = "spearman" THEN g["spearman"]
                               ELSE IF k = "noble" THEN g["noble"] ELSE g["cannoneer"]]
  BY DEF Army, UnitKinds
<1> QED BY <1>1, <1>2 DEF SubForces

\* A page names every unit once.
LEMMA CountedOnce ==
  ASSUME NEW f \in Army
  PROVE  f \in Counted(f)
<1> DEFINE again == [k \in UnitKinds |-> IF f[k] = 0 THEN 0 ELSE MaxRepeats]
<1>1. NoForce \in Army /\ again \in Army
  BY NoForceType, SetupAssumption DEF Army
<1>2. NoForce \in SubForces(again)
  <2>1. \A k \in UnitKinds : NoForce[k] <= again[k]
    BY <1>1 DEF NoForce, Army
  <2> HIDE DEF again
  <2> QED BY <1>1, <2>1, PartOf
<1>3. f = f (+) NoForce
  BY DEF Army, NoForce, (+)
<1> QED BY <1>2, <1>3 DEF Counted

\* What is left of a staged force is there.
LEMMA LeftIsThere ==
  ASSUME NEW f \in Army, NEW was, NEW is, NEW g \in StillThere(f, was, is),
         \A k \in UnitKinds : was[k] \in Int /\ is[k] \in Int /\ f[k] <= was[k]
  PROVE  g \in Army /\ \A k \in UnitKinds : g[k] <= is[k] /\ g[k] <= f[k]
<1>1. g \in Army /\ \A k \in UnitKinds : g[k] <= f[k]
  BY SubForcesType DEF StillThere
<1>2. ASSUME NEW k \in UnitKinds PROVE g[k] <= is[k]
  <2>1. g[k] \in Int /\ f[k] \in Int
    BY <1>1 DEF Army
  <2> QED BY <2>1 DEF StillThere
<1> QED BY <1>1, <1>2

\* The forces shown are forces.
LEMMA TroopsType ==
  ASSUME ClientTypeOK, CopyIsWhole, NEW t \in Tiles
  PROVE  Troops(t) \in Army /\ Spent(t) \in Army /\ Fresh(t) \in Army
<1>1. Troops(t) \in Army /\ shown.moved[t] \in Army
  BY ClientAssumption DEF ClientTypeOK, Views, Troops
<1>2. Spent(t) \in Army
  BY <1>1, NoForceType DEF Spent
<1>3. \A k \in UnitKinds : Spent(t)[k] <= Troops(t)[k]
  BY <1>1 DEF Spent, Troops, CopyIsWhole, IsMyTurn, NoForce, Army
<1> QED BY <1>1, <1>2, <1>3, RemovePart DEF Fresh

\* A step of the browser either plays one command, and the copy falls behind,
\* or leaves the game alone, and the copy stays as it is or is renewed.
LEMMA PlayedOrNot ==
  ASSUME ClientInv, ClientNext
  PROVE  \/ Next /\ shown' = shown /\ behind' = behind + 1
         \/ UNCHANGED <<vars, shown, behind>>
         \/ UNCHANGED vars /\ shown' = View /\ behind' = 0
<1> USE DEF ClientInv, RulesInv, PageInv, rules
<1>1. Me \in Players
  BY ClientAssumption
<1>2. CASE OthersCommand
  BY <1>2 DEF OthersCommand
<1>3. CASE ClickOrder
  <2>1. PICK o \in Orders : IF Accepted(o) THEN Execute(o) /\ Done ELSE Refused
    BY <1>3 DEF ClickOrder
  <2>2. shown' = shown
    BY <1>3 DEF ClickOrder
  <2>3. CASE Accepted(o)
    <3>1. Command
      BY <2>1, <2>3, OrderIsCommand
    <3> QED BY <2>1, <2>2, <2>3, <3>1 DEF Done, Next
  <2>4. CASE ~ Accepted(o)
    BY <2>1, <2>2, <2>4 DEF Refused
  <2> QED BY <2>3, <2>4
<1>4. CASE ConfirmAttack
  <2>1. page.mode = "attack-select" /\ page.from \in Tiles /\ page.to \in Tiles
    BY <1>4, BoardAssumption DEF ConfirmAttack, CanConfirmAttack, PageIsWhole
  <2>2. page.force \in Army /\ Troops(page.from) \in Army /\ units[Me][page.from] \in Army
    BY <1>1, <2>1, TroopsType DEF ClientTypeOK, Pages, Consistent, TypeOK
  <2>3. PICK g \in StillThere(page.force, Troops(page.from), units[Me][page.from]) :
          \/ AttackTile(Me, page.from, page.to, g, g) /\ Done
          \/ Refused
    BY <1>4 DEF ConfirmAttack
  <2>4. g \in Army /\ \A k \in UnitKinds : g[k] <= units[Me][page.from][k]
    <3>1. \A k \in UnitKinds : page.force[k] <= Troops(page.from)[k]
      BY <2>1 DEF StagedIsShown
    <3>2. \A k \in UnitKinds : Troops(page.from)[k] \in Int /\ units[Me][page.from][k] \in Int
      BY <2>2 DEF Army
    <3> QED BY <2>2, <3>1, <3>2, LeftIsThere
  <2>5. g \in SubForces(units[Me][page.from])
    BY <2>2, <2>4, PartOf
  <2>6. shown' = shown
    BY <1>4 DEF ConfirmAttack
  <2>8. g \in Counted(g)
    BY <2>4, CountedOnce
  <2>7. CASE AttackTile(Me, page.from, page.to, g, g) /\ Done
    <3>1. Command
      BY <1>1, <2>1, <2>5, <2>7, <2>8 DEF Command
    <3> QED BY <2>6, <2>7, <3>1 DEF Next, Done
  <2> QED BY <2>3, <2>6, <2>7 DEF Refused
<1>5. CASE ConfirmSend
  BY <1>5 DEF ConfirmSend
<1>6. CASE ServeTransfer
  <2>1. PICK k \in UnitKinds :
          /\ transfer.force[k] > 0
          /\ \/ MoveUnit(Me, k, transfer.from, transfer.to) /\ Done
             \/ Refused
          /\ shown' = shown
    BY <1>6 DEF ServeTransfer
  <2>2. transfer # NoTransfer
    BY <2>1 DEF NoTransfer, NoForce
  <2>3. transfer.from \in Tiles /\ transfer.to \in Tiles
    BY <2>2 DEF TransferIsWhole
  <2>4. CASE MoveUnit(Me, k, transfer.from, transfer.to) /\ Done
    <3>1. Command
      BY <1>1, <2>3, <2>4 DEF Command
    <3> QED BY <2>1, <2>4, <3>1 DEF Next, Done
  <2> QED BY <2>1, <2>4 DEF Refused
<1>7. CASE Click
  BY <1>7 DEF Click, Turn, PickTarget, PickDestination, SelectTile, StartAttack, TargetSelected,
              StartSend, Cancel, CountAttack, CountSend
<1>8. CASE Receive \/ Open
  BY <1>8 DEF Receive, Open
<1> QED BY <1>2, <1>3, <1>4, <1>5, <1>6, <1>7, <1>8 DEF ClientNext

-----------------------------------------------------------------------------
(* The copy *)

LEMMA ViewType == TypeOK => View \in Views
BY DEF TypeOK, View, Views

LEMMA RulesStep ==
  ASSUME ClientInv, ClientNext
  PROVE  RulesInv'
<1>1. [Next]_vars
  BY PlayedOrNot
<1> QED BY <1>1, ConsistentNext, ForcesNext, MovedNext, NoDebtNext DEF ClientInv, RulesInv, Consistent

LEMMA CopyStep ==
  ASSUME ClientInv, ClientNext
  PROVE  shown' \in Views /\ behind' \in Nat /\ CopyIsWhole' /\ CopyIsRecent'
<1>1. RulesInv /\ TypeOK /\ MovedAreThere /\ shown \in Views /\ behind \in Nat /\ CopyIsWhole /\ CopyIsRecent
  BY DEF ClientInv, RulesInv, PageInv, ClientTypeOK, Consistent
<1>2. CASE Next /\ shown' = shown /\ behind' = behind + 1
  BY <1>1, <1>2 DEF CopyIsWhole, CopyIsRecent
<1>3. CASE UNCHANGED <<vars, shown, behind>>
  <2>1. View' = View
    BY <1>3 DEF View, vars, land, board, turn
  <2> QED BY <1>1, <1>3, <2>1 DEF CopyIsWhole, CopyIsRecent
<1>4. CASE UNCHANGED vars /\ shown' = View /\ behind' = 0
  <2>1. View' = View
    BY <1>4 DEF View, vars, land, board, turn
  <2>2. shown' = View'
    BY <1>4, <2>1
  <2>3. CopyIsWhole'
    BY <1>1, <1>4 DEF CopyIsWhole, MovedAreThere, View
  <2> QED BY <1>1, <1>4, <2>2, <2>3, ViewType DEF CopyIsRecent
<1> QED BY <1>2, <1>3, <1>4, PlayedOrNot

-----------------------------------------------------------------------------
(* The page *)

PageOK == page \in Pages /\ PageIsWhole /\ StagedIsShown

\* A page on which nothing is put together.
LEMMA RestIsWhole ==
  ASSUME NEW t \in Places, page' = Rest(t)
  PROVE  PageOK'
<1>1. NoForce \in Army
  BY NoForceType
<1>2. page' \in Pages /\ page'.mode = "idle" /\ page'.from = NoTile /\ page'.sendFrom = NoTile
  BY <1>1 DEF Rest, Pages, Places
<1> QED BY <1>2, NoTileAssumption DEF PageOK, PageIsWhole, StagedIsShown

LEMMA AtRestIsWhole ==
  ASSUME page' = AtRest
  PROVE  PageOK'
<1>1. Capital[Me] \in Places
  BY ClientAssumption, BoardAssumption DEF Places
<1> QED BY <1>1, RestIsWhole DEF AtRest

LEMMA PageStays ==
  ASSUME PageOK, page' = page, shown' = shown
  PROVE  PageOK'
BY DEF PageOK, PageIsWhole, StagedIsShown, Troops, Fresh, Spent, IsMyTurn

\* A page that awaits the target of an attack, or the destination of a
\* transfer, from s.
LEMMA StartIsWhole ==
  ASSUME ClientTypeOK, CopyIsWhole, shown' = shown, NEW s \in Tiles,
         \/ page' = [Rest(NoTile) EXCEPT !.mode = "attack", !.from = s]
         \/ page' = [Rest(NoTile) EXCEPT !.mode = "send-troops", !.sendFrom = s]
  PROVE  PageOK'
<1>1. NoForce \in Army /\ NoTile \notin Tiles /\ s # NoTile
  BY NoForceType, NoTileAssumption
<1>2. Troops(s) \in Army /\ Spent(s) \in Army /\ Fresh(s) \in Army
  BY TroopsType
<1>3. \A k \in UnitKinds : NoForce[k] <= Troops(s)[k] /\ NoForce[k] <= Spent(s)[k] /\ NoForce[k] <= Fresh(s)[k]
  BY <1>2 DEF NoForce, Army
<1>4. Troops(s)' = Troops(s) /\ Spent(s)' = Spent(s) /\ Fresh(s)' = Fresh(s)
  BY DEF Troops, Spent, Fresh, IsMyTurn
<1>5. CASE page' = [Rest(NoTile) EXCEPT !.mode = "attack", !.from = s]
  <2>1. /\ page' \in Pages /\ page'.mode = "attack" /\ page'.from = s
        /\ page'.sendFrom = NoTile /\ page'.force = NoForce
    BY <1>1, <1>5 DEF Rest, Pages, Places
  <2> QED BY <1>1, <1>3, <1>4, <2>1 DEF PageOK, PageIsWhole, StagedIsShown
<1>6. CASE page' = [Rest(NoTile) EXCEPT !.mode = "send-troops", !.sendFrom = s]
  <2>1. /\ page' \in Pages /\ page'.mode = "send-troops" /\ page'.from = NoTile
        /\ page'.sendFrom = s /\ page'.sendTo = NoTile /\ page'.load = NoForce /\ page'.idle = NoForce
    BY <1>1, <1>6 DEF Rest, Pages, Places
  <2> QED BY <1>1, <1>3, <1>4, <2>1 DEF PageOK, PageIsWhole, StagedIsShown
<1> QED BY <1>5, <1>6

\* A page with an attack that was just staged.
LEMMA StagedIsWhole ==
  ASSUME ClientTypeOK, CopyIsWhole, shown' = shown,
         NEW s \in Tiles, NEW t \in Neighbours[s], shown.owner[t] # Me,
         page' = StageAttack(s, t)
  PROVE  PageOK'
<1>1. t \in Tiles /\ NoForce \in Army /\ NoTile \notin Tiles
  BY BoardAssumption, NoForceType, NoTileAssumption
<1>2. Troops(s) \in Army /\ Troops(s)' = Troops(s)
  BY TroopsType DEF Troops
<1>3. Joining(s, t) \in Army /\ \A k \in UnitKinds : Joining(s, t)[k] <= Troops(s)[k]
  BY <1>2 DEF Joining, Army
<1>4. /\ page' \in Pages /\ page'.mode = "attack-select" /\ page'.from = s /\ page'.to = t
      /\ page'.sendFrom = NoTile /\ page'.force = Joining(s, t)
  BY <1>1, <1>3 DEF StageAttack, Rest, Pages, Places
<1> QED BY <1>1, <1>2, <1>3, <1>4 DEF PageOK, PageIsWhole, StagedIsShown

\* More or fewer units are counted into what is staged.
LEMMA CountedIsWhole ==
  ASSUME PageOK, shown' = shown, page' \in Pages,
         page'.mode = page.mode, page'.from = page.from, page'.to = page.to,
         page'.sendFrom = page.sendFrom, page'.sendTo # page.sendFrom \/ page.mode # "send-troops",
         \A k \in UnitKinds :
           /\ page.from \in Tiles => page'.force[k] <= Troops(page.from)[k]
           /\ page.sendFrom \in Tiles => /\ page'.load[k] <= Fresh(page.sendFrom)[k]
                                         /\ page'.idle[k] <= Spent(page.sendFrom)[k]
  PROVE  PageOK'
BY DEF PageOK, PageIsWhole, StagedIsShown, Troops, Fresh, Spent, IsMyTurn

LEMMA CountAttackStep ==
  ASSUME ClientTypeOK, CopyIsWhole, PageOK, NEW k \in UnitKinds, CountAttack(k)
  PROVE  PageOK' /\ UNCHANGED <<page.mode, page.to>>
<1>1. page.from \in Tiles /\ page.mode = "attack-select" /\ page.sendFrom = NoTile /\ shown' = shown
  BY DEF CountAttack, Turn, PageOK, PageIsWhole
<1>2. page \in Pages /\ page.force \in Army
  BY DEF PageOK, Pages
<1>3. Troops(page.from) \in Army
  BY <1>1, TroopsType
<1>4. \A j \in UnitKinds : page.force[j] <= Troops(page.from)[j]
  BY <1>1 DEF PageOK, StagedIsShown
<1>5. PICK n \in Nat : n <= Troops(page.from)[k] /\ page' = [page EXCEPT !.force[k] = n]
  <2>1. page.force[k] \in Nat /\ Troops(page.from)[k] \in Nat
    BY <1>2, <1>3 DEF Army
  <2>2. CASE page.force[k] < Troops(page.from)[k] /\ Turn([page EXCEPT !.force[k] = @ + 1])
    <3>1. page' = [page EXCEPT !.force[k] = page.force[k] + 1]
      BY <2>2 DEF Turn
    <3>2. page.force[k] + 1 \in Nat /\ page.force[k] + 1 <= Troops(page.from)[k]
      BY <2>1, <2>2
    <3> QED BY <3>1, <3>2
  <2>3. CASE page.force[k] > 0 /\ Turn([page EXCEPT !.force[k] = @ - 1])
    <3>1. page' = [page EXCEPT !.force[k] = page.force[k] - 1]
      BY <2>3 DEF Turn
    <3>2. page.force[k] <= Troops(page.from)[k]
      BY <1>4
    <3>3. page.force[k] - 1 \in Nat /\ page.force[k] - 1 <= Troops(page.from)[k]
      BY <2>1, <2>3, <3>2
    <3> QED BY <3>1, <3>3
  <2> QED BY <2>2, <2>3 DEF CountAttack
<1>6. /\ page' \in Pages /\ page'.mode = page.mode /\ page'.from = page.from /\ page'.to = page.to
      /\ page'.sendFrom = page.sendFrom /\ page'.force = [page.force EXCEPT ![k] = n]
  BY <1>2, <1>5 DEF Pages, Army
<1>7. \A j \in UnitKinds : page'.force[j] <= Troops(page.from)[j]
  BY <1>2, <1>4, <1>5, <1>6 DEF Army
<1> QED BY <1>1, <1>6, <1>7, NoTileAssumption, CountedIsWhole

LEMMA CountSendStep ==
  ASSUME ClientTypeOK, CopyIsWhole, PageOK, NEW k \in UnitKinds, CountSend(k)
  PROVE  PageOK' /\ UNCHANGED <<page.mode, page.to>>
<1> DEFINE s == page.sendFrom
<1>1. /\ s \in Tiles /\ page.mode = "send-troops" /\ page.from = NoTile /\ shown' = shown
      /\ page.sendTo # s
  BY DEF CountSend, Turn, PageOK, PageIsWhole
<1>2. page \in Pages /\ page.load \in Army /\ page.idle \in Army
  BY DEF PageOK, Pages
<1>3. Fresh(s) \in Army /\ Spent(s) \in Army
  BY <1>1, TroopsType
<1>4. \A j \in UnitKinds : page.load[j] <= Fresh(s)[j] /\ page.idle[j] <= Spent(s)[j]
  BY <1>1 DEF PageOK, StagedIsShown
<1>5. /\ page.load[k] \in Nat /\ page.idle[k] \in Nat /\ Fresh(s)[k] \in Nat /\ Spent(s)[k] \in Nat
      /\ page.load[k] <= Fresh(s)[k] /\ page.idle[k] <= Spent(s)[k]
  BY <1>2, <1>3, <1>4 DEF Army
<1>6. ASSUME NEW n \in Nat, n <= Fresh(s)[k], page' = [page EXCEPT !.load[k] = n]
      PROVE  PageOK' /\ UNCHANGED <<page.mode, page.to>>
  <2>1. /\ page' \in Pages /\ page'.mode = page.mode /\ page'.from = page.from /\ page'.to = page.to
        /\ page'.sendFrom = s /\ page'.sendTo = page.sendTo /\ page'.idle = page.idle
        /\ page'.load = [page.load EXCEPT ![k] = n]
    BY <1>2, <1>6 DEF Pages, Army
  <2>2. \A j \in UnitKinds : page'.load[j] <= Fresh(s)[j] /\ page'.idle[j] <= Spent(s)[j]
    BY <1>2, <1>4, <1>6, <2>1 DEF Army
  <2> QED BY <1>1, <2>1, <2>2, NoTileAssumption, CountedIsWhole
<1>7. ASSUME NEW n \in Nat, n <= Spent(s)[k], page' = [page EXCEPT !.idle[k] = n]
      PROVE  PageOK' /\ UNCHANGED <<page.mode, page.to>>
  <2>1. /\ page' \in Pages /\ page'.mode = page.mode /\ page'.from = page.from /\ page'.to = page.to
        /\ page'.sendFrom = s /\ page'.sendTo = page.sendTo /\ page'.load = page.load
        /\ page'.idle = [page.idle EXCEPT ![k] = n]
    BY <1>2, <1>7 DEF Pages, Army
  <2>2. \A j \in UnitKinds : page'.load[j] <= Fresh(s)[j] /\ page'.idle[j] <= Spent(s)[j]
    BY <1>2, <1>4, <1>7, <2>1 DEF Army
  <2> QED BY <1>1, <2>1, <2>2, NoTileAssumption, CountedIsWhole
<1>8. \/ page.load[k] < Fresh(s)[k] /\ page' = [page EXCEPT !.load[k] = page.load[k] + 1]
      \/ page.idle[k] < Spent(s)[k] /\ page' = [page EXCEPT !.idle[k] = page.idle[k] + 1]
      \/ page.load[k] > 0 /\ page' = [page EXCEPT !.load[k] = page.load[k] - 1]
      \/ page.idle[k] > 0 /\ page' = [page EXCEPT !.idle[k] = page.idle[k] - 1]
  BY DEF CountSend, Turn
<1>9. CASE page.load[k] < Fresh(s)[k] /\ page' = [page EXCEPT !.load[k] = page.load[k] + 1]
  <2>1. page.load[k] + 1 \in Nat /\ page.load[k] + 1 <= Fresh(s)[k]
    BY <1>5, <1>9
  <2> QED BY <1>6, <1>9, <2>1
<1>10. CASE page.idle[k] < Spent(s)[k] /\ page' = [page EXCEPT !.idle[k] = page.idle[k] + 1]
  <2>1. page.idle[k] + 1 \in Nat /\ page.idle[k] + 1 <= Spent(s)[k]
    BY <1>5, <1>10
  <2> QED BY <1>7, <1>10, <2>1
<1>11. CASE page.load[k] > 0 /\ page' = [page EXCEPT !.load[k] = page.load[k] - 1]
  <2>1. page.load[k] - 1 \in Nat /\ page.load[k] - 1 <= Fresh(s)[k]
    BY <1>5, <1>11
  <2> QED BY <1>6, <1>11, <2>1
<1>12. CASE page.idle[k] > 0 /\ page' = [page EXCEPT !.idle[k] = page.idle[k] - 1]
  <2>1. page.idle[k] - 1 \in Nat /\ page.idle[k] - 1 <= Spent(s)[k]
    BY <1>5, <1>12
  <2> QED BY <1>7, <1>12, <2>1
<1> QED BY <1>8, <1>9, <1>10, <1>11, <1>12

LEMMA ClickStep ==
  ASSUME ClientInv, Click
  PROVE  PageOK'
<1>1. ClientTypeOK /\ CopyIsWhole /\ PageOK
  BY DEF ClientInv, PageInv, PageOK, ClientTypeOK
<1>2. page.selected \in Places /\ NoTile \in Places /\ Tiles \subseteq Places
  BY <1>1 DEF PageOK, Pages, Places
<1>3. shown' = shown
  BY DEF Click, Turn, PickTarget, PickDestination, SelectTile, StartAttack, TargetSelected,
         StartSend, Cancel, CountAttack, CountSend
<1>5. ASSUME NEW t \in Tiles, PickTarget(t) PROVE PageOK'
  <2>1. page.from \in Tiles
    BY <1>1, <1>5 DEF PickTarget, PageOK, PageIsWhole
  <2>2. \/ t \in TargetsFrom(page.from) /\ page' = StageAttack(page.from, t)
        \/ page' = Rest(page.selected)
    BY <1>5 DEF PickTarget, Turn
  <2>3. CASE page' = Rest(page.selected)
    BY <1>2, <2>3, RestIsWhole
  <2>4. CASE t \in TargetsFrom(page.from) /\ page' = StageAttack(page.from, t)
    BY <1>1, <1>3, <2>1, <2>4, StagedIsWhole DEF TargetsFrom
  <2> QED BY <2>2, <2>3, <2>4
<1>6. ASSUME NEW t \in Tiles, PickDestination(t) PROVE PageOK'
  <2>1. page.mode = "send-troops" /\ page.sendFrom \in Tiles /\ page.from = NoTile
    BY <1>1, <1>6 DEF PickDestination, AwaitsDestination, PageOK, PageIsWhole
  <2>2. CASE page' = AtRest
    BY <2>2, AtRestIsWhole
  <2>3. CASE /\ t # page.sendFrom
             /\ page' = [page EXCEPT !.sendTo = t, !.load = NoForce, !.idle = NoForce]
    <3>1. page \in Pages /\ NoForce \in Army /\ t \in Places
      BY <1>1, <1>2, NoForceType DEF PageOK
    <3>2. /\ page' \in Pages /\ page'.mode = page.mode /\ page'.from = page.from /\ page'.to = page.to
          /\ page'.sendFrom = page.sendFrom /\ page'.sendTo = t
          /\ page'.load = NoForce /\ page'.idle = NoForce
      BY <2>3, <3>1 DEF Pages
    <3>3. Fresh(page.sendFrom) \in Army /\ Spent(page.sendFrom) \in Army
      BY <1>1, <2>1, TroopsType
    <3>4. \A k \in UnitKinds : NoForce[k] <= Fresh(page.sendFrom)[k] /\ NoForce[k] <= Spent(page.sendFrom)[k]
      BY <3>3 DEF Army, NoForce
    <3> QED BY <1>1, <1>3, <2>1, <2>3, <3>2, <3>4, NoTileAssumption, CountedIsWhole
  <2> QED BY <1>6, <2>2, <2>3 DEF PickDestination, Turn
<1>7. ASSUME NEW t \in Tiles, SelectTile(t) PROVE PageOK'
  <2>1. CASE page.mode = "send-troops"
    <3>1. page.sendFrom \in Tiles
      BY <1>1, <2>1 DEF PageOK, PageIsWhole
    <3>2. page' = [Rest(NoTile) EXCEPT !.mode = "send-troops", !.sendFrom = page.sendFrom]
      BY <1>7, <2>1 DEF SelectTile, Turn
    <3> QED BY <1>1, <1>3, <3>1, <3>2, StartIsWhole
  <2>2. CASE page.mode # "send-troops"
    <3>1. page' = Rest(IF page.selected = t THEN NoTile ELSE t)
      BY <1>7, <2>2 DEF SelectTile, Turn
    <3> QED BY <1>2, <3>1, RestIsWhole
  <2> QED BY <2>1, <2>2
<1>8. CASE StartAttack
  <2>1. page.selected \in Tiles /\ page' = [Rest(NoTile) EXCEPT !.mode = "attack", !.from = page.selected]
    BY <1>2, <1>8 DEF StartAttack, CanStartAttack, OwnTile, Selected, Turn, Places
  <2> QED BY <1>1, <1>3, <2>1, StartIsWhole
<1>9. CASE TargetSelected
  <2>1. page.selected \in Tiles /\ shown.owner[page.selected] # Me
    BY <1>2, <1>9 DEF TargetSelected, CanTarget, OwnTile, Selected, Places
  <2>2. PICK s \in AttackSources(page.selected) : page' = StageAttack(s, page.selected)
    BY <1>9 DEF TargetSelected, Turn
  <2>3. s \in Tiles /\ page.selected \in Neighbours[s]
    BY <2>1, BoardAssumption DEF AttackSources
  <2> QED BY <1>1, <1>3, <2>1, <2>2, <2>3, StagedIsWhole
<1>10. CASE StartSend
  <2>1. /\ page.selected \in Tiles
        /\ page' = [Rest(NoTile) EXCEPT !.mode = "send-troops", !.sendFrom = page.selected]
    BY <1>2, <1>10 DEF StartSend, CanStartSend, OwnTile, Selected, Turn, Places
  <2> QED BY <1>1, <1>3, <2>1, StartIsWhole
<1>11. CASE Cancel
  BY <1>11, AtRestIsWhole DEF Cancel, Turn
<1>12. ASSUME NEW k \in UnitKinds, CountAttack(k) \/ CountSend(k)
       PROVE  PageOK'
  BY <1>1, <1>12, CountAttackStep, CountSendStep
<1> QED BY <1>5, <1>6, <1>7, <1>8, <1>9, <1>10, <1>11, <1>12 DEF Click

LEMMA SendRestagedIs ==
  ASSUME NEW v, NEW p, NEW q \in SendRestaged(v, p), p.sendFrom # NoTile
  PROVE  LET s     == p.sendFrom
             spent == IF v.active = Me THEN v.moved[s] ELSE NoForce
             fresh == v.units[Me][s] (-) spent
         IN  \/ /\ v.active = shown.active
                /\ \E l \in StillThere(p.load, Fresh(s), fresh), i \in StillThere(p.idle, Spent(s), spent) :
                     q = Reloaded(p, l, i)
             \/ /\ v.active # shown.active
                /\ \E l \in StillThere(p.load (+) p.idle, Troops(s), fresh) :
                     q = Reloaded(p, l, NoForce)
<1>1. CASE v.active = shown.active
  BY <1>1 DEF SendRestaged
<1>2. CASE v.active # shown.active
  BY <1>2 DEF SendRestaged
<1> QED BY <1>1, <1>2

\* A new copy: what is staged is cut down to what it shows.
LEMMA ReceiveStep ==
  ASSUME ClientInv, Receive
  PROVE  PageOK'
<1>1. /\ ClientTypeOK /\ CopyIsWhole /\ PageOK /\ RulesInv
      /\ TypeOK /\ MovedAreThere /\ Me \in Players
  BY ClientAssumption DEF ClientInv, PageInv, PageOK, ClientTypeOK, RulesInv, Consistent
<1>2. /\ shown' = View /\ units' = units /\ moved' = moved
  BY DEF Receive, rules, vars, land, board, turn
<1>3. page \in Pages /\ page.force \in Army /\ page.load \in Army /\ page.idle \in Army
  BY <1>1 DEF PageOK, Pages
<1>4. PICK p \in AttackRestaged(View) : page' \in SendRestaged(View, p)
  BY DEF Receive
<1>5. \A t \in Tiles : Troops(t)' = units[Me][t]
  BY <1>2 DEF Troops, View
<1>6. CASE page.from # NoTile
  <2>1. /\ page.from \in Tiles /\ page.sendFrom = NoTile
        /\ \A k \in UnitKinds : page.force[k] <= Troops(page.from)[k]
    BY <1>1, <1>3, <1>6, NoTileAssumption DEF PageOK, PageIsWhole, StagedIsShown, Pages
  <2>2. PICK g \in StillThere(page.force, Troops(page.from), units[Me][page.from]) :
          p = [page EXCEPT !.force = g, !.stray = @ \/ g # page.force]
    BY <1>4, <1>6 DEF AttackRestaged, View
  <2>3. Troops(page.from) \in Army /\ units[Me][page.from] \in Army
    BY <1>1, <2>1, TroopsType DEF TypeOK
  <2>4. g \in Army /\ \A k \in UnitKinds : g[k] <= units[Me][page.from][k]
    <3>1. \A k \in UnitKinds : Troops(page.from)[k] \in Int /\ units[Me][page.from][k] \in Int
      BY <2>3 DEF Army
    <3> QED BY <1>3, <2>1, <2>2, <3>1, LeftIsThere
  <2>5. /\ p \in Pages /\ p.mode = page.mode /\ p.from = page.from /\ p.to = page.to
        /\ p.sendFrom = NoTile /\ p.sendTo = page.sendTo /\ p.force = g
    BY <1>3, <2>1, <2>2, <2>4 DEF Pages
  <2>6. page' = p
    BY <1>4, <2>5 DEF SendRestaged
  <2>7. page.mode # "send-troops"
    BY <1>1, <1>6 DEF PageOK, PageIsWhole
  <2>8. PageIsWhole'
    BY <1>1, <1>2, <2>1, <2>5, <2>6, <2>7 DEF PageOK, PageIsWhole
  <2>9. StagedIsShown'
    BY <1>5, <2>1, <2>4, <2>5, <2>6, NoTileAssumption DEF StagedIsShown
  <2> QED BY <2>5, <2>6, <2>8, <2>9 DEF PageOK
<1>7. CASE page.from = NoTile /\ page.sendFrom = NoTile
  <2>1. AttackRestaged(View) = {page} /\ SendRestaged(View, page) = {page}
    BY <1>7 DEF AttackRestaged, SendRestaged
  <2>2. page' = page
    BY <1>4, <2>1
  <2>3. StagedIsShown'
    BY <1>7, <2>2, NoTileAssumption DEF StagedIsShown
  <2> QED BY <1>1, <1>2, <2>2, <2>3 DEF PageOK, PageIsWhole
<1>8. CASE page.from = NoTile /\ page.sendFrom # NoTile
  <2>1. PICK s \in Tiles : s = page.sendFrom
    BY <1>1, <1>3, <1>8 DEF PageOK, PageIsWhole, Pages
  <2> DEFINE spent == IF View.active = Me THEN View.moved[s] ELSE NoForce
             fresh == View.units[Me][s] (-) spent
  <2>2. page.mode = "send-troops" /\ page.sendTo # s /\ s # NoTile
    BY <1>1, <1>3, <1>8, <2>1 DEF PageOK, PageIsWhole, Pages
  <2>3. p = page
    <3>1. AttackRestaged(View) = {page}
      BY <1>8 DEF AttackRestaged
    <3> QED BY <1>4, <3>1
  <2>4. View.active = active /\ View.moved = moved /\ View.units = units
    BY DEF View
  <2>5. Troops(s) \in Army /\ Spent(s) \in Army /\ Fresh(s) \in Army
    BY <1>1, <2>2, TroopsType
  <2>6. \A k \in UnitKinds : page.load[k] <= Fresh(s)[k] /\ page.idle[k] <= Spent(s)[k]
    BY <1>1, <2>1 DEF PageOK, StagedIsShown
  <2>7. spent \in Army /\ fresh \in Army
    <3>1. units[Me][s] \in Army /\ moved[s] \in Army
      BY <1>1, <2>2 DEF TypeOK
    <3>2. CASE active = Me
      <4>1. spent = moved[s] /\ \A k \in UnitKinds : moved[s][k] <= units[Me][s][k]
        BY <1>1, <2>2, <2>4, <3>2 DEF MovedAreThere
      <4> QED BY <2>4, <3>1, <4>1, RemovePart
    <3>3. CASE active # Me
      <4>1. spent = NoForce /\ \A k \in UnitKinds : NoForce[k] <= units[Me][s][k]
        BY <2>4, <3>1, <3>3 DEF NoForce, Army
      <4> QED BY <2>4, <3>1, <4>1, NoForceType, RemovePart
    <3> QED BY <3>2, <3>3
  <2>8. Spent(s)' = spent /\ Fresh(s)' = fresh
    <3>1. Spent(s)' = spent
      BY <1>2 DEF Spent, IsMyTurn
    <3>2. Troops(s)' = View.units[Me][s]
      BY <1>5, <2>2, <2>4
    <3> QED BY <3>1, <3>2 DEF Fresh
  <2>9. ASSUME NEW l \in Army, NEW i \in Army, page' = Reloaded(page, l, i),
               \A k \in UnitKinds : l[k] <= fresh[k] /\ i[k] <= spent[k]
        PROVE  PageOK'
    <3>1. /\ page' \in Pages /\ page'.mode = page.mode /\ page'.from = page.from /\ page'.to = page.to
          /\ page'.sendFrom = s /\ page'.sendTo = page.sendTo /\ page'.load = l /\ page'.idle = i
      BY <1>3, <2>1, <2>9 DEF Pages, Reloaded
    <3>2. StagedIsShown'
      BY <1>8, <2>8, <2>9, <3>1, NoTileAssumption DEF StagedIsShown
    <3> QED BY <1>1, <1>2, <2>2, <3>1, <3>2 DEF PageOK, PageIsWhole
  <2>10. \A k \in UnitKinds :
          /\ Fresh(s)[k] \in Int /\ fresh[k] \in Int /\ Spent(s)[k] \in Int /\ spent[k] \in Int
          /\ Troops(s)[k] \in Int
    BY <2>5, <2>7 DEF Army
  <2>11. CASE active = shown.active
    <3>1. PICK l \in StillThere(page.load, Fresh(s), fresh), i \in StillThere(page.idle, Spent(s), spent) :
            page' = Reloaded(page, l, i)
      <4>1. View.active = shown.active
        BY <2>4, <2>11
      <4> QED BY <1>4, <2>1, <2>2, <2>3, <4>1, SendRestagedIs
    <3>2. l \in Army /\ \A k \in UnitKinds : l[k] <= fresh[k]
      BY <1>3, <2>6, <2>10, LeftIsThere
    <3>3. i \in Army /\ \A k \in UnitKinds : i[k] <= spent[k]
      BY <1>3, <2>6, <2>10, LeftIsThere
    <3> QED BY <2>9, <3>1, <3>2, <3>3
  <2>12. CASE active # shown.active
    <3>1. PICK l \in StillThere(page.load (+) page.idle, Troops(s), fresh) :
            page' = Reloaded(page, l, NoForce)
      <4>1. View.active # shown.active
        BY <2>4, <2>12
      <4> QED BY <1>4, <2>1, <2>2, <2>3, <4>1, SendRestagedIs
    <3>2. page.load (+) page.idle \in Army
      BY <1>3 DEF Army, (+)
    <3>3. \A k \in UnitKinds : (page.load (+) page.idle)[k] <= Troops(s)[k]
      <4> TAKE k \in UnitKinds
      <4>1. Fresh(s)[k] = Troops(s)[k] - Spent(s)[k]
        BY DEF Fresh, (-)
      <4>2. (page.load (+) page.idle)[k] = page.load[k] + page.idle[k]
        BY DEF (+)
      <4>3. page.load[k] \in Int /\ page.idle[k] \in Int
        BY <1>3 DEF Army
      <4> QED BY <2>6, <2>10, <4>1, <4>2, <4>3
    <3>4. l \in Army /\ \A k \in UnitKinds : l[k] <= fresh[k]
      BY <2>10, <3>2, <3>3, LeftIsThere
    <3>5. NoForce \in Army /\ \A k \in UnitKinds : NoForce[k] <= spent[k]
      BY <2>7, NoForceType DEF NoForce, Army
    <3> QED BY <2>9, <3>1, <3>4, <3>5
  <2> QED BY <2>11, <2>12
<1> QED BY <1>6, <1>7, <1>8

LEMMA PageStep ==
  ASSUME ClientInv, ClientNext
  PROVE  PageOK'
<1>1. PageOK /\ ClientTypeOK
  BY DEF ClientInv, PageInv, PageOK, ClientTypeOK
<1>2. CASE OthersCommand \/ ServeTransfer
  BY <1>1, <1>2, PageStays DEF OthersCommand, ServeTransfer
<1>3. CASE ClickOrder
  <2>1. PICK o \in Orders : page' = IF o.type = "end-turn" THEN AtRest ELSE page
    BY <1>3 DEF ClickOrder
  <2>2. CASE page' = AtRest
    BY <2>2, AtRestIsWhole
  <2>3. CASE o.type # "end-turn"
    <3>1. page' = page /\ page.mode = "idle" /\ shown' = shown
      BY <1>1, <1>3, <2>1, <2>3, OrderIsFor DEF Browsing, ClickOrder
    <3> QED BY <1>1, <3>1, PageStays
  <2> QED BY <2>1, <2>2, <2>3
<1>4. CASE ConfirmAttack \/ ConfirmSend \/ Open
  BY <1>4, AtRestIsWhole DEF ConfirmAttack, ConfirmSend, Open
<1> QED BY <1>2, <1>3, <1>4, ClickStep, ReceiveStep DEF ClientNext

LEMMA TransferStep ==
  ASSUME ClientInv, ClientNext
  PROVE  transfer' \in Transfers /\ TransferIsWhole'
<1>1. /\ PageOK /\ ClientTypeOK /\ CopyIsWhole /\ TransferIsWhole /\ transfer \in Transfers
      /\ TypeOK /\ MovedAreThere /\ Me \in Players
  BY ClientAssumption DEF ClientInv, PageInv, PageOK, ClientTypeOK, RulesInv, Consistent
<1>2. NoTransfer \in Transfers
  BY NoForceType DEF NoTransfer, Transfers, Places
<1>3. CASE transfer' = transfer
  BY <1>1, <1>3 DEF TransferIsWhole
<1>4. CASE transfer' = NoTransfer
  BY <1>2, <1>4 DEF TransferIsWhole
<1>5. CASE ConfirmSend
  <2>1. page.sendFrom \in Tiles /\ page.sendTo \in Tiles /\ page.load \in Army
    BY <1>1, <1>5 DEF ConfirmSend, CanConfirmSend, PageOK, PageIsWhole, Pages, Places
  <2>2. PICK g \in StillThere(page.load, Fresh(page.sendFrom),
                             units[Me][page.sendFrom] (-) moved[page.sendFrom]) :
          \/ transfer' = NoTransfer
          \/ transfer' = [from |-> page.sendFrom, to |-> page.sendTo, force |-> g]
    BY <1>5 DEF ConfirmSend
  <2>3. g \in Army
    BY <2>1, SubForcesType DEF StillThere
  <2> QED BY <1>4, <2>1, <2>2, <2>3 DEF Transfers, TransferIsWhole, Places
<1>6. CASE ServeTransfer
  <2>1. PICK k \in UnitKinds :
          /\ transfer.force[k] > 0
          /\ LET left == transfer.force (-) Single(k)
             IN  transfer' = IF left = NoForce THEN NoTransfer ELSE [transfer EXCEPT !.force = left]
    BY <1>6 DEF ServeTransfer
  <2>2. transfer.force \in Army
    BY <1>1 DEF Transfers
  <2>3. PICK left \in Army : transfer' = NoTransfer \/ transfer' = [transfer EXCEPT !.force = left]
    BY <2>1, <2>2, RemoveUnit
  <2>4. transfer # NoTransfer
    BY <2>1 DEF NoTransfer, NoForce
  <2>5. CASE transfer' = [transfer EXCEPT !.force = left]
    BY <1>1, <2>4, <2>5 DEF Transfers, TransferIsWhole
  <2> QED BY <1>4, <2>3, <2>5
<1> QED BY <1>3, <1>5, <1>6 DEF ClientNext, OthersCommand, ClickOrder, ConfirmAttack, Click, Turn,
           PickTarget, PickDestination, SelectTile, StartAttack, TargetSelected, StartSend, Cancel,
           CountAttack, CountSend, Receive, Open

LEMMA ClientStep == ClientInv /\ [ClientNext]_clientVars => ClientInv'
<1>1. ASSUME ClientInv, ClientNext PROVE ClientInv'
  BY <1>1, RulesStep, CopyStep, PageStep, TransferStep
     DEF ClientInv, PageInv, PageOK, ClientTypeOK
<1>2. ASSUME ClientInv, UNCHANGED clientVars PROVE ClientInv'
  <2>1. UNCHANGED <<vars, shown, behind, page, transfer>>
    BY <1>2 DEF clientVars, client, rules
  <2>2. [Next]_vars
    BY <2>1
  <2>3. RulesInv'
    BY <1>2, <2>2, ConsistentNext, ForcesNext, MovedNext, NoDebtNext DEF ClientInv, RulesInv, Consistent
  <2>4. View' = View
    BY <2>1 DEF View, vars, land, board, turn
  <2>5. CopyIsWhole' /\ CopyIsRecent'
    BY <1>2, <2>1, <2>4 DEF ClientInv, PageInv, CopyIsWhole, CopyIsRecent
  <2>6. ClientTypeOK' /\ TransferIsWhole'
    BY <1>2, <2>1 DEF ClientInv, PageInv, ClientTypeOK, TransferIsWhole
  <2>7. PageOK'
    BY <1>2, <2>1, PageStays DEF ClientInv, PageInv, PageOK, ClientTypeOK
  <2> QED BY <2>3, <2>5, <2>6, <2>7 DEF ClientInv, PageInv, PageOK
<1> QED BY <1>1, <1>2

LEMMA ClientStart == ClientInit => ClientInv
<1> SUFFICES ASSUME ClientInit PROVE ClientInv
  OBVIOUS
<1>1. RulesInv /\ TypeOK
  BY ConsistentInit, InitForces, InitMoved, InitNoDebt DEF ClientInit, RulesInv, Consistent
<1>2. shown = View /\ behind = 0 /\ shown \in Views
  BY <1>1, ViewType DEF ClientInit
<1>3. CopyIsWhole /\ CopyIsRecent
  BY <1>1, <1>2 DEF CopyIsWhole, CopyIsRecent, RulesInv, MovedAreThere, View
<1>4. transfer \in Transfers /\ TransferIsWhole
  BY NoForceType DEF ClientInit, TransferIsWhole, NoTransfer, Transfers, Places
<1>5. PageOK
  <2>1. Capital[Me] \in Places
    BY ClientAssumption, BoardAssumption DEF Places
  <2>2. page \in Pages /\ page.mode = "idle" /\ page.from = NoTile /\ page.sendFrom = NoTile
    BY <2>1, NoForceType DEF ClientInit, AtRest, Rest, Pages, Places
  <2> QED BY <2>2, NoTileAssumption DEF PageOK, PageIsWhole, StagedIsShown
<1> QED BY <1>1, <1>2, <1>3, <1>4, <1>5 DEF ClientInv, PageInv, PageOK, ClientTypeOK

LEMMA ClientInvariant == ClientSpec => []ClientInv
BY ClientStart, ClientStep, PTL DEF ClientSpec

-----------------------------------------------------------------------------
(* The game goes by the rules *)

\* With the browser, the game is one the rules allow: each step plays one
\* command the validators pass, or none.
THEOREM BrowserPlaysByTheRules == ClientSpec => Spec
<1>1. ClientInit => Init
  BY DEF ClientInit
<1>2. ClientInv /\ [ClientNext]_clientVars => [Next]_vars
  <2>1. ASSUME ClientInv, ClientNext PROVE [Next]_vars
    BY <2>1, PlayedOrNot
  <2>2. ASSUME UNCHANGED clientVars PROVE UNCHANGED vars
    BY <2>2 DEF clientVars, rules
  <2> QED BY <2>1, <2>2
<1> QED BY <1>1, <1>2, ClientInvariant, PTL DEF ClientSpec, Spec

-----------------------------------------------------------------------------
(* What an up-to-date page offers and foresees *)

LEMMA SameQueries ==
  ASSUME shown = View
  PROVE  /\ Shown!Connected(Me) = Connected(Me)
         /\ \A cost : Shown!Affords(Me, cost) <=> Affords(Me, cost)
         /\ \A k : Shown!UnitCount(Me, k) = UnitCount(Me, k)
<1>1. /\ shown.owner = owner /\ shown.structure = structure /\ shown.stock = stock
      /\ shown.units = units
  BY DEF View
<1>2. \A p : Shown!Owned(p) = Owned(p)
  BY <1>1 DEF Shown!Owned, Owned
<1>3. \A p : Shown!Gates(p) = Gates(p)
  BY <1>1 DEF Shown!Gates, Gates
<1>4. \A p, s, t : Shown!Linked(p, s, t) <=> Linked(p, s, t)
  BY <1>1, <1>3 DEF Shown!Linked, Linked
<1>5. Shown!Connected(Me) = Connected(Me)
  BY <1>1, <1>2, <1>4 DEF Shown!Connected, Connected
<1>6. \A cost : Shown!Affords(Me, cost) <=> Affords(Me, cost)
  BY <1>1 DEF Shown!Affords, Affords, Shown!Resources, Resources
<1>7. ASSUME NEW k PROVE Shown!UnitCount(Me, k) = UnitCount(Me, k)
  <2>1. \A S : Shown!Cardinality(S) = Cardinality(S)
    BY DEF Shown!Cardinality, Cardinality
  <2> QED BY <1>1, <2>1 DEF Shown!UnitCount, Shown!Total, UnitCount, Total
<1> QED BY <1>5, <1>6, <1>7

LEMMA CountTypes ==
  ASSUME TypeOK, NEW p \in Players
  PROVE  /\ \A k \in UnitKinds : UnitCount(p, k) \in Nat
         /\ \A k : StructureCount(p, k) \in Nat
<1>1. ASSUME NEW k \in UnitKinds PROVE UnitCount(p, k) \in Nat
  <2>1. [t \in Tiles |-> units[p][t][k]] \in [Tiles -> Nat]
    BY DEF TypeOK, Army
  <2> QED BY <2>1, TotalType DEF UnitCount
<1>2. ASSUME NEW k PROVE StructureCount(p, k) \in Nat
  <2>1. IsFiniteSet({ t \in Tiles : structure[t] = [kind |-> k, owner |-> p] })
    BY BoardAssumption, FS_Subset
  <2> QED BY <2>1, FS_CardinalityType DEF StructureCount
<1> QED BY <1>1, <1>2

\* The player on turn may act.
LEMMA OnTurn ==
  ASSUME ClientInv, behind = 0, IsMyTurn
  PROVE  MayAct(Me)
BY DEF ClientInv, RulesInv, CopyIsRecent, Consistent, EliminatedAreGone, IsMyTurn, View, MayAct

LEMMA OrdersAccepted ==
  ASSUME ClientInv, behind = 0, NEW o \in Orders
  PROVE  Accepted(o) \/ Overlooked(o)
<1>1. /\ shown = View /\ ClientTypeOK /\ TypeOK /\ StructuresFollowLand /\ NoDebt /\ Me \in Players
  BY ClientAssumption DEF ClientInv, PageInv, RulesInv, CopyIsRecent, Consistent
<1>2. /\ shown.owner = owner /\ shown.structure = structure /\ shown.stock = stock
      /\ shown.developed = developed
  BY <1>1 DEF View
<1>3. IsMyTurn /\ MayAct(Me)
  BY <1>1, OrderIsFor, OnTurn
<1>4. CASE o.type = "end-turn"
  BY <1>3, <1>4 DEF Accepted
<1>5. CASE o.type = "recruit-unit" /\ o.kind \in UnitKinds /\ CanRecruit(o.kind) /\ o.tile = page.selected
  <2> SUFFICES ASSUME ~ Overlooked(o) PROVE MayRecruit(Me, o.tile, o.kind)
    BY <1>5 DEF Accepted
  <2>1. owner[o.tile] = Me /\ structure[o.tile].kind \in {"capital-base", "city"}
    BY <1>2, <1>5 DEF CanRecruit, OwnTile
  <2>2. Affords(Me, UnitPrice(Me, o.kind))
    BY <1>1, <1>5, SameQueries DEF CanRecruit, PanelUnitCost, UnitPrice
  <2>3. o.tile \in Connected(Me) /\ stock[Me]["food"] # 0 /\ ~ (UnitCount(Me, o.kind) >= UnitLimit[o.kind])
    BY <1>5 DEF Overlooked
  <2>4. UnitCount(Me, o.kind) < UnitLimit[o.kind]
    BY <1>1, <1>5, <2>3, CountTypes, SetupAssumption
  <2>5. stock[Me]["food"] > 0
    BY <1>1, <2>3 DEF NoDebt, TypeOK, Resources
  <2> QED BY <1>3, <2>1, <2>2, <2>3, <2>4, <2>5 DEF MayRecruit
<1>6. CASE o.type = "build-structure" /\ o.kind \in BuildableKinds /\ CanBuild(o.kind) /\ o.tile = page.selected
  <2> SUFFICES ASSUME ~ Overlooked(o) PROVE MayBuild(Me, o.tile, o.kind)
    BY <1>6 DEF Accepted
  <2>1. owner[o.tile] = Me /\ structure[o.tile].kind = "none" /\ o.tile \in Connected(Me)
    BY <1>1, <1>2, <1>6, SameQueries DEF CanBuild, Linked2Capital, OwnTile
  <2>2. Affords(Me, StructureCost[o.kind])
    BY <1>1, <1>6, SameQueries DEF CanBuild
  <2>3. o.kind \in LimitedKinds => StructureCount(Me, o.kind) < StructureLimit[o.kind]
    BY <1>1, <1>6, CountTypes, SetupAssumption DEF Overlooked
  <2> QED BY <1>3, <2>1, <2>2, <2>3 DEF MayBuild
<1>7. CASE o.type = "demolish-structure" /\ CanDemolish /\ o.tile = page.selected /\ o.tile \in Tiles
  <2>1. owner[o.tile] = Me /\ structure[o.tile].kind \in BuildableKinds
    BY <1>2, <1>7 DEF CanDemolish, OwnTile
  <2>2. structure[o.tile].owner = Me
    BY <1>1, <1>7, <2>1 DEF StructuresFollowLand, BuildableKinds
  <2> QED BY <1>3, <1>7, <2>1, <2>2 DEF Accepted, MayDemolish
<1>8. CASE o.type = "develop-tile" /\ CanDevelop /\ o.tile = page.selected
  <2>1. /\ owner[o.tile] = Me /\ o.tile \notin developed /\ o.tile \in Connected(Me)
        /\ stock[Me]["gold"] >= DevelopCost
    BY <1>1, <1>2, <1>8, SameQueries DEF CanDevelop, Linked2Capital, OwnTile
  <2> QED BY <1>3, <1>8, <2>1 DEF Accepted, MayDevelop
<1> QED BY <1>1, <1>4, <1>5, <1>6, <1>7, <1>8, OrderIsFor

LEMMA AttackIsAccepted ==
  ASSUME ClientInv, behind = 0, CanConfirmAttack
  PROVE  AttackAccepted
<1> SUFFICES ASSUME IsMyTurn, ~ shown.attacked, page.from \in Connected(Me), owner[page.to] # Me
             PROVE  MayAttack(Me, page.from, page.to, page.force)
  BY DEF AttackAccepted
<1>1. /\ shown.owner = owner /\ shown.attacked = attacked
      /\ PageIsWhole /\ page.mode = "attack-select"
  BY DEF ClientInv, PageInv, CopyIsRecent, View, CanConfirmAttack
<1>2. owner[page.from] = Me
  BY ConnectedOwned
<1>3. page.to \in Neighbours[page.from]
  BY <1>1 DEF PageIsWhole
<1>4. IF owner[page.to] = Nobody THEN Size(page.force) > 0 ELSE CombatSize(page.force) > 0
  BY <1>1 DEF CanConfirmAttack, Eligible
<1> QED BY <1>1, <1>2, <1>3, <1>4, OnTurn DEF MayAttack

LEMMA TransferIsAccepted ==
  ASSUME ClientInv, behind = 0, CanConfirmSend
  PROVE  TransferAccepted
<1> SUFFICES ASSUME IsMyTurn, page.sendTo \in Connected(Me), NEW k \in UnitKinds, page.load[k] > 0
             PROVE  MayMove(Me, k, page.sendFrom, page.sendTo)
  BY DEF TransferAccepted
<1>1. /\ shown.units = units /\ shown.moved = moved /\ TypeOK /\ Me \in Players
      /\ page.sendFrom \in Tiles /\ page.sendTo # page.sendFrom /\ page \in Pages
  BY ClientAssumption DEF ClientInv, PageInv, RulesInv, Consistent, CopyIsRecent, View,
                          CanConfirmSend, PageIsWhole, ClientTypeOK
<1>2. owner[page.sendTo] = Me
  BY ConnectedOwned
<1>3. page.load[k] <= units[Me][page.sendFrom][k] - moved[page.sendFrom][k]
  BY <1>1 DEF ClientInv, PageInv, StagedIsShown, Fresh, Troops, Spent, (-)
<1>4. /\ units[Me][page.sendFrom][k] \in Nat /\ moved[page.sendFrom][k] \in Nat
      /\ page.load[k] \in Nat
  BY <1>1 DEF TypeOK, Army, Pages
<1>5. units[Me][page.sendFrom][k] > moved[page.sendFrom][k]
  BY <1>3, <1>4
<1> QED BY <1>1, <1>2, <1>5, OnTurn DEF MayMove

\* Whatever the page offers while its copy is up to date, the validators
\* pass, but for what the panels overlook, however old the copies were on
\* which it was put together (ActionPanel.tsx:332-789).
THEOREM OffersStand == ClientSpec => []OfferedIsAccepted
<1>1. ClientInv => OfferedIsAccepted
  BY OrdersAccepted, AttackIsAccepted, TransferIsAccepted DEF OfferedIsAccepted
<1> QED BY <1>1, ClientInvariant, PTL

\* The garrison of a tile is the force of its owner.
LEMMA GarrisonIsOwners ==
  ASSUME TypeOK, ForcesStandAtHome, NEW t \in Tiles
  PROVE  Garrison(t) = IF owner[t] = Nobody THEN NoForce ELSE units[owner[t]][t]
<1>1. ASSUME NEW q \in Players, owner[t] # q, NEW k \in UnitKinds PROVE units[q][t][k] = 0
  <2>1. units[q][t] \in Army /\ ~ (Size(units[q][t]) > 0)
    BY <1>1 DEF TypeOK, ForcesStandAtHome
  <2> QED BY <2>1 DEF Army, UnitKinds, Size
<1>2. CASE owner[t] = Nobody
  <2>1. ASSUME NEW k \in UnitKinds
        PROVE  Cardinality(UNION { {q} \X (1 .. units[q][t][k]) : q \in Players }) = 0
    <3>1. \A q \in Players : units[q][t][k] = 0
      BY <1>1, <1>2, RosterAssumption
    <3>2. UNION { {q} \X (1 .. units[q][t][k]) : q \in Players } = {}
      BY <3>1
    <3> QED BY <3>2, FS_EmptySet
  <2> QED BY <1>2, <2>1 DEF Garrison, NoForce
<1>3. CASE owner[t] # Nobody
  <2>1. PICK p \in Players : owner[t] = p
    BY <1>3 DEF TypeOK
  <2>2. ASSUME NEW k \in UnitKinds
        PROVE  Cardinality(UNION { {q} \X (1 .. units[q][t][k]) : q \in Players }) = units[p][t][k]
    <3> DEFINE n == units[p][t][k]
    <3>1. n \in Nat
      BY DEF TypeOK, Army
    <3>2. \A q \in Players : q # p => units[q][t][k] = 0
      BY <1>1, <2>1
    <3>3. \A q \in Players : q # p => 1 .. units[q][t][k] = {}
      BY <3>2
    <3>4. UNION { {q} \X (1 .. units[q][t][k]) : q \in Players } = {p} \X (1 .. n)
      <4>1. ASSUME NEW x \in UNION { {q} \X (1 .. units[q][t][k]) : q \in Players }
            PROVE  x \in {p} \X (1 .. n)
        <5>1. PICK q \in Players : x \in {q} \X (1 .. units[q][t][k])
          BY <4>1
        <5>2. q = p
          BY <3>3, <5>1
        <5> QED BY <5>1, <5>2
      <4>2. ASSUME NEW x \in {p} \X (1 .. n)
            PROVE  x \in UNION { {q} \X (1 .. units[q][t][k]) : q \in Players }
        BY <2>1, <4>2
      <4> QED BY <4>1, <4>2
    <3>5. IsFiniteSet({p}) /\ Cardinality({p}) = 1
      BY FS_Singleton, Zenon
    <3>6. IsFiniteSet(1 .. n) /\ Cardinality(1 .. n) = n
      <4>1. 1 \in Int /\ n \in Int
        BY <3>1
      <4>2. /\ IsFiniteSet(1 .. n)
            /\ Cardinality(1 .. n) = IF 1 > n THEN 0 ELSE n - 1 + 1
        BY <4>1, FS_Interval
      <4>3. (IF 1 > n THEN 0 ELSE n - 1 + 1) = n
        BY <3>1
      <4> QED BY <4>2, <4>3
    <3>7. Cardinality({p} \X (1 .. n)) = Cardinality({p}) * Cardinality(1 .. n)
      <4> HIDE DEF n
      <4> QED BY <3>5, <3>6, FS_Product, Zenon
    <3>8. 1 * n = n
      BY <3>1
    <3> QED BY <3>4, <3>5, <3>6, <3>7, <3>8, Zenon
  <2>3. units[p][t] \in [UnitKinds -> Nat]
    BY DEF TypeOK, Army
  <2> QED BY <1>3, <2>1, <2>2, <2>3 DEF Garrison
<1> QED BY <1>2, <1>3

LEMMA PreviewForesees ==
  ASSUME ClientInv, behind = 0, CanConfirmAttack
  PROVE  Preview = BattleOutcomes(page.to, page.force)
<1>1. /\ shown.owner = owner /\ shown.units = units /\ shown.structure = structure
      /\ TypeOK /\ ForcesStandAtHome
  BY DEF ClientInv, RulesInv, Consistent, CopyIsRecent, View
<1>2. page.to \in Tiles
  BY BoardAssumption DEF ClientInv, PageInv, PageIsWhole, CanConfirmAttack
<1>3. Defenders(page.to) = Garrison(page.to)
  BY <1>1, <1>2, GarrisonIsOwners DEF Defenders
<1>4. PreviewTerrain = TerrainDefense
  BY DEF PreviewTerrain, TerrainDefense
<1> QED BY <1>1, <1>3, <1>4 DEF Preview, BattleOutcomes, PreviewedTroops, PreviewBonus

\* The preview of a staged attack names the outcomes the battle may have,
\* although it counts the units of one owner only and has its own tables.
THEOREM PreviewsForesee == ClientSpec => []PreviewIsRight
<1>1. ClientInv => PreviewIsRight
  BY PreviewForesees DEF PreviewIsRight
<1> QED BY <1>1, ClientInvariant, PTL
=============================================================================

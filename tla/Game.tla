---------------------------------- MODULE Game ----------------------------------
(***************************************************************************)
(* The virtual world of applications/game (virtual_world.c, game_grid.c):  *)
(* a hero moved by shell commands and creatures moved once per round, all  *)
(* of it driven by timers.                                                 *)
(*                                                                         *)
(* A move is an effect of several steps, each a timer of its own; at its   *)
(* end the sprite is taken off the list of the tile it left and appended   *)
(* to the list of the tile it reached.  A round is a timer that schedules  *)
(* the next one; TheWorld.round is the one to cancel.  Walking onto the    *)
(* exit builds the next world, with one creature more, while the timers of *)
(* the old world are still pending.                                        *)
(*                                                                         *)
(* The world is a strip of tiles, away from the edge of the grid.  Dice,   *)
(* sight, terrain, abilities and weapons are not kept: whom a creature     *)
(* turns to, whether it strikes, hits or steps, and where the world puts   *)
(* what, is any choice they could lead to.  Attacks in flight only delay   *)
(* the next one and are left out, like everything that is only drawn.      *)
(* Hit points are kept as their sign.                                      *)
(*                                                                         *)
(* Periods: a round comes a second after the one before, a creature's move *)
(* is over three quarters of a second after it began.  So no creature is   *)
(* moving when a round is due, unless two rounds are scheduled at once.    *)
(***************************************************************************)
EXTENDS LinkedList, Sequences, SequencesExt

CONSTANTS Cells,        \* tiles of the strip
          MaxCreatures, \* MAX_CREATURES
          Total,        \* steps of an effect, 4
          Slips,        \* what the program does not cope with and may happen here:
                        \*   "struck"  a sprite is slain while it moves
                        \*   "restart" a game is started while the hero, or a creature
                        \*             the new world does not have, moves
                        \*   "ghost"   the hero is told to move when no longer alive
                        \*   "pause"   the game is paused while the hero moves
          MaxWorlds,    \* bound: worlds built
          MaxHits       \* bound: strikes that hit

ASSUME GameAssumption ==
    /\ Cells \in Nat \ 0..1 /\ MaxCreatures \in Nat \ 0..1 /\ Total \in Nat \ 0..1
    /\ Slips \subseteq {"struck", "restart", "ghost", "pause"} /\ {MaxWorlds, MaxHits} \subseteq Nat

(* The nodes of the tile lists. *)
Tiles       == 1..Cells
Hero        == Cells + 1
Creature(i) == Cells + 2 + i
ExitTile    == Cells + MaxCreatures + 2
Sprites     == Hero..Creature(MaxCreatures - 1)

VARIABLE g
vars == << g >>

(* A sprite: its EffectTile's location, destination and count, the pending *)
(* callbacks of its moves, each with its context, in the order they are    *)
(* due; the sign of its hit points; whether it lies there as an item.      *)
Absent == [at |-> NULL, to |-> NULL, count |-> 0, timers |-> << >>, hp |-> "slain",
           item |-> FALSE]

Init == g = [link |-> [n \in 1..ExitTile |-> NoLinks], exit |-> NULL,
             sprite |-> [x \in Sprites |-> Absent],
             level |-> 0, GameUp |-> FALSE, over |-> FALSE, worlds |-> 0, hits |-> 0,
             round |-> 0,   \* 1: TheWorld.round points to a pending timer
             orphans |-> 0] \* pending rounds it does not point to
-----------------------------------------------------------------------------
(* Tile lists are circular: a tile and the sprites stacked on it. *)
Stack(link, tile) ==
    LET at  == Visit(link, link[tile].next, ExitTile)
        len == CHOOSE k \in 0..ExitTile : at[k] = tile /\ \A j \in 0..k - 1 : at[j] # tile
    IN  [k \in 1..len |-> at[k - 1]]

ListAppend(link, item, tile) ==
    LET stack == Stack(link, tile)
    IN  ListInsertAfter(link, item, IF stack = << >> THEN tile ELSE Last(stack))

(* Whom sprite_find_nearest may find: a creature or the hero, if listed. *)
Targets(w, x) ==
    {y \in UNION {ToSet(Stack(w.link, t)) : t \in Tiles} \cap Sprites :
        y # x /\ ~w.sprite[y].item}

(* Moving(s): sprite_move and player_move return silently. *)
Moving(s) == s.at # s.to \/ s.count # 0

TileEffectStart(s, new) ==
    [s EXCEPT !.to = new, !.count = 1, !.timers = Append(@, new)]

(* Mutant of TileEffectNext: the last step does not arrive.                *)
TileEffectNext_short(s) == [s EXCEPT !.count = IF @ + 1 >= Total THEN 0 ELSE @ + 1]

TileEffectNext(s) ==
    IF s.count + 1 >= Total THEN [s EXCEPT !.count = 0, !.at = s.to]
    ELSE [s EXCEPT !.count = @ + 1]

(* The first half of both callbacks: the timer is gone, the effect moved   *)
(* on; if it is not over a new timer is scheduled.                         *)
Stepped(s) ==
    LET fired == [s EXCEPT !.timers = Tail(@)]
        next  == IF s.count = 0 THEN fired ELSE TileEffectNext(fired)
    IN  IF next.count = 0 THEN next
        ELSE [next EXCEPT !.timers = Append(@, Head(s.timers))]

(* At the end of a move: off the old list, onto the new one. *)
Relisted(w, x) ==
    [w EXCEPT !.link = ListAppend(ListRemove(@, x), x, w.sprite[x].at)]
-----------------------------------------------------------------------------
(* world_create_random links every tile to itself; game_start initialises  *)
(* and places the creatures of the level, the exit and the hero, and       *)
(* schedules the first round.  Timers of moves are not touched.            *)
World(w, places) ==
    LET put == [i \in 1..w.level + 3 |->
                  CASE i <= w.level + 1 -> [node |-> Creature(i - 1), at |-> places[i]]
                    [] i = w.level + 2 -> [node |-> ExitTile, at |-> places[i]]
                    [] OTHER -> [node |-> Hero, at |-> places[i]]]
        bare == [n \in DOMAIN w.link |-> IF n \in Tiles THEN [next |-> n, previous |-> n]
                                        ELSE w.link[n]]
        spot(x) == (CHOOSE i \in DOMAIN put : put[i].node = x)
    IN  [w EXCEPT
          !.link = FoldLeft(LAMBDA link, p : ListAppend(link, p.node, p.at), bare, put),
          !.exit = put[w.level + 2].at,
          !.sprite = [x \in Sprites |->
              IF \A i \in DOMAIN put : put[i].node # x THEN @[x]
              ELSE [@[x] EXCEPT !.at = put[spot(x)].at, !.to = put[spot(x)].at, !.count = 0,
                                !.hp = IF x = Hero THEN @ ELSE "up", !.item = FALSE]],
          !.worlds = @ + 1,
          !.round = 1]

game_start(w) ==
    {World(w, places) : places \in [1..w.level + 3 -> Tiles]}

(* Mutant of game_level_up: the round of the old world is not cancelled.   *)
game_level_up_twice(w) ==
    game_start([w EXCEPT !.orphans = @ + w.round,
                         !.level = IF @ < MaxCreatures - 1 THEN @ + 1 ELSE @])

(* Cancels the round of the old world. *)
game_level_up(w) ==
    game_start([w EXCEPT !.round = 0,
                         !.level = IF @ < MaxCreatures - 1 THEN @ + 1 ELSE @])
-----------------------------------------------------------------------------
(* Strikes. *)

(* Below zero the victim is unlinked; struck down by the hero it may turn  *)
(* into an item where it stood (defeat_creature).  At exactly zero it      *)
(* stays where it is and does nothing any more.                            *)
creature_attack(w, x, victim) ==
    LET v     == w.sprite[victim]
        hit   == [w EXCEPT !.hits = @ + 1]
        spent == [hit EXCEPT !.sprite[victim].hp = "spent"]
        slain == [hit EXCEPT !.link = ListRemove(@, victim), !.sprite[victim].hp = "slain"]
        item  == [slain EXCEPT
                    !.sprite[victim].item = TRUE,
                    !.link = ListAppend([@ EXCEPT ![victim] = NoLinks], victim, v.at)]
    IN  {w} \cup {after \in {slain} \cup (IF v.hp = "up" THEN {spent} ELSE {})
                               \cup (IF x = Hero THEN {item} ELSE {}) :
                     /\ w.hits < MaxHits
                     /\ after = spent \/ v.timers = << >> \/ "struck" \in Slips}

sprite_move(w, x, new) ==
    IF Moving(w.sprite[x]) THEN w
    ELSE [w EXCEPT !.sprite[x] = TileEffectStart(@, new)]

(* One creature's turn: hide or wait, strike, or step to or from someone   *)
(* or at random.                                                           *)
Turn(w, x) ==
    IF w.sprite[x].hp # "up" THEN {w}
    ELSE UNION {creature_attack(w, x, v) : v \in Targets(w, x)} \cup
         {sprite_move(w, x, new) : new \in {w.sprite[x].at - 1, w.sprite[x].at,
                                            w.sprite[x].at + 1} \cap Tiles} \cup {w}

(* The callback of a round: the one TheWorld.round points to, or another. *)
game_round(own) ==
    /\ IF own THEN g.round = 1 ELSE g.orphans > 0
    /\ g.round + g.orphans > 1 \/ \A x \in Sprites \ {Hero} : g.sprite[x].timers = << >>
    /\ \E w \in FoldLeft(LAMBDA ws, i : UNION {Turn(w, Creature(i - 1)) : w \in ws},
                         {g}, [i \in 1..g.level + 1 |-> i]) :
          LET pending == IF own THEN g.orphans ELSE g.orphans - 1
          IN  g' = IF w.sprite[Hero].hp = "up"
                     THEN [w EXCEPT !.round = 1,
                                    !.orphans = IF own THEN pending ELSE pending + g.round]
                     ELSE [w EXCEPT !.round = 0, !.orphans = pending, !.over = TRUE]

(* Mutant of sprite_move_callback: the sprite stays on the old list.       *)
sprite_move_callback_linked(x) ==
    /\ g.sprite[x].timers # << >>
    /\ LET w == [g EXCEPT !.sprite[x] = Stepped(@)]
       IN  g' = IF w.sprite[x].count # 0 THEN w
                ELSE [w EXCEPT !.link = ListAppend(@, x, w.sprite[x].at)]

sprite_move_callback(x) ==
    /\ g.sprite[x].timers # << >>
    /\ LET w == [g EXCEPT !.sprite[x] = Stepped(@)]
       IN  g' = IF w.sprite[x].count # 0 THEN w ELSE Relisted(w, x)

(* The hero's move ends on the exit, or with an item that is left (one of  *)
(* its kind is carried already), taken, or drunk.                          *)
PickUp(w, tile) ==
    LET items == SelectSeq(Stack(w.link, tile), LAMBDA n : n \in Sprites /\ w.sprite[n].item)
        taken == [w EXCEPT !.link = ListRemove(@, Head(items)),
                           !.sprite[Head(items)].item = FALSE]
    IN  {w} \cup IF items = << >> THEN {}
                 ELSE {taken, [taken EXCEPT !.sprite[Hero].hp = "up"]}

player_move_callback ==
    /\ g.sprite[Hero].timers # << >>
    /\ LET w    == [g EXCEPT !.sprite[Hero] = Stepped(@)]
           tile == Head(g.sprite[Hero].timers)
       IN  IF w.sprite[Hero].count # 0 THEN g' = w
           ELSE IF tile # g.exit THEN g' \in PickUp(Relisted(w, Hero), tile)
           ELSE g.worlds < MaxWorlds /\ g' \in game_level_up(Relisted(w, Hero))
-----------------------------------------------------------------------------
(* The shell commands. *)

GameStart ==
    /\ g.worlds < MaxWorlds
    /\ "restart" \in Slips \/ \A x \in Sprites \ {Creature(0), Creature(1)} :
                                 g.sprite[x].timers = << >>
    /\ \E w \in game_start([g EXCEPT !.round = 0, !.level = 1, !.GameUp = TRUE, !.over = FALSE,
                                     !.sprite[Hero] = [Absent EXCEPT !.hp = "up",
                                                                     !.timers = g.sprite[Hero].timers]]) :
          g' = w

(* Before the first GameStart there is no world to resume. *)
GamePause ==
    /\ g.worlds > 0
    /\ "pause" \in Slips \/ g.sprite[Hero].timers = << >>
    /\ g' = IF g.GameUp THEN [g EXCEPT !.round = 0, !.GameUp = FALSE]
            ELSE [g EXCEPT !.round = 1, !.orphans = @ + g.round, !.GameUp = TRUE]

Action ==
    /\ g.GameUp
    /\ \E v \in Targets(g, Hero) : g' \in creature_attack(g, Hero, v)

(* North, South and the others: player_move.  Off the grid or where the    *)
(* terrain does not let it, the hero stays.                                *)
player_move ==
    /\ g.GameUp /\ ~Moving(g.sprite[Hero])
    /\ g.sprite[Hero].hp = "up" \/ "ghost" \in Slips
    /\ \E new \in {g.sprite[Hero].at - 1, g.sprite[Hero].at + 1} \cap Tiles :
          /\ new = g.exit => g.worlds < MaxWorlds
          /\ g' = [g EXCEPT !.sprite[Hero] = TileEffectStart(@, new)]

Next == \/ GameStart \/ GamePause \/ Action \/ player_move \/ player_move_callback
        \/ \E own \in BOOLEAN : game_round(own)
        \/ \E x \in Sprites \ {Hero} : sprite_move_callback(x)

Spec == Init /\ [][Next]_vars
-----------------------------------------------------------------------------
(* Every tile's list leads around back to the tile both ways, and holds    *)
(* exactly the sprites whose location the tile is: those of this level     *)
(* that have not been slain, the hero, items nobody has taken, and the     *)
(* exit.  ListRemove leaves stale links in what it removes, worlds are     *)
(* rebuilt under sprites that are moving, and their callbacks still come.  *)
GridConsistent ==
    g.worlds > 0 =>
      \A t \in Tiles :
        /\ \E k \in 0..ExitTile : Visit(g.link, g.link[t].next, ExitTile)[k] = t
        /\ LET stack == Stack(g.link, t)
           IN  /\ \A n \in ToSet(stack) \cup {t} : g.link[g.link[n].next].previous = n
               /\ ToSet(stack) =
                    {x \in Hero..Creature(g.level) :
                        g.sprite[x].at = t /\ (g.sprite[x].hp # "slain" \/ g.sprite[x].item)}
                    \cup (IF g.exit = t THEN {ExitTile} ELSE {})

(* A sprite that the program takes to be moving, and so will not move, has *)
(* a callback pending that ends the move: no sprite is ever stuck between  *)
(* two tiles, whatever happens to the world meanwhile.                     *)
NeverStuck == \A x \in Sprites : Moving(g.sprite[x]) => g.sprite[x].timers # << >>

(* One round is scheduled while the game is on, and none while it is       *)
(* paused: GameStart, GamePause, game_level_up and game_round all schedule *)
(* and cancel through the one pointer TheWorld.round.                      *)
OneRound == /\ g.orphans = 0
            /\ ~g.GameUp => g.round = 0
            /\ g.GameUp /\ ~g.over => g.round = 1

(* "If game on, pause the game by cancelling the timer" (GamePause): no    *)
(* round takes place while the game is paused.                             *)
PausedStandsStill == ~g.GameUp => g.round + g.orphans = 0
================================================================================

-------------------------------- MODULE Setup -------------------------------
(***************************************************************************)
(* Turn-0 generation of one game: internal/setup/generate.go and seeds.go  *)
(* over the generation tables of internal/store.                           *)
(*                                                                         *)
(* GenerateCluster draws the world in memory and then persists it in seven *)
(* transactions of its own, with nothing around them: any of them may fail *)
(* or be the last before a crash, and another call for the same game may   *)
(* run at the same time (nothing in the code prevents it).                 *)
(*                                                                         *)
(* The world is a function of the seeds and the knobs.  Every row carries  *)
(* the world it was written for.  A planet is keyed by its hex and orbit;  *)
(* its first deposit stands for all, as a planet has one at least.         *)
(***************************************************************************)
EXTENDS Integers, Sequences

CONSTANTS
  Calls,      \* concurrent calls of GenerateCluster
  Seeds,      \* what rand.Uint64 may draw
  Knobs,
  Hexes, OrbitNumbers,
  Infeasible, \* the (seed, knobs) the generator refuses
  Placed,     \* Placed[seed, knobs]: the hexes it puts systems on
  Occupied,   \* Occupied[seed, knobs]: the (hex, orbit) it puts planets in
  None

Worlds == Seeds \X Knobs
Places == Hexes \X OrbitNumbers

ASSUME Generator ==
  /\ Infeasible \subseteq Worlds
  /\ Placed \in [Worlds -> SUBSET Hexes]
  /\ Occupied \in [Worlds -> SUBSET Places]
  /\ \A w \in Worlds : \A p \in Occupied[w] : p[1] \in Placed[w]
  /\ \A w, v \in Worlds :   \* a system's planets depend on the seeds and its hex
       w[1] = v[1] => \A p \in Occupied[w] : p[1] \in Placed[v] => p \in Occupied[v]
  /\ None \notin Seeds /\ None \notin Worlds

Stages == <<"placement", "system_contents", "deposits">>

VARIABLES
  seeds,       \* game_engine_state: the master seeds
  cluster,     \* the cluster row
  systems,     \* by hex
  planets, deposits,   \* by hex and orbit
  selections,  \* game_generator, by stage
  call         \* the calls in flight

tables == <<cluster, systems, planets, deposits, selections>>
vars == <<seeds, tables, call>>

Idle == [pc |-> "idle", knobs |-> None, seed |-> None, stage |-> 1,
         alone |-> FALSE, early |-> FALSE]

NoSystems == [h \in Hexes |-> None]
NoPlanets == [p \in Places |-> None]

Init ==
  /\ seeds = None
  /\ cluster = None /\ systems = NoSystems /\ planets = NoPlanets /\ deposits = NoPlanets
  /\ selections = [s \in DOMAIN Stages |-> None]
  /\ call = [c \in Calls |-> Idle]

World(c) == <<call[c].seed, call[c].knobs>>

-----------------------------------------------------------------------------
Goto(c, q) == call' = [call EXCEPT ![c] = q]

(* A step of c that wrote: every other call in flight is no longer alone. *)
Wrote(c, q) ==
  call' = [d \in Calls |-> IF d = c THEN q ELSE [call[d] EXCEPT !.alone = FALSE]]

Start(c, knobs) ==
  /\ call[c].pc = "idle"
  /\ Goto(c, [Idle EXCEPT !.pc = "seeds", !.knobs = knobs, !.alone = TRUE,
                          !.early = seeds = None])
  /\ UNCHANGED <<seeds, tables>>

(* A statement fails, the context ends or the process dies: what was
   committed stays. *)
Fail(c) ==
  /\ call[c].pc # "idle"
  /\ Goto(c, Idle)
  /\ UNCHANGED <<seeds, tables>>

(* Mutant of ReadSeeds: every run draws new seeds. *)
RedrawSeeds(c) ==
  /\ call[c].pc = "seeds"
  /\ Goto(c, [call[c] EXCEPT !.pc = "draw"])
  /\ UNCHANGED <<seeds, tables>>

(* ensureSeeds: reuse the row if there is one ... *)
ReadSeeds(c) ==
  /\ call[c].pc = "seeds"
  /\ IF seeds # None
     THEN Goto(c, [call[c] EXCEPT !.pc = "generate", !.seed = seeds])
     ELSE Goto(c, [call[c] EXCEPT !.pc = "draw"])
  /\ UNCHANGED <<seeds, tables>>

(* ... else draw and upsert; the row written is the one used. *)
DrawSeeds(c, s) ==
  /\ call[c].pc = "draw"
  /\ seeds' = s
  /\ Wrote(c, [call[c] EXCEPT !.pc = "generate", !.seed = s])
  /\ UNCHANGED tables

(* Generation in memory: an infeasible request ends here. *)
Generate(c) ==
  /\ call[c].pc = "generate"
  /\ Goto(c, IF World(c) \in Infeasible
             THEN Idle ELSE [call[c] EXCEPT !.pc = "clear"])
  /\ UNCHANGED <<seeds, tables>>

(* Mutants of Clear: a table is missing from the list. *)
ClearButSelections(c) ==
  /\ call[c].pc = "clear"
  /\ cluster' = None /\ systems' = NoSystems /\ planets' = NoPlanets /\ deposits' = NoPlanets
  /\ Wrote(c, [call[c] EXCEPT !.pc = "cluster"])
  /\ UNCHANGED <<seeds, selections>>

ClearButSystems(c) ==
  /\ call[c].pc = "clear"
  /\ cluster' = None /\ planets' = NoPlanets /\ deposits' = NoPlanets
  /\ selections' = [s \in DOMAIN Stages |-> None]
  /\ Wrote(c, [call[c] EXCEPT !.pc = "cluster"])
  /\ UNCHANGED <<seeds, systems>>

(* DeleteGeneration: all six tables in one transaction. *)
Clear(c) ==
  /\ call[c].pc = "clear"
  /\ cluster' = None /\ systems' = NoSystems /\ planets' = NoPlanets /\ deposits' = NoPlanets
  /\ selections' = [s \in DOMAIN Stages |-> None]
  /\ Wrote(c, [call[c] EXCEPT !.pc = "cluster"])
  /\ UNCHANGED seeds

(* The rows of the world under the given keys; a key already there refuses them
   all. *)
Conflicts(keys, table) == \E k \in keys : table[k] # None

Filled(c, keys, table) ==
  [k \in DOMAIN table |-> IF k \in keys THEN World(c) ELSE table[k]]

(* Every row written needs its parent. *)
PlanetsDangle(c) == \E p \in Occupied[World(c)] : systems[p[1]] = None
DepositsDangle(c) == \E p \in Occupied[World(c)] : planets[p] = None

SaveCluster(c) ==
  /\ call[c].pc = "cluster"
  /\ cluster = None /\ ~Conflicts(Placed[World(c)], systems)
  /\ cluster' = World(c) /\ systems' = Filled(c, Placed[World(c)], systems)
  /\ Wrote(c, [call[c] EXCEPT !.pc = "selections"])
  /\ UNCHANGED <<seeds, planets, deposits, selections>>

(* SaveGenerator, once per stage. *)
SaveGenerator(c) ==
  LET s == call[c].stage IN
  /\ call[c].pc = "selections"
  /\ selections[s] = None
  /\ selections' = [selections EXCEPT ![s] = World(c)]
  /\ Wrote(c, IF s < Len(Stages) THEN [call[c] EXCEPT !.stage = s + 1]
              ELSE [call[c] EXCEPT !.pc = "contents"])
  /\ UNCHANGED <<seeds, cluster, systems, planets, deposits>>

SaveSystemContents(c) ==
  /\ call[c].pc = "contents"
  /\ ~Conflicts(Occupied[World(c)], planets) /\ ~PlanetsDangle(c)
  /\ planets' = Filled(c, Occupied[World(c)], planets)
  /\ Wrote(c, [call[c] EXCEPT !.pc = "deposits"])
  /\ UNCHANGED <<seeds, cluster, systems, deposits, selections>>

SaveDeposits(c) ==
  /\ call[c].pc = "deposits"
  /\ ~Conflicts(Occupied[World(c)], deposits) /\ ~DepositsDangle(c)
  /\ deposits' = Filled(c, Occupied[World(c)], deposits)
  /\ Wrote(c, [call[c] EXCEPT !.pc = "done"])
  /\ UNCHANGED <<seeds, cluster, systems, planets, selections>>

Return(c) ==
  /\ call[c].pc = "done"
  /\ Goto(c, Idle)
  /\ UNCHANGED <<seeds, tables>>

Step(c) ==
  \/ \E k \in Knobs : Start(c, k)
  \/ Fail(c)
  \/ ReadSeeds(c)
  \/ \E s \in Seeds : DrawSeeds(c, s)
  \/ Generate(c)
  \/ Clear(c) \/ SaveCluster(c) \/ SaveGenerator(c)
  \/ SaveSystemContents(c) \/ SaveDeposits(c)
  \/ Return(c)

Next == \E c \in Calls : Step(c)

Spec == Init /\ [][Next]_vars

-----------------------------------------------------------------------------
(* Properties. *)

TypeOK ==
  /\ seeds \in Seeds \cup {None}
  /\ cluster \in Worlds \cup {None}
  /\ systems \in [Hexes -> Worlds \cup {None}]
  /\ {planets, deposits} \subseteq [Places -> Worlds \cup {None}]
  /\ selections \in [DOMAIN Stages -> Worlds \cup {None}]
  /\ call \in [Calls ->
       [pc: {"idle", "seeds", "draw", "generate", "clear", "cluster", "selections",
             "contents", "deposits", "done"},
        knobs: Knobs \cup {None}, seed: Seeds \cup {None}, stage: DOMAIN Stages,
        alone: BOOLEAN, early: BOOLEAN]]

(* Of a world that has planets (or deposits) in the table none is missing. *)
OfWholeWorlds(table) ==
  \A p \in Places : table[p] # None =>
    /\ table[p] \notin Infeasible
    /\ \A k \in Places : table[k] = table[p] <=> k \in Occupied[table[p]]

(* What a reader may find between any two transactions, whichever calls fail, die or
   overtake each other: a cluster is of a feasible world and has all its systems and no
   others, nothing dangles, and no world, the cluster's or another's, is there with a
   part of its planets or of its deposits. *)
WholeClusters ==
  /\ cluster = None => systems = NoSystems
  /\ cluster # None =>
       /\ cluster \notin Infeasible
       /\ systems = [h \in Hexes |-> IF h \in Placed[cluster] THEN cluster ELSE None]
  /\ \A p \in Places : /\ planets[p] # None => systems[p[1]] # None
                       /\ deposits[p] # None => planets[p] # None
  /\ OfWholeWorlds(planets) /\ OfWholeWorlds(deposits)

(* Two generations that overtake each other may leave the planets of the one under the
   cluster of the other.  If they used the same seeds, as all do that find a game's seeds,
   that does no harm: each such planet is one the cluster's own world has there, and with
   it are all those of its system (GenerateContents). *)
SystemsOwnTheirPlanets ==
  \A p \in Places :
    planets[p] # None /\ planets[p][1] = cluster[1] =>
      \A o \in OrbitNumbers :
        planets[<<p[1], o>>] = planets[p] <=> <<p[1], o>> \in Occupied[cluster]

Exactly(c, keys, table) ==
  table = [k \in DOMAIN table |-> IF k \in keys THEN World(c) ELSE None]

Refused(c) ==
  \/ call[c].pc = "cluster" /\ (cluster # None \/ Conflicts(Placed[World(c)], systems))
  \/ call[c].pc = "selections" /\ selections[call[c].stage] # None
  \/ call[c].pc = "contents"
       /\ (Conflicts(Occupied[World(c)], planets) \/ PlanetsDangle(c))
  \/ call[c].pc = "deposits"
       /\ (Conflicts(Occupied[World(c)], deposits) \/ DepositsDangle(c))

(* "Persistence is idempotent" (generate.go): whatever earlier calls left, dead
   half-way or not, a call nobody disturbs is refused by no key, and when it
   returns the tables hold the world of the stored seeds and its knobs, whole,
   and not a row else. *)
RerunsReplace ==
  \A c \in Calls :
    call[c].alone =>
      /\ ~Refused(c)
      /\ (call[c].pc = "done" =>
            /\ seeds = call[c].seed /\ cluster = World(c)
            /\ Exactly(c, Placed[World(c)], systems)
            /\ Exactly(c, Occupied[World(c)], planets)
            /\ Exactly(c, Occupied[World(c)], deposits)
            /\ selections = [s \in DOMAIN Stages |-> World(c)])

(* Reuse-if-present (ADR-0013): seeds once assigned are replaced only by a call
   that looked for them before and was overtaken by the one that assigned them. *)
SeedsOutliveReruns ==
  [][seeds # None /\ seeds' # seeds =>
       \E c \in Calls : /\ call'[c] # call[c]
                        /\ call[c].early /\ ~call[c].alone]_vars
=============================================================================

----------------------------- MODULE SetupProofs -----------------------------
(* What TLAPS proves of Setup, for any concurrent calls, seeds, knobs and hexes and any
   generator. *)
EXTENDS Setup, TLAPS

Persisting == {"cluster", "selections", "contents", "deposits", "done"}

Seeded == {"generate", "clear"} \cup Persisting

CallRecord ==
  [pc: {"idle", "seeds", "draw", "generate", "clear", "cluster", "selections",
        "contents", "deposits", "done"},
   knobs: Knobs \cup {None}, seed: Seeds \cup {None}, stage: DOMAIN Stages,
   alone: BOOLEAN, early: BOOLEAN]

(* What a call has by the time it is at a given position. *)
Wellformed(q) ==
  /\ q.pc # "idle" => q.knobs \in Knobs
  /\ q.pc \in Seeded => q.seed \in Seeds
  /\ q.pc \in {"idle", "seeds", "draw", "generate", "clear", "cluster"} => q.stage = 1
  /\ q.pc = "idle" => ~q.alone
  /\ q.pc = "draw" => q.early
  /\ q.pc \in {"clear"} \cup Persisting => <<q.seed, q.knobs>> \notin Infeasible

(* A call that found seeds when it began will find them when it looks. *)
Early(q) == q.pc = "seeds" /\ ~q.early => seeds # None

(* What a call may assume of the tables as long as nobody else has written: the seeds
   are those it uses, and each table has what the call has written so far and not a
   row else. *)
SeedsAreMine(c) ==
  /\ call[c].pc = "seeds" /\ call[c].early => seeds = None
  /\ call[c].pc = "draw" => seeds = None
  /\ call[c].pc \in Seeded => seeds = call[c].seed

TablesAreMine(c) ==
  call[c].pc \in Persisting =>
    /\ IF call[c].pc = "cluster" THEN cluster = None /\ systems = NoSystems
       ELSE cluster = World(c) /\ Exactly(c, Placed[World(c)], systems)
    /\ IF call[c].pc \in {"deposits", "done"} THEN Exactly(c, Occupied[World(c)], planets) ELSE planets = NoPlanets
    /\ IF call[c].pc = "done" THEN Exactly(c, Occupied[World(c)], deposits) ELSE deposits = NoPlanets
    /\ selections = [s \in DOMAIN Stages |->
                       IF call[c].pc \in {"contents", "deposits", "done"}
                          \/ (call[c].pc = "selections" /\ s < call[c].stage)
                       THEN World(c) ELSE None]

Undisturbed(c) == call[c].alone => SeedsAreMine(c) /\ TablesAreMine(c)

IInv ==
  /\ TypeOK
  /\ WholeClusters
  /\ \A c \in Calls : Wellformed(call[c]) /\ Early(call[c]) /\ Undisturbed(c)

-----------------------------------------------------------------------------
LEMMA CallTypes == TypeOK => call \in [Calls -> CallRecord]
  BY DEF TypeOK, CallRecord

LEMMA StagesAre == DOMAIN Stages = 1 .. 3 /\ Len(Stages) = 3
  BY DEF Stages

LEMMA IdleShape == Idle \in CallRecord /\ Wellformed(Idle) /\ Early(Idle) /\ ~Idle.alone
  BY StagesAre DEF Idle, CallRecord, Wellformed, Early, Seeded, Persisting

(* An unfinished call of the type, moved on. *)
LEMMA Moved ==
  ASSUME NEW q \in CallRecord,
         NEW pc \in {"draw", "generate", "clear", "cluster", "selections", "contents",
                     "deposits", "done"}
  PROVE  LET p == [q EXCEPT !.pc = pc] IN
         /\ p \in CallRecord /\ p.pc = pc
         /\ p.knobs = q.knobs /\ p.seed = q.seed /\ p.stage = q.stage
         /\ p.alone = q.alone /\ p.early = q.early
  BY DEF CallRecord

LEMMA MovedWithSeed ==
  ASSUME NEW q \in CallRecord, NEW s \in Seeds
  PROVE  LET p == [q EXCEPT !.pc = "generate", !.seed = s] IN
         /\ p \in CallRecord /\ p.pc = "generate"
         /\ p.knobs = q.knobs /\ p.seed = s /\ p.stage = q.stage
         /\ p.alone = q.alone /\ p.early = q.early
  BY DEF CallRecord

Started(k, e) == [Idle EXCEPT !.pc = "seeds", !.knobs = k, !.alone = TRUE, !.early = e]

LEMMA StartedShape ==
  ASSUME NEW k \in Knobs, NEW e \in BOOLEAN
  PROVE  LET q == Started(k, e) IN
         /\ q \in CallRecord /\ q.pc = "seeds" /\ q.knobs = k /\ q.stage = 1
         /\ q.early = e
  <1> DEFINE q1 == [Idle EXCEPT !.pc = "seeds", !.knobs = k]
  <1>1. q1 \in CallRecord /\ q1.pc = "seeds" /\ q1.knobs = k /\ q1.stage = 1
    <2>1. Idle \in CallRecord /\ Idle.stage = 1
      BY IdleShape DEF Idle
    <2> QED BY <2>1 DEF CallRecord
  <1> DEFINE q2 == [q1 EXCEPT !.alone = TRUE, !.early = e]
  <1> HIDE DEF q1
  <1>2. /\ q2 \in CallRecord /\ q2.pc = "seeds" /\ q2.knobs = k /\ q2.stage = 1
        /\ q2.early = e
    BY <1>1 DEF CallRecord
  <1> QED BY <1>2 DEF q1, Started

LEMMA InitInv == Init => IInv
  <1> SUFFICES ASSUME Init PROVE IInv
    OBVIOUS
  <1>1. TypeOK
    BY IdleShape DEF Init, TypeOK, NoSystems, NoPlanets, CallRecord
  <1>2. WholeClusters
    BY DEF Init, WholeClusters, OfWholeWorlds, NoPlanets
  <1>3. \A c \in Calls : Wellformed(call[c]) /\ Early(call[c]) /\ Undisturbed(c)
    BY IdleShape DEF Init, Undisturbed
  <1> QED BY <1>1, <1>2, <1>3 DEF IInv

-----------------------------------------------------------------------------
(* A step that writes no table: the other calls see nothing of it. *)
LEMMA QuietInv ==
  ASSUME IInv, NEW c \in Calls, NEW q \in CallRecord, Goto(c, q),
         UNCHANGED <<seeds, tables>>, Wellformed(q), Early(q), Undisturbed(c)'
  PROVE  IInv'
  <1>1. call \in [Calls -> CallRecord] /\ call' = [call EXCEPT ![c] = q]
    BY CallTypes DEF IInv, Goto
  <1>2. call' \in [Calls -> CallRecord] /\ call'[c] = q
        /\ \A d \in Calls : d # c => call'[d] = call[d]
    BY <1>1
  <1>3. TypeOK'
    BY <1>2 DEF IInv, TypeOK, tables, CallRecord
  <1>4. WholeClusters'
    BY DEF IInv, WholeClusters, tables
  <1>5. ASSUME NEW d \in Calls
        PROVE  Wellformed(call[d])' /\ Early(call[d])' /\ Undisturbed(d)'
    <2>1. CASE d = c
      BY <1>2, <2>1 DEF Wellformed, Early
    <2>2. CASE d # c
      <3>1. call'[d] = call[d] /\ Wellformed(call[d]) /\ Early(call[d]) /\ Undisturbed(d)
        BY <1>2, <2>2 DEF IInv
      <3>2. Wellformed(call[d])' /\ Early(call[d])'
        BY <3>1 DEF Wellformed, Early
      <3>3. Undisturbed(d)'
        BY <3>1
        DEF Undisturbed, SeedsAreMine, TablesAreMine, World, Exactly, tables
      <3> QED BY <3>2, <3>3
    <2> QED BY <2>1, <2>2
  <1> QED BY <1>3, <1>4, <1>5 DEF IInv

(* A transaction: the other calls are alone no more. *)
LEMMA WroteInv ==
  ASSUME IInv, NEW c \in Calls, NEW q \in CallRecord, Wrote(c, q),
         seeds' \in Seeds \/ seeds' = seeds,
         cluster' \in Worlds \cup {None},
         systems' \in [Hexes -> Worlds \cup {None}],
         planets' \in [Places -> Worlds \cup {None}],
         deposits' \in [Places -> Worlds \cup {None}],
         selections' \in [DOMAIN Stages -> Worlds \cup {None}],
         WholeClusters', Wellformed(q), q.pc # "seeds", Undisturbed(c)'
  PROVE  IInv'
  <1>1. call \in [Calls -> CallRecord]
    BY CallTypes DEF IInv
  <1>2. call' = [d \in Calls |-> IF d = c THEN q ELSE [call[d] EXCEPT !.alone = FALSE]]
    BY DEF Wrote
  <1>3. call'[c] = q
    BY <1>2
  <1>4. ASSUME NEW d \in Calls, d # c
        PROVE  /\ call'[d] \in CallRecord /\ ~call'[d].alone
               /\ call'[d].pc = call[d].pc /\ call'[d].knobs = call[d].knobs
               /\ call'[d].seed = call[d].seed /\ call'[d].stage = call[d].stage
               /\ call'[d].early = call[d].early
    <2>1. call'[d] = [call[d] EXCEPT !.alone = FALSE]
      BY <1>2, <1>4
    <2>2. call[d] \in CallRecord
      BY <1>1
    <2> QED BY <2>1, <2>2 DEF CallRecord
  <1>5. call' \in [Calls -> CallRecord]
    BY <1>2, <1>3, <1>4
  <1>6. TypeOK'
    BY <1>5 DEF IInv, TypeOK, CallRecord
  <1>7. ASSUME NEW d \in Calls
        PROVE  Wellformed(call[d])' /\ Early(call[d])' /\ Undisturbed(d)'
    <2>1. CASE d = c
      BY <1>3, <2>1 DEF Wellformed, Early
    <2>2. CASE d # c
      <3>1. Wellformed(call[d]) /\ Early(call[d])
        BY DEF IInv
      <3>2. Wellformed(call[d])'
        BY <1>4, <2>2, <3>1 DEF Wellformed
      <3>3. Early(call[d])'
        BY <1>4, <2>2, <3>1, Generator DEF Early
      <3>4. Undisturbed(d)'
        BY <1>4, <2>2 DEF Undisturbed
      <3> QED BY <3>2, <3>3, <3>4
    <2> QED BY <2>1, <2>2
  <1> QED BY <1>6, <1>7 DEF IInv

-----------------------------------------------------------------------------
(* The steps that write no table. *)
LEMMA StartInv ==
  ASSUME IInv, NEW c \in Calls, NEW k \in Knobs, Start(c, k)
  PROVE  IInv'
  <1> DEFINE first == (seeds = None)
  <1> DEFINE q == Started(k, first)
  <1>1. first \in BOOLEAN /\ (first <=> seeds = None)
    OBVIOUS
  <1>2. Goto(c, q) /\ UNCHANGED <<seeds, tables>>
    BY DEF Start, Started
  <1> HIDE DEF first
  <1>4. /\ q \in CallRecord /\ q.pc = "seeds" /\ q.knobs = k /\ q.stage = 1
        /\ q.early = first
    <2>1. first \in BOOLEAN
      BY <1>1
    <2> QED BY <2>1, StartedShape
  <1>5. call'[c] = q
    BY <1>2, CallTypes DEF Goto, IInv
  <1> HIDE DEF q
  <1>6. Wellformed(q)
    BY <1>4 DEF Wellformed, Seeded, Persisting
  <1>7. Early(q)
    BY <1>1, <1>4, Zenon DEF Early
  <1>8. SeedsAreMine(c)'
    <2>1. seeds' = seeds /\ call'[c].pc = "seeds"
      BY <1>2, <1>4, <1>5
    <2>2. call'[c].early => seeds = None
      BY <1>1, <1>4, <1>5, Zenon
    <2> QED BY <2>1, <2>2 DEF SeedsAreMine, Seeded, Persisting
  <1>9. Undisturbed(c)'
    BY <1>4, <1>5, <1>8 DEF Undisturbed, TablesAreMine, Persisting
  <1> QED BY <1>2, <1>4, <1>6, <1>7, <1>9, QuietInv

LEMMA EndInv ==
  ASSUME IInv, NEW c \in Calls, Goto(c, Idle), UNCHANGED <<seeds, tables>>
  PROVE  IInv'
  <1>1. call'[c] = Idle
    BY CallTypes DEF Goto, IInv
  <1>2. Undisturbed(c)'
    BY <1>1, IdleShape DEF Undisturbed
  <1> QED BY <1>2, IdleShape, QuietInv

LEMMA ReadSeedsInv ==
  ASSUME IInv, NEW c \in Calls, ReadSeeds(c)
  PROVE  IInv'
  <1> DEFINE q == call[c]
  <1>1. /\ q \in CallRecord /\ q.pc = "seeds" /\ UNCHANGED <<seeds, tables>>
        /\ Wellformed(q) /\ Early(q) /\ Undisturbed(c) /\ seeds \in Seeds \cup {None}
    BY CallTypes DEF IInv, TypeOK, ReadSeeds
  <1>2. CASE seeds # None
    <2> DEFINE p == [q EXCEPT !.pc = "generate", !.seed = seeds]
    <2>0. q \in CallRecord /\ seeds \in Seeds
      BY <1>1, <1>2
    <2>1. /\ p \in CallRecord /\ p.pc = "generate" /\ p.knobs = q.knobs /\ p.seed = seeds
          /\ p.stage = q.stage /\ p.alone = q.alone /\ p.early = q.early
      <3> HIDE DEF q
      <3> QED BY <2>0, MovedWithSeed
    <2>2. Goto(c, p) /\ call'[c] = p
      BY <1>2, CallTypes DEF ReadSeeds, Goto, IInv
    <2> HIDE DEF p
    <2>3. Wellformed(p) /\ Early(p)
      BY <1>1, <1>2, <2>1 DEF Wellformed, Early, Seeded, Persisting
    <2>4. Undisturbed(c)'
      BY <1>1, <2>1, <2>2
      DEF Undisturbed, SeedsAreMine, TablesAreMine, Persisting
    <2> QED BY <1>1, <2>1, <2>2, <2>3, <2>4, QuietInv
  <1>3. CASE seeds = None
    <2> DEFINE p == [q EXCEPT !.pc = "draw"]
    <2>1. /\ p \in CallRecord /\ p.pc = "draw" /\ p.knobs = q.knobs
          /\ p.stage = q.stage /\ p.alone = q.alone /\ p.early = q.early
      BY <1>1, Moved
    <2>2. Goto(c, p) /\ call'[c] = p
      BY <1>3, CallTypes DEF ReadSeeds, Goto, IInv
    <2> HIDE DEF p
    <2>3. Wellformed(p) /\ Early(p)
      BY <1>1, <1>3, <2>1 DEF Wellformed, Early, Seeded, Persisting
    <2>4. Undisturbed(c)'
      BY <1>1, <1>3, <2>1, <2>2
      DEF Undisturbed, SeedsAreMine, TablesAreMine, Seeded, Persisting
    <2> QED BY <1>1, <2>1, <2>2, <2>3, <2>4, QuietInv
  <1> QED BY <1>2, <1>3

LEMMA GenerateInv ==
  ASSUME IInv, NEW c \in Calls, Generate(c)
  PROVE  IInv'
  <1> DEFINE q == call[c]
  <1>1. /\ q \in CallRecord /\ q.pc = "generate" /\ UNCHANGED <<seeds, tables>>
        /\ Wellformed(q) /\ Undisturbed(c)
    BY CallTypes DEF IInv, Generate
  <1>2. CASE World(c) \in Infeasible
    BY <1>1, <1>2, EndInv DEF Generate
  <1>3. CASE World(c) \notin Infeasible
    <2> DEFINE p == [q EXCEPT !.pc = "clear"]
    <2>1. /\ p \in CallRecord /\ p.pc = "clear" /\ p.knobs = q.knobs /\ p.seed = q.seed
          /\ p.stage = q.stage /\ p.alone = q.alone
      BY <1>1, Moved
    <2>2. Goto(c, p) /\ call'[c] = p
      BY <1>3, CallTypes DEF Generate, Goto, IInv
    <2> HIDE DEF p
    <2>3. Wellformed(p) /\ Early(p)
      BY <1>1, <1>3, <2>1 DEF Wellformed, Early, World, Seeded, Persisting
    <2>4. Undisturbed(c)'
      BY <1>1, <2>1, <2>2
      DEF Undisturbed, SeedsAreMine, TablesAreMine, Seeded, Persisting
    <2> QED BY <1>1, <2>1, <2>2, <2>3, <2>4, QuietInv
  <1> QED BY <1>2, <1>3

-----------------------------------------------------------------------------
(* The transactions. *)
LEMMA DrawSeedsInv ==
  ASSUME IInv, NEW c \in Calls, NEW s \in Seeds, DrawSeeds(c, s)
  PROVE  IInv'
  <1> DEFINE q == call[c]
  <1> DEFINE p == [q EXCEPT !.pc = "generate", !.seed = s]
  <1>1. q \in CallRecord /\ q.pc = "draw" /\ Wellformed(q)
    BY CallTypes DEF IInv, DrawSeeds
  <1>2. /\ p \in CallRecord /\ p.pc = "generate" /\ p.knobs = q.knobs /\ p.seed = s
        /\ p.stage = q.stage
    BY <1>1, MovedWithSeed
  <1>3. Wrote(c, p) /\ call'[c] = p /\ seeds' = s /\ UNCHANGED tables
    BY DEF DrawSeeds, Wrote
  <1> HIDE DEF p
  <1>4. Wellformed(p)
    BY <1>1, <1>2 DEF Wellformed, Seeded, Persisting
  <1>5. Undisturbed(c)'
    BY <1>2, <1>3 DEF Undisturbed, SeedsAreMine, TablesAreMine, Persisting
  <1>6. WholeClusters'
    BY <1>3 DEF IInv, WholeClusters, tables
  <1> QED BY <1>2, <1>3, <1>4, <1>5, <1>6, WroteInv DEF IInv, TypeOK, tables

LEMMA ClearInv ==
  ASSUME IInv, NEW c \in Calls, Clear(c)
  PROVE  IInv'
  <1> DEFINE q == call[c]
  <1> DEFINE p == [q EXCEPT !.pc = "cluster"]
  <1>1. q \in CallRecord /\ q.pc = "clear" /\ Wellformed(q) /\ Undisturbed(c)
    BY CallTypes DEF IInv, Clear
  <1>2. /\ p \in CallRecord /\ p.pc = "cluster" /\ p.knobs = q.knobs /\ p.seed = q.seed
        /\ p.stage = q.stage /\ p.alone = q.alone
    BY <1>1, Moved
  <1>3. /\ Wrote(c, p) /\ call'[c] = p /\ seeds' = seeds
        /\ cluster' = None /\ systems' = NoSystems /\ planets' = NoPlanets /\ deposits' = NoPlanets
        /\ selections' = [s \in DOMAIN Stages |-> None]
    BY DEF Clear, Wrote
  <1> HIDE DEF p
  <1>4. Wellformed(p)
    BY <1>1, <1>2 DEF Wellformed, Seeded, Persisting
  <1>5. Undisturbed(c)'
    BY <1>1, <1>2, <1>3
    DEF Undisturbed, SeedsAreMine, TablesAreMine, Seeded, Persisting
  <1>6. WholeClusters'
    BY <1>3 DEF WholeClusters, OfWholeWorlds, NoPlanets
  <1>7. /\ NoSystems \in [Hexes -> Worlds \cup {None}]
        /\ NoPlanets \in [Places -> Worlds \cup {None}]
        /\ [s \in DOMAIN Stages |-> None] \in [DOMAIN Stages -> Worlds \cup {None}]
    BY DEF NoSystems, NoPlanets
  <1> QED BY <1>2, <1>3, <1>4, <1>5, <1>6, <1>7, WroteInv

(* The world of a call that writes. *)
LEMMA WorldIs ==
  ASSUME IInv, NEW c \in Calls, call[c].pc \in Seeded
  PROVE  /\ World(c) \in Worlds /\ World(c) # None
         /\ Placed[World(c)] \subseteq Hexes /\ Occupied[World(c)] \subseteq Places
         /\ call[c].pc \in Persisting => World(c) \notin Infeasible
  <1>1. World(c) \in Worlds
    BY DEF IInv, Wellformed, World, Worlds, Seeded, Persisting
  <1>2. call[c].pc \in Persisting => World(c) \notin Infeasible
    BY DEF IInv, Wellformed, World
  <1> QED BY <1>1, <1>2, Generator

(* The rows of a call's world, written beside those of a table that has none of its
   keys. *)
LEMMA FilledIs ==
  ASSUME IInv, NEW c \in Calls, call[c].pc \in Seeded,
         NEW D, NEW keys \in SUBSET D, NEW table \in [D -> Worlds \cup {None}]
  PROVE  /\ Filled(c, keys, table) \in [D -> Worlds \cup {None}]
         /\ \A k \in D :
              Filled(c, keys, table)[k] = IF k \in keys THEN World(c) ELSE table[k]
         /\ table = [k \in D |-> None] =>
              Exactly(c, keys, Filled(c, keys, table)) /\ ~Conflicts(keys, table)
  BY WorldIs DEF Filled, Exactly, Conflicts

(* They are all there, and those that were there before are untouched. *)
LEMMA FilledWhole ==
  ASSUME IInv, NEW c \in Calls, call[c].pc \in Persisting,
         NEW table \in [Places -> Worlds \cup {None}], OfWholeWorlds(table),
         ~Conflicts(Occupied[World(c)], table)
  PROVE  OfWholeWorlds(Filled(c, Occupied[World(c)], table))
  <1> DEFINE w == World(c)
  <1> DEFINE new == Filled(c, Occupied[w], table)
  <1>1. /\ w # None /\ w \notin Infeasible
        /\ \A k \in Places : new[k] = IF k \in Occupied[w] THEN w ELSE table[k]
    BY WorldIs, FilledIs DEF Seeded
  <1>2. \A k \in Occupied[w] : table[k] = None
    BY DEF Conflicts
  <1> HIDE DEF new, w
  <1>3. ASSUME NEW p \in Places, new[p] # None
        PROVE  /\ new[p] \notin Infeasible
               /\ \A k \in Places : new[k] = new[p] <=> k \in Occupied[new[p]]
    <2>1. \A k \in Places : table[k] = w => k \in Occupied[w]
      BY <1>1 DEF OfWholeWorlds
    <2>2. CASE p \in Occupied[w]
      BY <1>1, <2>1, <2>2
    <2>3. CASE p \notin Occupied[w]
      <3>1. /\ new[p] = table[p] /\ table[p] # w /\ table[p] \notin Infeasible
            /\ \A k \in Places : table[k] = table[p] <=> k \in Occupied[table[p]]
        BY <1>1, <1>3, <2>1, <2>3 DEF OfWholeWorlds
      <3> QED BY <1>1, <1>2, <1>3, <3>1
    <2> QED BY <2>2, <2>3
  <1> QED BY <1>3 DEF OfWholeWorlds, new, w

LEMMA SaveClusterInv ==
  ASSUME IInv, NEW c \in Calls, SaveCluster(c)
  PROVE  IInv'
  <1> DEFINE q == call[c]
  <1> DEFINE p == [q EXCEPT !.pc = "selections"]
  <1> DEFINE w == World(c)
  <1>1. /\ q \in CallRecord /\ q.pc = "cluster" /\ Wellformed(q) /\ Undisturbed(c)
        /\ cluster = None /\ systems = NoSystems /\ systems \in [Hexes -> Worlds \cup {None}]
    BY CallTypes DEF IInv, SaveCluster, WholeClusters, TypeOK
  <1>2. /\ p \in CallRecord /\ p.pc = "selections" /\ p.knobs = q.knobs /\ p.seed = q.seed
        /\ p.stage = q.stage /\ p.alone = q.alone
    BY <1>1, Moved
  <1>3. /\ Wrote(c, p) /\ call'[c] = p
        /\ cluster' = w /\ systems' = Filled(c, Placed[w], systems)
        /\ UNCHANGED <<seeds, planets, deposits, selections>>
    BY DEF SaveCluster, Wrote
  <1> HIDE DEF p
  <1>4. Wellformed(p)
    BY <1>1, <1>2 DEF Wellformed, Seeded, Persisting
  <1>5. w \in Worlds /\ w # None
    BY <1>1, WorldIs DEF Seeded, Persisting
  <1>6. /\ systems' \in [Hexes -> Worlds \cup {None}]
        /\ systems' = [h \in Hexes |-> IF h \in Placed[w] THEN w ELSE None]
    <2>1. Placed[w] \in SUBSET Hexes
      BY <1>1, WorldIs DEF Seeded, Persisting
    <2>2. /\ systems' \in [Hexes -> Worlds \cup {None}]
          /\ \A h \in Hexes : systems'[h] = IF h \in Placed[w] THEN w ELSE systems[h]
      BY <1>1, <1>3, <2>1, FilledIs DEF Seeded, Persisting
    <2> QED BY <1>1, <2>2 DEF NoSystems
  <1>7. World(c)' = w
    BY <1>2, <1>3 DEF World
  <1>8. Undisturbed(c)'
    <2> SUFFICES ASSUME q.alone PROVE SeedsAreMine(c)' /\ TablesAreMine(c)'
      BY <1>2, <1>3 DEF Undisturbed
    <2>1. /\ seeds = q.seed /\ planets = NoPlanets /\ deposits = NoPlanets
          /\ selections = [s \in DOMAIN Stages |-> None]
      BY <1>1 DEF Undisturbed, SeedsAreMine, TablesAreMine, Seeded, Persisting
    <2>2. selections' = [s \in DOMAIN Stages |->
                           IF p.pc \in {"contents", "deposits", "done"}
                              \/ (p.pc = "selections" /\ s < p.stage)
                           THEN w ELSE None]
      BY <1>1, <1>2, <1>3, <2>1, StagesAre DEF Wellformed
    <2> QED BY <1>2, <1>3, <1>6, <1>7, <2>1, <2>2
        DEF SeedsAreMine, TablesAreMine, Exactly, Seeded, Persisting
  <1>9. WholeClusters'
    <2>1. w \notin Infeasible /\ planets = planets' /\ deposits = deposits'
      BY <1>1, <1>3, WorldIs DEF Seeded, Persisting
    <2>2. \A p1 \in Places : planets[p1] = None /\ deposits[p1] = None
      BY <1>1 DEF IInv, WholeClusters, NoSystems, Places
    <2> QED BY <1>3, <1>5, <1>6, <2>1, <2>2 DEF IInv, WholeClusters, OfWholeWorlds
  <1> QED BY <1>2, <1>3, <1>4, <1>5, <1>6, <1>8, <1>9, WroteInv DEF IInv, TypeOK

LEMMA SaveGeneratorInv ==
  ASSUME IInv, NEW c \in Calls, SaveGenerator(c)
  PROVE  IInv'
  <1> DEFINE q == call[c]
  <1> DEFINE s == q.stage
  <1> DEFINE p == IF s < Len(Stages) THEN [q EXCEPT !.stage = s + 1]
                  ELSE [q EXCEPT !.pc = "contents"]
  <1> DEFINE w == World(c)
  <1>1. /\ q \in CallRecord /\ q.pc = "selections" /\ Wellformed(q) /\ Undisturbed(c)
        /\ selections \in [DOMAIN Stages -> Worlds \cup {None}] /\ s \in 1 .. 3
    BY CallTypes, StagesAre DEF IInv, SaveGenerator, TypeOK, CallRecord
  <1>2. /\ p \in CallRecord /\ p.knobs = q.knobs /\ p.seed = q.seed /\ p.alone = q.alone
        /\ \/ s < 3 /\ p.pc = "selections" /\ p.stage = s + 1
           \/ s = 3 /\ p.pc = "contents"
    <2>1. CASE s < 3
      <3>1. p = [q EXCEPT !.stage = s + 1] /\ s + 1 \in DOMAIN Stages
        BY <1>1, <2>1, StagesAre
      <3> QED BY <1>1, <2>1, <3>1 DEF CallRecord
    <2>2. CASE s = 3
      <3>1. p = [q EXCEPT !.pc = "contents"]
        BY <2>2, StagesAre
      <3> DEFINE p1 == [q EXCEPT !.pc = "contents"]
      <3>2. /\ p1 \in CallRecord /\ p1.pc = "contents" /\ p1.knobs = q.knobs
            /\ p1.seed = q.seed /\ p1.alone = q.alone
        BY <1>1, Moved
      <3> HIDE DEF p, p1
      <3>3. p = p1
        BY <3>1 DEF p1
      <3> QED BY <2>2, <3>2, <3>3
    <2> QED BY <1>1, <2>1, <2>2
  <1>3. /\ Wrote(c, p) /\ call'[c] = p
        /\ selections' = [selections EXCEPT ![s] = w]
        /\ UNCHANGED <<seeds, cluster, systems, planets, deposits>>
    BY DEF SaveGenerator, Wrote
  <1> HIDE DEF p
  <1>4. Wellformed(p) /\ p.pc # "seeds"
    BY <1>1, <1>2 DEF Wellformed, Seeded, Persisting
  <1>5. w \in Worlds
    BY <1>1, WorldIs DEF Seeded, Persisting
  <1>6. selections' \in [DOMAIN Stages -> Worlds \cup {None}]
    BY <1>1, <1>3, <1>5
  <1>7. World(c)' = w
    BY <1>2, <1>3 DEF World
  <1>8. Undisturbed(c)'
    <2> SUFFICES ASSUME q.alone PROVE SeedsAreMine(c)' /\ TablesAreMine(c)'
      BY <1>2, <1>3 DEF Undisturbed
    <2>1. /\ seeds = q.seed /\ cluster = w /\ Exactly(c, Placed[World(c)], systems)
          /\ planets = NoPlanets /\ deposits = NoPlanets
          /\ selections = [i \in DOMAIN Stages |-> IF i < s THEN w ELSE None]
      BY <1>1 DEF Undisturbed, SeedsAreMine, TablesAreMine, Seeded, Persisting
    <2>2. selections' = [i \in DOMAIN Stages |-> IF i < s + 1 THEN w ELSE None]
      <3>1. \A i \in 1 .. 3 : selections'[i] = IF i < s + 1 THEN w ELSE None
        <4> SUFFICES ASSUME NEW i \in 1 .. 3
                     PROVE  selections'[i] = IF i < s + 1 THEN w ELSE None
          OBVIOUS
        <4>1. selections'[i] = IF i = s THEN w ELSE selections[i]
          BY <1>1, <1>3, StagesAre
        <4>2. selections[i] = IF i < s THEN w ELSE None
          BY <2>1, StagesAre
        <4> HIDE DEF w, q
        <4> QED BY <1>1, <4>1, <4>2
      <3> QED BY <1>6, <3>1, StagesAre
    <2>3. selections' = [i \in DOMAIN Stages |->
                           IF p.pc \in {"contents", "deposits", "done"}
                              \/ (p.pc = "selections" /\ i < p.stage)
                           THEN w ELSE None]
      BY <1>2, <2>2, StagesAre
    <2> HIDE DEF w, q, s
    <2>4. Exactly(c, Placed[World(c)], systems)'
      BY <1>3, <1>7, <2>1 DEF Exactly, w
    <2>5. SeedsAreMine(c)'
      BY <1>2, <1>3, <2>1 DEF SeedsAreMine
    <2>6. cluster' = w /\ planets' = NoPlanets /\ deposits' = NoPlanets
      BY <1>3, <2>1
    <2> QED BY <1>2, <1>3, <1>7, <2>3, <2>4, <2>5, <2>6 DEF TablesAreMine
  <1>9. WholeClusters'
    BY <1>3 DEF IInv, WholeClusters
  <1> QED BY <1>2, <1>3, <1>4, <1>6, <1>8, <1>9, WroteInv DEF IInv, TypeOK

LEMMA SaveSystemContentsInv ==
  ASSUME IInv, NEW c \in Calls, SaveSystemContents(c)
  PROVE  IInv'
  <1> DEFINE q == call[c]
  <1> DEFINE p == [q EXCEPT !.pc = "deposits"]
  <1> DEFINE w == World(c)
  <1>1. /\ q \in CallRecord /\ q.pc = "contents" /\ Wellformed(q) /\ Undisturbed(c)
        /\ planets \in [Places -> Worlds \cup {None}] /\ WholeClusters
        /\ Occupied[w] \subseteq Places
    BY CallTypes, WorldIs DEF IInv, SaveSystemContents, TypeOK, Seeded, Persisting
  <1>2. /\ p \in CallRecord /\ p.pc = "deposits" /\ p.knobs = q.knobs /\ p.seed = q.seed
        /\ p.stage = q.stage /\ p.alone = q.alone
    BY <1>1, Moved
  <1>3. /\ Wrote(c, p) /\ call'[c] = p
        /\ ~Conflicts(Occupied[w], planets) /\ ~PlanetsDangle(c)
        /\ planets' = Filled(c, Occupied[w], planets)
        /\ UNCHANGED <<seeds, cluster, systems, deposits, selections>>
    BY DEF SaveSystemContents, Wrote
  <1> HIDE DEF p
  <1>4. Wellformed(p)
    BY <1>1, <1>2 DEF Wellformed, Seeded, Persisting
  <1>5. /\ planets' \in [Places -> Worlds \cup {None}]
        /\ \A k \in Places :
             planets'[k] = IF k \in Occupied[w] THEN w ELSE planets[k]
        /\ planets = NoPlanets => Exactly(c, Occupied[w], planets')
    <2>1. /\ planets' \in [Places -> Worlds \cup {None}]
          /\ \A k \in Places :
               planets'[k] = IF k \in Occupied[w] THEN w ELSE planets[k]
      <3>1. Occupied[w] \in SUBSET Places
        BY <1>1
      <3> QED BY <1>1, <1>3, <3>1, FilledIs DEF Seeded, Persisting
    <2> QED BY <2>1 DEF Exactly, NoPlanets
  <1>6. World(c)' = w
    BY <1>2, <1>3 DEF World
  <1>7. Undisturbed(c)'
    <2> SUFFICES ASSUME q.alone PROVE SeedsAreMine(c)' /\ TablesAreMine(c)'
      BY <1>2, <1>3 DEF Undisturbed
    <2>1. /\ seeds = q.seed /\ cluster = w /\ Exactly(c, Placed[World(c)], systems)
          /\ planets = NoPlanets /\ deposits = NoPlanets
          /\ selections = [i \in DOMAIN Stages |-> w]
      BY <1>1 DEF Undisturbed, SeedsAreMine, TablesAreMine, Seeded, Persisting
    <2>2. Exactly(c, Placed[World(c)], systems)' /\ Exactly(c, Occupied[World(c)], planets)'
      BY <1>3, <1>5, <1>6, <2>1 DEF Exactly
    <2> QED BY <1>2, <1>3, <1>6, <2>1, <2>2 DEF SeedsAreMine, TablesAreMine
  <1>8. WholeClusters'
    <2>1. ASSUME NEW k \in Places
          PROVE  /\ planets'[k] # None => systems'[k[1]] # None
                 /\ deposits'[k] # None => planets'[k] # None
      <3>1. CASE k \in Occupied[w]
        <4>1. w # None
          BY <1>1, WorldIs DEF Seeded, Persisting
        <4> QED BY <1>3, <1>5, <3>1, <4>1 DEF PlanetsDangle
      <3>2. CASE k \notin Occupied[w]
        BY <1>1, <1>3, <1>5, <3>2 DEF WholeClusters
      <3> QED BY <3>1, <3>2
    <2>2. OfWholeWorlds(planets')
      BY <1>1, <1>3, FilledWhole DEF WholeClusters, Persisting
    <2> QED BY <1>1, <1>3, <2>1, <2>2 DEF WholeClusters, OfWholeWorlds
  <1> QED BY <1>2, <1>3, <1>4, <1>5, <1>7, <1>8, WroteInv DEF IInv, TypeOK

LEMMA SaveDepositsInv ==
  ASSUME IInv, NEW c \in Calls, SaveDeposits(c)
  PROVE  IInv'
  <1> DEFINE q == call[c]
  <1> DEFINE p == [q EXCEPT !.pc = "done"]
  <1> DEFINE w == World(c)
  <1>1. /\ q \in CallRecord /\ q.pc = "deposits" /\ Wellformed(q) /\ Undisturbed(c)
        /\ deposits \in [Places -> Worlds \cup {None}] /\ WholeClusters
        /\ Occupied[w] \subseteq Places
    BY CallTypes, WorldIs DEF IInv, SaveDeposits, TypeOK, Seeded, Persisting
  <1>2. /\ p \in CallRecord /\ p.pc = "done" /\ p.knobs = q.knobs /\ p.seed = q.seed
        /\ p.stage = q.stage /\ p.alone = q.alone
    BY <1>1, Moved
  <1>3. /\ Wrote(c, p) /\ call'[c] = p
        /\ ~Conflicts(Occupied[w], deposits) /\ ~DepositsDangle(c)
        /\ deposits' = Filled(c, Occupied[w], deposits)
        /\ UNCHANGED <<seeds, cluster, systems, planets, selections>>
    BY DEF SaveDeposits, Wrote
  <1> HIDE DEF p
  <1>4. Wellformed(p)
    BY <1>1, <1>2 DEF Wellformed, Seeded, Persisting
  <1>5. /\ deposits' \in [Places -> Worlds \cup {None}]
        /\ \A k \in Places :
             deposits'[k] = IF k \in Occupied[w] THEN w ELSE deposits[k]
        /\ deposits = NoPlanets => Exactly(c, Occupied[w], deposits')
    <2>1. /\ deposits' \in [Places -> Worlds \cup {None}]
          /\ \A k \in Places :
               deposits'[k] = IF k \in Occupied[w] THEN w ELSE deposits[k]
      <3>1. Occupied[w] \in SUBSET Places
        BY <1>1
      <3> QED BY <1>1, <1>3, <3>1, FilledIs DEF Seeded, Persisting
    <2> QED BY <2>1 DEF Exactly, NoPlanets
  <1>6. World(c)' = w
    BY <1>2, <1>3 DEF World
  <1>7. Undisturbed(c)'
    <2> SUFFICES ASSUME q.alone PROVE SeedsAreMine(c)' /\ TablesAreMine(c)'
      BY <1>2, <1>3 DEF Undisturbed
    <2>1. /\ seeds = q.seed /\ cluster = w /\ Exactly(c, Placed[World(c)], systems)
          /\ Exactly(c, Occupied[World(c)], planets) /\ deposits = NoPlanets
          /\ selections = [i \in DOMAIN Stages |-> w]
      BY <1>1 DEF Undisturbed, SeedsAreMine, TablesAreMine, Seeded, Persisting
    <2>2. Exactly(c, Placed[World(c)], systems)' /\ Exactly(c, Occupied[World(c)], planets)' /\ Exactly(c, Occupied[World(c)], deposits)'
      BY <1>3, <1>5, <1>6, <2>1 DEF Exactly
    <2> QED BY <1>2, <1>3, <1>6, <2>1, <2>2 DEF SeedsAreMine, TablesAreMine
  <1>8. WholeClusters'
    <2>1. ASSUME NEW k \in Places
          PROVE  /\ planets'[k] # None => systems'[k[1]] # None
                 /\ deposits'[k] # None => planets'[k] # None
      BY <1>1, <1>3, <1>5 DEF WholeClusters, DepositsDangle
    <2>2. OfWholeWorlds(deposits')
      BY <1>1, <1>3, FilledWhole DEF WholeClusters, Persisting
    <2> QED BY <1>1, <1>3, <2>1, <2>2 DEF WholeClusters, OfWholeWorlds
  <1> QED BY <1>2, <1>3, <1>4, <1>5, <1>7, <1>8, WroteInv DEF IInv, TypeOK

LEMMA StepInv ==
  ASSUME IInv, NEW c \in Calls, Step(c)
  PROVE  IInv'
  <1>1. CASE Fail(c) \/ Return(c)
    BY <1>1, EndInv DEF Fail, Return
  <1> QED BY <1>1, StartInv, ReadSeedsInv, DrawSeedsInv, GenerateInv, ClearInv,
             SaveClusterInv, SaveGeneratorInv, SaveSystemContentsInv, SaveDepositsInv
          DEF Step

LEMMA Inductive == IInv /\ [Next]_vars => IInv'
  <1> SUFFICES ASSUME IInv, [Next]_vars PROVE IInv'
    OBVIOUS
  <1>1. CASE UNCHANGED vars
    <2>1. TypeOK' /\ WholeClusters'
      BY <1>1 DEF vars, tables, IInv, TypeOK, WholeClusters
    <2>2. ASSUME NEW c \in Calls
          PROVE  Wellformed(call[c])' /\ Early(call[c])' /\ Undisturbed(c)'
      BY <1>1
      DEF vars, tables, IInv, Wellformed, Early, Undisturbed, SeedsAreMine, TablesAreMine,
          World, Exactly
    <2> QED BY <2>1, <2>2 DEF IInv
  <1> QED BY <1>1, StepInv DEF Next

LEMMA Invariant == Spec => []IInv
  BY InitInv, Inductive, PTL DEF Spec

-----------------------------------------------------------------------------
(* Rows and calls keep their shape. *)
THEOREM TypeCorrect == Spec => []TypeOK
  <1>1. IInv => TypeOK
    BY DEF IInv
  <1> QED BY <1>1, Invariant, PTL

(* Whatever calls were cut short or ran together, a cluster has all its systems and no
   others, and no row is without its parent. *)
THEOREM ClustersAreWhole == Spec => []WholeClusters
  <1>1. IInv => WholeClusters
    BY DEF IInv
  <1> QED BY <1>1, Invariant, PTL

(* Calls with the same seeds never give a system planets that are not its own, or a part
   of them, whatever their knobs and however they overtake each other. *)
THEOREM SystemsKeepTheirPlanets == Spec => []SystemsOwnTheirPlanets
  <1>1. ASSUME IInv, NEW p \in Places, planets[p] # None, planets[p][1] = cluster[1],
               NEW o \in OrbitNumbers
        PROVE  planets[<<p[1], o>>] = planets[p] <=> <<p[1], o>> \in Occupied[cluster]
    <2> DEFINE w == planets[p]
               h == p[1]
               k == <<h, o>>
    <2>1. h \in Hexes /\ k \in Places /\ k[1] = h /\ w \in Worlds /\ w # None
      BY <1>1 DEF Places, IInv, TypeOK
    <2>2. systems[h] # None /\ systems \in [Hexes -> Worlds \cup {None}]
            /\ cluster \in Worlds \cup {None} /\ WholeClusters
      BY <1>1 DEF IInv, TypeOK, WholeClusters
    <2>3. cluster \in Worlds /\ h \in Placed[cluster]
      BY <2>1, <2>2 DEF WholeClusters, NoSystems
    <2>4. (planets[k] = w <=> k \in Occupied[w]) /\ p \in Occupied[w]
      BY <1>1, <2>1, <2>2 DEF WholeClusters, OfWholeWorlds
    <2>5. h \in Placed[w]
      BY <2>1, <2>4, Generator
    <2>6. k \in Occupied[w] <=> k \in Occupied[cluster]
      BY <1>1, <2>1, <2>3, <2>5, Generator
    <2> QED BY <2>4, <2>6
  <1>2. IInv => SystemsOwnTheirPlanets
    BY <1>1 DEF SystemsOwnTheirPlanets
  <1> QED BY <1>2, Invariant, PTL

(* A call that nobody disturbs is refused by no key and replaces all that was there. *)
THEOREM PersistenceIsIdempotent == Spec => []RerunsReplace
  <1>1. ASSUME IInv, NEW c \in Calls, call[c].alone
        PROVE  /\ ~Refused(c)
               /\ (call[c].pc = "done" =>
                     /\ seeds = call[c].seed /\ cluster = World(c)
                     /\ Exactly(c, Placed[World(c)], systems) /\ Exactly(c, Occupied[World(c)], planets) /\ Exactly(c, Occupied[World(c)], deposits)
                     /\ selections = [s \in DOMAIN Stages |-> World(c)])
    <2> DEFINE q == call[c]
    <2>1. q \in CallRecord /\ SeedsAreMine(c) /\ TablesAreMine(c)
      BY <1>1, CallTypes DEF IInv, Undisturbed
    <2>2. /\ systems \in [Hexes -> Worlds \cup {None}]
          /\ planets \in [Places -> Worlds \cup {None}]
      BY <1>1 DEF IInv, TypeOK
    <2>3. ASSUME q.pc \in Seeded
          PROVE  /\ ~Conflicts(Placed[World(c)], NoSystems)
                 /\ ~Conflicts(Occupied[World(c)], NoPlanets)
                 /\ Exactly(c, Placed[World(c)], systems) => ~PlanetsDangle(c)
                 /\ Exactly(c, Occupied[World(c)], planets) => ~DepositsDangle(c)
      <3> DEFINE w == World(c)
      <3>1. /\ w \in Worlds /\ w # None
            /\ Placed[w] \subseteq Hexes /\ Occupied[w] \subseteq Places
            /\ \A p \in Occupied[w] : p[1] \in Placed[w]
        BY <1>1, <2>3, WorldIs, Generator
      <3> QED BY <2>2, <3>1
          DEF Conflicts, NoSystems, NoPlanets, Exactly, PlanetsDangle, DepositsDangle
    <2>4. CASE q.pc = "cluster"
      BY <2>1, <2>3, <2>4 DEF Refused, TablesAreMine, Seeded, Persisting
    <2>5. CASE q.pc = "selections"
      <3>1. q.stage \in DOMAIN Stages /\ q.stage \in Int
        BY <2>1, StagesAre DEF CallRecord
      <3>2. selections[q.stage] = None
        BY <2>1, <2>5, <3>1 DEF TablesAreMine, Persisting
      <3> QED BY <2>5, <3>2 DEF Refused
    <2>6. CASE q.pc = "contents"
      BY <2>1, <2>3, <2>6 DEF Refused, TablesAreMine, Seeded, Persisting
    <2>7. CASE q.pc = "deposits"
      BY <2>1, <2>3, <2>7 DEF Refused, TablesAreMine, Seeded, Persisting
    <2>8. CASE q.pc = "done"
      BY <2>1, <2>8 DEF Refused, SeedsAreMine, TablesAreMine, Seeded, Persisting
    <2>9. CASE q.pc \notin Persisting
      BY <2>9 DEF Refused, Persisting
    <2> QED BY <2>4, <2>5, <2>6, <2>7, <2>8, <2>9 DEF Persisting
  <1>2. IInv => RerunsReplace
    BY <1>1 DEF RerunsReplace
  <1> QED BY <1>2, Invariant, PTL

(* Seeds that a game has are replaced only by a call that had looked for them too early
   and was overtaken. *)
THEOREM SeedsAreReused == Spec => SeedsOutliveReruns
  <1> DEFINE Overtaken ==
        seeds # None /\ seeds' # seeds =>
          \E c \in Calls : /\ call'[c] # call[c]
                           /\ call[c].early /\ ~call[c].alone
  <1>1. ASSUME IInv, [Next]_vars PROVE Overtaken
    <2> SUFFICES ASSUME seeds # None, seeds' # seeds
                 PROVE  \E c \in Calls : /\ call'[c] # call[c]
                                         /\ call[c].early /\ ~call[c].alone
      OBVIOUS
    <2>1. PICK c \in Calls, s \in Seeds : DrawSeeds(c, s)
      <3>1. ~(UNCHANGED vars)
        BY DEF vars
      <3>2. PICK c \in Calls : Step(c)
        BY <1>1, <3>1 DEF Next
      <3> QED BY <3>2
          DEF Step, Start, Fail, ReadSeeds, Generate, Clear, SaveCluster, SaveGenerator,
              SaveSystemContents, SaveDeposits, Return
    <2> DEFINE q == call[c]
    <2>2. q \in CallRecord /\ q.pc = "draw" /\ Wellformed(q) /\ Undisturbed(c)
      BY <1>1, <2>1, CallTypes DEF IInv, DrawSeeds
    <2>3. q.early /\ ~q.alone
      BY <2>2 DEF Wellformed, Undisturbed, SeedsAreMine
    <2>4. call'[c] # q
      <3>1. call'[c].pc = "generate"
        BY <2>1, <2>2, MovedWithSeed DEF DrawSeeds, Wrote
      <3> QED BY <2>2, <3>1
    <2> QED BY <2>3, <2>4
  <1>2. IInv /\ [Next]_vars => [Overtaken]_vars
    BY <1>1
  <1> QED BY <1>2, Invariant, PTL DEF Spec, SeedsOutliveReruns
=============================================================================

----------------------- MODULE BlockImageVerifyProofs -----------------------
(***************************************************************************)
(* What can be told before the update writes.  A verification that         *)
(* succeeds predicts the update: VerifyPredicts, from PredictInv.  The     *)
(* lemmas about lists come first, then one for each kind of step.  And     *)
(* how much room on /cache is enough: SpaceSuffices, from SpaceInv, after  *)
(* lemmas about the size of a set of files.                                *)
(***************************************************************************)
EXTENDS BlockImageProofs, BlockImageVerify

-----------------------------------------------------------------------------
(* Verification predicts the update: what the list can still do *)

(* A list that keeps the creator's guarantees and does not reuse ids. *)
Guaranteed(cmds) ==
  /\ Len(cmds) \in Nat /\ DOMAIN cmds = 1 .. Len(cmds)
  /\ NoReadAfterWrite(cmds)
  /\ HashesMatchSource(cmds)
  /\ NoIdReuse(cmds)
  /\ \A i \in DOMAIN cmds : IsCommand(cmds[i])

LEMMA ListGuaranteed ==
  ASSUME TypeOK, NoReuse
  PROVE  Guaranteed(list.cmds)
<1>1. IsTransferList(list) /\ WellFormed(list) /\ NoIdReuse(list.cmds)
  BY ListAssumption, InstallAssumption, Zenon
  DEF ListAssumption, InstallAssumption, NoReuse, TypeOK, PartitionOK
<1>2. \A i \in DOMAIN list.cmds : IsCommand(list.cmds[i])
  BY <1>1, Zenon DEF IsTransferList
<1> QED BY <1>1, <1>2, Indices, Zenon DEF Guaranteed, WellFormed

(* With more files, more can be obtained. *)
LEMMA MoreObtainable ==
  ASSUME NEW cmds, NEW d, NEW files, NEW more, files \subseteq more, NEW id, NEW here, NEW m,
         Obtainable(cmds, d, files, id, here, m)
  PROVE  Obtainable(cmds, d, more, id, here, m)
BY Zenon DEF Obtainable

LEMMA MorePromised ==
  ASSUME NEW cmds, NEW d, NEW files, NEW more, files \subseteq more, NEW here, NEW m,
         Promised(cmds, d, files, here, m)
  PROVE  Promised(cmds, d, more, here, m)
<1>1. HasSource(cmds, d, files, here, m) => HasSource(cmds, d, more, here, m)
  BY MoreObtainable, Zenon DEF HasSource
<1> QED BY <1>1, MoreObtainable, Zenon DEF Promised

LEMMA DoomedWithFewer ==
  ASSUME NEW cmds, NEW d, NEW files, NEW fewer, fewer \subseteq files, NEW map, NEW m,
         Doomed(cmds, d, files, map, m)
  PROVE  Doomed(cmds, d, fewer, map, m)
BY MorePromised, Zenon DEF Doomed

(* What can be loaded can be obtained by an update. *)
LEMMA LoadsObtainable ==
  ASSUME NEW cmds, Guaranteed(cmds), NEW d, NEW files, NEW map, NEW m, MapFrom(cmds, map, m),
         NEW id, Loads(d, files, map, id)
  PROVE  Obtainable(cmds, d, files, id, 1, m)
<1>1. CASE id \in DOMAIN map
  <2>1. PICK j \in DOMAIN cmds :
          j < m /\ cmds[j].op = "stash" /\ cmds[j].srchash = id /\ cmds[j].src = map[id]
    BY <1>1, Zenon DEF MapFrom
  <2>2. [k \in DOMAIN map[id] |-> d[map[id][k]]] = id
    BY <1>1, Zenon DEF Loads
  <2>3. Stashable(cmds[j], d)
    BY <2>1, <2>2 DEF Stashable
  <2>4. 1 =< j
    BY DEF Guaranteed
  <2> QED BY <2>1, <2>3, <2>4, Zenon DEF Obtainable
<1>2. CASE id \notin DOMAIN map
  BY <1>2, Zenon DEF Loads, Obtainable
<1> QED BY <1>1, <1>2

(* And what an update will obtain, a sound verification can load. *)
LEMMA ObtainableLoads ==
  ASSUME NEW cmds, Guaranteed(cmds), NEW d, NEW files, NEW map, NEW t \in DOMAIN cmds,
         Sound(cmds, d, files, map, t), NEW id, Needs(cmds[t], id),
         Obtainable(cmds, d, files, id, 1, t)
  PROVE  Loads(d, files, map, id)
<1>1. CASE id \in files
  <2>1. id \notin DOMAIN map
    BY <1>1, Zenon DEF Sound
  <2> QED BY <1>1, <2>1, Zenon DEF Loads
<1>2. CASE id \notin files
  <2>1. PICK j \in DOMAIN cmds : j < t /\ cmds[j].srchash = id /\ Stashable(cmds[j], d)
    BY <1>2, Zenon DEF Obtainable
  <2>2. ASSUME NEW f \in DOMAIN cmds, f < t PROVE ~Frees(cmds[f], id)
    BY <2>2, Zenon DEF Guaranteed, NoIdReuse, Frees
  <2> QED BY <2>1, <2>2, Zenon DEF Sound
<1> QED BY <1>1, <1>2

-----------------------------------------------------------------------------
(* A verification passes what is promised, and nothing else *)

(* The buffer, when no stash file is rotten. *)
Loaded(c, d, files, map) ==
  [k \in DOMAIN c.srchash |->
     IF k \in DOMAIN c.src THEN d[c.src[k]]
     ELSE IF Loads(d, files, map, c.use[k].id) THEN c.use[k].id[c.use[k].at] ELSE Junk]

Passes(c, d, files, map) ==
  \/ RightTarget(c, d)
  \/ Loaded(c, d, files, map) = c.srchash
  \/ Overlap(c) /\ Loads(d, files, map, c.srchash)

LEMMA LoadedPlace ==
  ASSUME NEW c, NEW d, NEW files, NEW map, NEW k \in DOMAIN c.srchash
  PROVE  Loaded(c, d, files, map)[k] =
           IF k \in DOMAIN c.src THEN d[c.src[k]]
           ELSE IF Loads(d, files, map, c.use[k].id) THEN c.use[k].id[c.use[k].at] ELSE Junk
BY Zenon DEF Loaded

LEMMA PassedIsPromised ==
  ASSUME NEW cmds, Guaranteed(cmds), NEW d, NEW files, NEW map, NEW m, MapFrom(cmds, map, m),
         Passes(cmds[m], d, files, map)
  PROVE  Promised(cmds, d, files, 1, m)
<1>1. ASSUME Loaded(cmds[m], d, files, map) = cmds[m].srchash
      PROVE  HasSource(cmds, d, files, 1, m)
  <2> SUFFICES ASSUME NEW k \in DOMAIN cmds[m].srchash
               PROVE  IF k \in DOMAIN cmds[m].src
                      THEN d[cmds[m].src[k]] = cmds[m].srchash[k]
                      ELSE \/ Obtainable(cmds, d, files, cmds[m].use[k].id, 1, m)
                           \/ cmds[m].srchash[k] = Junk
    BY Zenon DEF HasSource
  <2>1. cmds[m].srchash[k] =
           IF k \in DOMAIN cmds[m].src THEN d[cmds[m].src[k]]
           ELSE IF Loads(d, files, map, cmds[m].use[k].id)
                THEN cmds[m].use[k].id[cmds[m].use[k].at] ELSE Junk
    BY <1>1, LoadedPlace
  <2>2. CASE k \in DOMAIN cmds[m].src
    BY <2>1, <2>2, Zenon
  <2>3. CASE k \notin DOMAIN cmds[m].src /\ Loads(d, files, map, cmds[m].use[k].id)
    BY <2>3, LoadsObtainable, Zenon
  <2>4. CASE k \notin DOMAIN cmds[m].src /\ ~Loads(d, files, map, cmds[m].use[k].id)
    BY <2>1, <2>4, Zenon
  <2> QED BY <2>2, <2>3, <2>4, Zenon
<1>2. ASSUME Overlap(cmds[m]), Loads(d, files, map, cmds[m].srchash)
      PROVE  Obtainable(cmds, d, files, cmds[m].srchash, 1, m)
  BY <1>2, LoadsObtainable, Zenon
<1> QED BY <1>1, <1>2, Zenon DEF Passes, Promised

LEMMA PromisedPasses ==
  ASSUME NEW cmds, Guaranteed(cmds), NEW d, NEW files, NEW map, NEW m \in DOMAIN cmds,
         Copies(cmds[m]), NEW here, Promised(cmds, d, files, here, m),
         \A id : Needs(cmds[m], id) /\ Obtainable(cmds, d, files, id, here, m) => Loads(d, files, map, id)
  PROVE  Passes(cmds[m], d, files, map)
<1>0. /\ DOMAIN cmds[m].use = DOMAIN cmds[m].srchash \ DOMAIN cmds[m].src
      /\ cmds[m].srchash \in Seq(Contents)
  BY Zenon DEF Guaranteed, IsCommand
<1>1. ASSUME HasSource(cmds, d, files, here, m)
      PROVE  Loaded(cmds[m], d, files, map) = cmds[m].srchash
  <2>1. ASSUME NEW k \in DOMAIN cmds[m].srchash
        PROVE  Loaded(cmds[m], d, files, map)[k] = cmds[m].srchash[k]
    <3>1. CASE k \in DOMAIN cmds[m].src
      BY <1>1, <3>1, LoadedPlace, Zenon DEF HasSource
    <3>2. CASE k \notin DOMAIN cmds[m].src
      <4>1. cmds[m].srchash[k] = cmds[m].use[k].id[cmds[m].use[k].at]
        BY <3>2, Zenon DEF Guaranteed, HashesMatchSource, Copies
      <4>2. Needs(cmds[m], cmds[m].use[k].id)
        BY <1>0, <3>2, Zenon DEF Needs
      <4>3. \/ Obtainable(cmds, d, files, cmds[m].use[k].id, here, m)
            \/ cmds[m].srchash[k] = Junk
        BY <1>1, <3>2, Zenon DEF HasSource
      <4>4. Loads(d, files, map, cmds[m].use[k].id) \/ cmds[m].srchash[k] = Junk
        BY <4>2, <4>3, Zenon
      <4>5. Loaded(cmds[m], d, files, map)[k] =
              IF Loads(d, files, map, cmds[m].use[k].id)
              THEN cmds[m].use[k].id[cmds[m].use[k].at] ELSE Junk
        BY <3>2, LoadedPlace
      <4> QED BY <4>1, <4>4, <4>5, Zenon
    <3> QED BY <3>1, <3>2, Zenon
  <2>2. Loaded(cmds[m], d, files, map) = [k \in DOMAIN cmds[m].srchash |-> Loaded(cmds[m], d, files, map)[k]]
    BY DEF Loaded
  <2>3. cmds[m].srchash = [k \in DOMAIN cmds[m].srchash |-> cmds[m].srchash[k]]
    BY <1>0
  <2> QED BY <2>1, <2>2, <2>3
<1>2. ASSUME Overlap(cmds[m]), Obtainable(cmds, d, files, cmds[m].srchash, here, m)
      PROVE  Loads(d, files, map, cmds[m].srchash)
  BY <1>2, Zenon DEF Needs
<1> QED BY <1>1, <1>2, Zenon DEF Passes, Promised

LEMMA SoundPasses ==
  ASSUME NEW cmds, Guaranteed(cmds), NEW d, NEW files, NEW map, NEW t \in DOMAIN cmds,
         Copies(cmds[t]), Sound(cmds, d, files, map, t), Promised(cmds, d, files, 1, t)
  PROVE  Passes(cmds[t], d, files, map)
BY PromisedPasses, ObtainableLoads, Zenon

-----------------------------------------------------------------------------
(* What a verification knows after one more command *)

LEMMA SoundAtFirst ==
  ASSUME NEW cmds, Guaranteed(cmds), NEW d, NEW files
  PROVE  Sound(cmds, d, files, <<>>, 1)
<1>1. \A j \in DOMAIN cmds : ~(j < 1)
  BY DEF Guaranteed
<1>2. DOMAIN <<>> = {}
  OBVIOUS
<1> QED BY <1>1, <1>2, Zenon DEF Sound, MapFrom

LEMMA OneMore ==
  ASSUME NEW cmds, Guaranteed(cmds), NEW t \in DOMAIN cmds, NEW j \in DOMAIN cmds
  PROVE  /\ j < t + 1 <=> j < t \/ j = t
         /\ t =< j /\ j # t <=> t + 1 =< j
         /\ j < t <=> ~(t =< j)
BY DEF Guaranteed

(* A command that is neither stash nor free. *)
LEMMA SoundAfter ==
  ASSUME NEW cmds, Guaranteed(cmds), NEW d, NEW files, NEW map, NEW t \in DOMAIN cmds,
         cmds[t].op \notin {"stash", "free"}, Sound(cmds, d, files, map, t),
         Copies(cmds[t]) => Promised(cmds, d, files, 1, t)
  PROVE  Sound(cmds, d, files, map, t + 1)
<1>1. MapFrom(cmds, map, t + 1)
  BY OneMore, Zenon DEF Sound, MapFrom
<1>2. DOMAIN map \cap files = {}
  BY Zenon DEF Sound
<1>3. \A m \in DOMAIN cmds : m < t + 1 /\ Copies(cmds[m]) => Promised(cmds, d, files, 1, m)
  BY OneMore, Zenon DEF Sound
<1>4. ASSUME NEW j \in DOMAIN cmds, j < t + 1, Stashable(cmds[j], d),
             \A f \in DOMAIN cmds : j < f /\ f < t + 1 => ~Frees(cmds[f], cmds[j].srchash)
      PROVE  Loads(d, files, map, cmds[j].srchash)
  <2>1. j < t
    BY <1>4, OneMore, Zenon DEF Stashable
  <2>2. \A f \in DOMAIN cmds : j < f /\ f < t => ~Frees(cmds[f], cmds[j].srchash)
    BY <1>4, OneMore, Zenon
  <2> QED BY <1>4, <2>1, <2>2, Zenon DEF Sound
<1> QED BY <1>1, <1>2, <1>3, <1>4, Zenon DEF Sound

(* The new stash_map has one more entry, or one less. *)
Remembers(map, id, src, new) ==
  /\ DOMAIN new = DOMAIN map \cup {id} /\ new[id] = src
  /\ \A i \in DOMAIN map : i # id => new[i] = map[i]
Forgets(map, id, new) ==
  /\ DOMAIN new = DOMAIN map \ {id}
  /\ \A i \in DOMAIN map : i # id => new[i] = map[i]

LEMMA OthersLoad ==
  ASSUME NEW d, NEW files, NEW map, NEW other, NEW i,
         i \in DOMAIN map <=> i \in DOMAIN other, i \in DOMAIN map => other[i] = map[i],
         Loads(d, files, map, i)
  PROVE  Loads(d, files, other, i)
<1>1. CASE i \in DOMAIN map
  <2>1. [k \in DOMAIN map[i] |-> d[map[i][k]]] = i
    BY <1>1, Zenon DEF Loads
  <2>2. [k \in DOMAIN other[i] |-> d[other[i][k]]] = i
    BY <1>1, <2>1
  <2> QED BY <1>1, <2>2, Zenon DEF Loads
<1>2. CASE i \notin DOMAIN map
  BY <1>2, Zenon DEF Loads
<1> QED BY <1>1, <1>2

LEMMA MapRemembers ==
  ASSUME NEW cmds, Guaranteed(cmds), NEW map, NEW t \in DOMAIN cmds, cmds[t].op = "stash",
         NEW m, t < m, MapFrom(cmds, map, m), NEW r, Remembers(map, cmds[t].srchash, cmds[t].src, r)
  PROVE  MapFrom(cmds, r, m)
<1> SUFFICES ASSUME NEW i \in DOMAIN r
             PROVE  \E j \in DOMAIN cmds :
                      j < m /\ cmds[j].op = "stash" /\ cmds[j].srchash = i /\ cmds[j].src = r[i]
  BY Zenon DEF MapFrom
<1>1. CASE i = cmds[t].srchash
  <2>1. r[i] = cmds[t].src
    BY <1>1, Zenon DEF Remembers
  <2> QED BY <1>1, <2>1, Zenon
<1>2. CASE i # cmds[t].srchash
  <2>1. i \in DOMAIN map /\ r[i] = map[i]
    BY <1>2, Zenon DEF Remembers
  <2>2. PICK j \in DOMAIN cmds :
          j < m /\ cmds[j].op = "stash" /\ cmds[j].srchash = i /\ cmds[j].src = map[i]
    BY <2>1, Zenon DEF MapFrom
  <2> QED BY <2>1, <2>2, Zenon
<1> QED BY <1>1, <1>2

LEMMA MapForgets ==
  ASSUME NEW cmds, NEW map, NEW id, NEW m, MapFrom(cmds, map, m), NEW r, Forgets(map, id, r)
  PROVE  MapFrom(cmds, r, m)
<1> SUFFICES ASSUME NEW i \in DOMAIN r
             PROVE  \E j \in DOMAIN cmds :
                      j < m /\ cmds[j].op = "stash" /\ cmds[j].srchash = i /\ cmds[j].src = r[i]
  BY Zenon DEF MapFrom
<1>1. i \in DOMAIN map /\ r[i] = map[i]
  BY Zenon DEF Forgets
<1>2. PICK j \in DOMAIN cmds :
        j < m /\ cmds[j].op = "stash" /\ cmds[j].srchash = i /\ cmds[j].src = map[i]
  BY <1>1, Zenon DEF MapFrom
<1> QED BY <1>1, <1>2, Zenon

LEMMA MapFromLater ==
  ASSUME NEW cmds, Guaranteed(cmds), NEW map, NEW t \in DOMAIN cmds, MapFrom(cmds, map, t)
  PROVE  MapFrom(cmds, map, t + 1)
BY OneMore, Zenon DEF MapFrom

(* A stash command whose stash can be loaded already. *)
LEMMA SoundAfterStash ==
  ASSUME NEW cmds, Guaranteed(cmds), NEW d, NEW files, NEW map, NEW t \in DOMAIN cmds,
         cmds[t].op = "stash", Sound(cmds, d, files, map, t), Loads(d, files, map, cmds[t].srchash)
  PROVE  Sound(cmds, d, files, map, t + 1)
<1>1. MapFrom(cmds, map, t + 1) /\ DOMAIN map \cap files = {}
  BY MapFromLater, Zenon DEF Sound
<1>2. \A m \in DOMAIN cmds : m < t + 1 /\ Copies(cmds[m]) => Promised(cmds, d, files, 1, m)
  BY OneMore, Zenon DEF Sound, Copies
<1>3. ASSUME NEW j \in DOMAIN cmds, j < t + 1, Stashable(cmds[j], d),
             \A f \in DOMAIN cmds : j < f /\ f < t + 1 => ~Frees(cmds[f], cmds[j].srchash)
      PROVE  Loads(d, files, map, cmds[j].srchash)
  <2>1. CASE j = t
    BY <2>1, Zenon
  <2>2. CASE j # t
    <3>1. j < t
      BY <1>3, <2>2, OneMore, Zenon
    <3>2. \A f \in DOMAIN cmds : j < f /\ f < t => ~Frees(cmds[f], cmds[j].srchash)
      BY <1>3, OneMore, Zenon
    <3> QED BY <1>3, <3>1, <3>2, Zenon DEF Sound
  <2> QED BY <2>1, <2>2
<1> QED BY <1>1, <1>2, <1>3, Zenon DEF Sound

(* One whose stash cannot be loaded: its source blocks are remembered. *)
LEMMA SoundAfterRemembering ==
  ASSUME NEW cmds, Guaranteed(cmds), NEW d, NEW files, NEW map, NEW t \in DOMAIN cmds,
         cmds[t].op = "stash", Sound(cmds, d, files, map, t), ~Loads(d, files, map, cmds[t].srchash),
         NEW r, Remembers(map, cmds[t].srchash, cmds[t].src, r)
  PROVE  Sound(cmds, d, files, r, t + 1)
<1> DEFINE id == cmds[t].srchash
<1>1. MapFrom(cmds, r, t + 1)
  BY MapFromLater, MapRemembers, OneMore, Zenon DEF Sound
<1>2. DOMAIN r \cap files = {}
  <2>1. id \notin files
    BY Zenon DEF Sound, Loads
  <2>2. DOMAIN r = DOMAIN map \cup {id}
    BY Zenon DEF Remembers
  <2> QED BY <2>1, <2>2 DEF Sound
<1>3. \A m \in DOMAIN cmds : m < t + 1 /\ Copies(cmds[m]) => Promised(cmds, d, files, 1, m)
  BY OneMore, Zenon DEF Sound, Copies
<1>4. ASSUME NEW j \in DOMAIN cmds, j < t + 1, Stashable(cmds[j], d),
             \A f \in DOMAIN cmds : j < f /\ f < t + 1 => ~Frees(cmds[f], cmds[j].srchash)
      PROVE  Loads(d, files, r, cmds[j].srchash)
  <2>1. CASE j = t
    <3>1. id \in DOMAIN r /\ r[id] = cmds[t].src
      BY Zenon DEF Remembers
    <3>2. [k \in DOMAIN r[id] |-> d[r[id][k]]] = id
      BY <1>4, <2>1, <3>1 DEF Stashable
    <3> QED BY <2>1, <3>1, <3>2, Zenon DEF Loads
  <2>2. CASE j # t
    <3>1. j < t
      BY <1>4, <2>2, OneMore, Zenon
    <3>2. \A f \in DOMAIN cmds : j < f /\ f < t => ~Frees(cmds[f], cmds[j].srchash)
      BY <1>4, OneMore, Zenon
    <3>3. Loads(d, files, map, cmds[j].srchash)
      BY <1>4, <3>1, <3>2, Zenon DEF Sound
    <3>4. cmds[j].srchash # id
      BY <3>3, Zenon
    <3>5. /\ cmds[j].srchash \in DOMAIN map <=> cmds[j].srchash \in DOMAIN r
          /\ cmds[j].srchash \in DOMAIN map => r[cmds[j].srchash] = map[cmds[j].srchash]
      BY <3>4, Zenon DEF Remembers
    <3> QED BY <3>3, <3>5, OthersLoad, Zenon
  <2> QED BY <2>1, <2>2
<1> QED BY <1>1, <1>2, <1>3, <1>4, Zenon DEF Sound

LEMMA SoundAfterFree ==
  ASSUME NEW cmds, Guaranteed(cmds), NEW d, NEW files, NEW map, NEW t \in DOMAIN cmds,
         cmds[t].op = "free", Sound(cmds, d, files, map, t), NEW r, Forgets(map, cmds[t].srchash, r)
  PROVE  Sound(cmds, d, files, r, t + 1)
<1> DEFINE id == cmds[t].srchash
<1>1. MapFrom(cmds, r, t + 1)
  BY MapFromLater, MapForgets, Zenon DEF Sound
<1>2. DOMAIN r \cap files = {}
  <2>1. DOMAIN r = DOMAIN map \ {id}
    BY Zenon DEF Forgets
  <2> QED BY <2>1 DEF Sound
<1>3. \A m \in DOMAIN cmds : m < t + 1 /\ Copies(cmds[m]) => Promised(cmds, d, files, 1, m)
  BY OneMore, Zenon DEF Sound, Copies
<1>4. ASSUME NEW j \in DOMAIN cmds, j < t + 1, Stashable(cmds[j], d),
             \A f \in DOMAIN cmds : j < f /\ f < t + 1 => ~Frees(cmds[f], cmds[j].srchash)
      PROVE  Loads(d, files, r, cmds[j].srchash)
  <2>1. j # t
    BY <1>4, Zenon DEF Stashable
  <2>2. j < t
    BY <1>4, <2>1, OneMore, Zenon
  <2>3. \A f \in DOMAIN cmds : j < f /\ f < t => ~Frees(cmds[f], cmds[j].srchash)
    BY <1>4, OneMore, Zenon
  <2>4. Loads(d, files, map, cmds[j].srchash)
    BY <1>4, <2>2, <2>3, Zenon DEF Sound
  <2>5. cmds[j].srchash # id
    BY <1>4, <2>2, OneMore, Zenon DEF Frees
  <2>6. /\ cmds[j].srchash \in DOMAIN map <=> cmds[j].srchash \in DOMAIN r
        /\ cmds[j].srchash \in DOMAIN map => r[cmds[j].srchash] = map[cmds[j].srchash]
    BY <2>5, Zenon DEF Forgets
  <2> QED BY <2>4, <2>6, OthersLoad, Zenon
<1> QED BY <1>1, <1>2, <1>3, <1>4, Zenon DEF Sound

LEMMA AllPassed ==
  ASSUME NEW cmds, Guaranteed(cmds), NEW d, NEW files, NEW map, NEW t \in Nat \ {0},
         t \notin DOMAIN cmds, Sound(cmds, d, files, map, t)
  PROVE  AllPromised(cmds, d, files, 1)
<1>1. \A m \in DOMAIN cmds : m < t
  BY DEF Guaranteed
<1> QED BY <1>1, Zenon DEF Sound, AllPromised

LEMMA KnowsAtFirst ==
  ASSUME NEW cmds, Guaranteed(cmds), NEW d, NEW files, NEW map,
         map = <<>> \/ Hopeless(cmds, d, files, map)
  PROVE  Knows(cmds, d, files, map, 1)
<1>1. CASE map = <<>>
  BY <1>1, SoundAtFirst, Zenon DEF Knows
<1>2. CASE Hopeless(cmds, d, files, map)
  <2>1. \A i \in DOMAIN cmds : 1 =< i
    BY DEF Guaranteed
  <2> QED BY <1>2, <2>1, Zenon DEF Knows, Hopeless
<1> QED BY <1>1, <1>2

LEMMA KnowsAfterCopy ==
  ASSUME NEW cmds, Guaranteed(cmds), NEW d, NEW files, NEW map, NEW t \in DOMAIN cmds,
         Copies(cmds[t]), Knows(cmds, d, files, map, t), Passes(cmds[t], d, files, map)
  PROVE  Knows(cmds, d, files, map, t + 1)
<1>1. CASE Sound(cmds, d, files, map, t)
  <2>1. Promised(cmds, d, files, 1, t)
    BY <1>1, PassedIsPromised, Zenon DEF Sound
  <2>2. cmds[t].op \notin {"stash", "free"}
    BY DEF Copies
  <2> QED BY <1>1, <2>1, <2>2, SoundAfter, Zenon DEF Knows
<1>2. CASE \E i \in DOMAIN cmds : t =< i /\ Doomed(cmds, d, files, map, i)
  <2>1. PICK i \in DOMAIN cmds : t =< i /\ Doomed(cmds, d, files, map, i)
    BY <1>2
  <2>2. i # t
    BY <2>1, PassedIsPromised, Zenon DEF Doomed
  <2>3. t + 1 =< i
    BY <2>1, <2>2, OneMore, Zenon
  <2> QED BY <2>1, <2>3, Zenon DEF Knows
<1> QED BY <1>1, <1>2, Zenon DEF Knows

LEMMA FailingIsHopeless ==
  ASSUME NEW cmds, Guaranteed(cmds), NEW d, NEW files, NEW map, NEW t \in DOMAIN cmds,
         Copies(cmds[t]), Knows(cmds, d, files, map, t), ~Passes(cmds[t], d, files, map)
  PROVE  Hopeless(cmds, d, files, map)
<1>1. CASE Sound(cmds, d, files, map, t)
  <2>1. ~Promised(cmds, d, files, 1, t)
    BY <1>1, SoundPasses, Zenon
  <2> QED BY <1>1, <2>1, Zenon DEF Hopeless, Doomed, Sound
<1> QED BY <1>1, Zenon DEF Knows, Hopeless

LEMMA KnowsAfterOther ==
  ASSUME NEW cmds, Guaranteed(cmds), NEW d, NEW files, NEW map, NEW t \in DOMAIN cmds,
         cmds[t].op \in {"zero", "new", "erase"}, Knows(cmds, d, files, map, t)
  PROVE  Knows(cmds, d, files, map, t + 1)
<1>1. ~Copies(cmds[t]) /\ cmds[t].op \notin {"stash", "free"}
  BY DEF Copies
<1>2. CASE Sound(cmds, d, files, map, t)
  BY <1>1, <1>2, SoundAfter, Zenon DEF Knows
<1>3. ASSUME NEW i \in DOMAIN cmds, t =< i, Doomed(cmds, d, files, map, i)
      PROVE  t + 1 =< i
  BY <1>1, <1>3, OneMore, Zenon DEF Doomed
<1> QED BY <1>2, <1>3, Zenon DEF Knows

(* A stash command, whether it remembers its source blocks or not; a free. *)
LEMMA KnowsAfterStash ==
  ASSUME NEW cmds, Guaranteed(cmds), NEW d, NEW files, NEW map, NEW t \in DOMAIN cmds,
         cmds[t].op = "stash", Knows(cmds, d, files, map, t), NEW r,
         \/ Loads(d, files, map, cmds[t].srchash) /\ r = map
         \/ ~Loads(d, files, map, cmds[t].srchash) /\ Remembers(map, cmds[t].srchash, cmds[t].src, r)
  PROVE  Knows(cmds, d, files, r, t + 1)
<1>1. CASE Sound(cmds, d, files, map, t)
  <2>1. CASE Loads(d, files, map, cmds[t].srchash) /\ r = map
    BY <1>1, <2>1, SoundAfterStash, Zenon DEF Knows
  <2>2. CASE ~Loads(d, files, map, cmds[t].srchash) /\ Remembers(map, cmds[t].srchash, cmds[t].src, r)
    BY <1>1, <2>2, SoundAfterRemembering, Zenon DEF Knows
  <2> QED BY <2>1, <2>2, Zenon
<1>2. CASE \E i \in DOMAIN cmds : t =< i /\ Doomed(cmds, d, files, map, i)
  <2>1. PICK i \in DOMAIN cmds : t =< i /\ Doomed(cmds, d, files, map, i)
    BY <1>2
  <2>2. i # t
    BY <2>1, Zenon DEF Doomed, Copies
  <2>3. t + 1 =< i /\ t < i
    BY <2>1, <2>2 DEF Guaranteed
  <2>4. MapFrom(cmds, r, i)
    BY <2>1, <2>3, MapRemembers, Zenon DEF Doomed
  <2> QED BY <2>1, <2>3, <2>4, Zenon DEF Knows, Doomed
<1> QED BY <1>1, <1>2, Zenon DEF Knows

LEMMA KnowsAfterFree ==
  ASSUME NEW cmds, Guaranteed(cmds), NEW d, NEW files, NEW map, NEW t \in DOMAIN cmds,
         cmds[t].op = "free", Knows(cmds, d, files, map, t), NEW r, Forgets(map, cmds[t].srchash, r)
  PROVE  Knows(cmds, d, files, r, t + 1)
<1>1. CASE Sound(cmds, d, files, map, t)
  BY <1>1, SoundAfterFree, Zenon DEF Knows
<1>2. ASSUME NEW i \in DOMAIN cmds, t =< i, Doomed(cmds, d, files, map, i)
      PROVE  t + 1 =< i /\ Doomed(cmds, d, files, r, i)
  <2>1. i # t
    BY <1>2, Zenon DEF Doomed, Copies
  <2>2. t + 1 =< i
    BY <1>2, <2>1, OneMore, Zenon
  <2>3. MapFrom(cmds, r, i)
    BY <1>2, MapForgets, Zenon DEF Doomed
  <2> QED BY <1>2, <2>2, <2>3, Zenon DEF Doomed
<1> QED BY <1>1, <1>2, Zenon DEF Knows

LEMMA KnowsAll ==
  ASSUME NEW cmds, Guaranteed(cmds), NEW d, NEW files, NEW map, NEW t \in Nat \ {0},
         t \notin DOMAIN cmds, Knows(cmds, d, files, map, t)
  PROVE  AllPromised(cmds, d, files, 1)
<1>1. \A i \in DOMAIN cmds : ~(t =< i)
  BY DEF Guaranteed
<1> QED BY <1>1, AllPassed, Zenon DEF Knows

-----------------------------------------------------------------------------
(* What an update leaves for the commands after the one at hand *)

LEMMA PromisedAtOnce ==
  ASSUME NEW cmds, Guaranteed(cmds), NEW d, NEW files, NEW p \in DOMAIN cmds, Copies(cmds[p]),
         AllPromised(cmds, d, files, p)
  PROVE  Passes(cmds[p], d, files, <<>>)
<1>1. p =< p /\ \A j \in DOMAIN cmds : ~(p =< j /\ j < p)
  BY DEF Guaranteed
<1>2. Promised(cmds, d, files, p, p)
  BY <1>1, Zenon DEF AllPromised
<1>3. ASSUME NEW id, Obtainable(cmds, d, files, id, p, p) PROVE Loads(d, files, <<>>, id)
  <2>1. id \in files
    BY <1>1, <1>3, Zenon DEF Obtainable
  <2>2. id \notin DOMAIN <<>>
    OBVIOUS
  <2> QED BY <2>1, <2>2, Zenon DEF Loads
<1> QED BY <1>2, <1>3, PromisedPasses, Zenon

LEMMA PromiseKept ==
  ASSUME NEW cmds, NEW m, Copies(cmds[m]), IsCommand(cmds[m]), NEW d, NEW files, NEW here, Promised(cmds, d, files, here, m),
         NEW e, \A b \in Reads(cmds[m]) \cup Writes(cmds[m]) : e[b] = d[b],
         NEW kept, NEW next,
         \A id : Needs(cmds[m], id) /\ Obtainable(cmds, d, files, id, here, m) =>
                   Obtainable(cmds, e, kept, id, next, m)
  PROVE  Promised(cmds, e, kept, next, m)
<1>1. \A k \in DOMAIN cmds[m].src : e[cmds[m].src[k]] = d[cmds[m].src[k]]
  BY DEF Reads, Range
<1>2. RightTarget(cmds[m], d) => RightTarget(cmds[m], e)
  BY DEF RightTarget, Writes, Range
<1>3. HasSource(cmds, d, files, here, m) => HasSource(cmds, e, kept, next, m)
  <2> SUFFICES ASSUME HasSource(cmds, d, files, here, m), NEW k \in DOMAIN cmds[m].srchash
               PROVE  IF k \in DOMAIN cmds[m].src
                      THEN e[cmds[m].src[k]] = cmds[m].srchash[k]
                      ELSE \/ Obtainable(cmds, e, kept, cmds[m].use[k].id, next, m)
                           \/ cmds[m].srchash[k] = Junk
    BY Zenon DEF HasSource
  <2>1. CASE k \in DOMAIN cmds[m].src
    BY <1>1, <2>1, Zenon DEF HasSource
  <2>2. CASE k \notin DOMAIN cmds[m].src
    <3>1. k \in DOMAIN cmds[m].use
      BY <2>2, Zenon DEF IsCommand
    <3>2. Needs(cmds[m], cmds[m].use[k].id)
      BY <3>1, Zenon DEF Needs
    <3> QED BY <2>2, <3>2, Zenon DEF HasSource
  <2> QED BY <2>1, <2>2
<1>4. Overlap(cmds[m]) => Needs(cmds[m], cmds[m].srchash)
  BY Zenon DEF Needs
<1> QED BY <1>2, <1>3, <1>4, Zenon DEF Promised

(* The commands from here on are promised when one is through that changed  *)
(* no block, and the files that it added and removed are the right ones.    *)
LEMMA AfterCommand ==
  ASSUME NEW cmds, Guaranteed(cmds), NEW d, NEW files, NEW p \in DOMAIN cmds,
         AllPromised(cmds, d, files, p), NEW kept,
         Stashable(cmds[p], d) => cmds[p].srchash \in kept,
         \A id \in files : id \in kept \/ Frees(cmds[p], id)
  PROVE  AllPromised(cmds, d, kept, p + 1)
<1> SUFFICES ASSUME NEW m \in DOMAIN cmds, p + 1 =< m, Copies(cmds[m])
             PROVE  Promised(cmds, d, kept, p + 1, m)
  BY Zenon DEF AllPromised
<1>1. p =< m /\ p < m
  BY DEF Guaranteed
<1>2. Promised(cmds, d, files, p, m)
  BY <1>1, Zenon DEF AllPromised
<1>3. ASSUME NEW id, Needs(cmds[m], id), Obtainable(cmds, d, files, id, p, m)
      PROVE  Obtainable(cmds, d, kept, id, p + 1, m)
  <2>1. ~Frees(cmds[p], id)
    BY <1>1, <1>3, Zenon DEF Guaranteed, NoIdReuse, Frees
  <2>2. CASE id \in files
    BY <2>1, <2>2, Zenon DEF Obtainable
  <2>3. CASE id \notin files
    <3>1. PICK j \in DOMAIN cmds : p =< j /\ j < m /\ cmds[j].srchash = id /\ Stashable(cmds[j], d)
      BY <1>3, <2>3, Zenon DEF Obtainable
    <3>2. CASE j = p
      BY <3>1, <3>2, Zenon DEF Obtainable
    <3>3. CASE j # p
      <4>1. p + 1 =< j
        BY <3>1, <3>3, OneMore, Zenon
      <4> QED BY <3>1, <4>1, Zenon DEF Obtainable
    <3> QED BY <3>2, <3>3
  <2> QED BY <2>2, <2>3
<1>4. IsCommand(cmds[m])
  BY Zenon DEF Guaranteed
<1>5. \A b \in Reads(cmds[m]) \cup Writes(cmds[m]) : d[b] = d[b]
  BY Zenon
<1> QED BY <1>2, <1>3, <1>4, <1>5, PromiseKept, Zenon

(* They stay promised while this one fills its target. *)
LEMMA WhileFilling ==
  ASSUME NEW cmds, Guaranteed(cmds), NEW d, NEW files, NEW p \in DOMAIN cmds,
         AllPromised(cmds, d, files, p + 1),
         NEW e, \A b \in Blocks : b \notin Writes(cmds[p]) => e[b] = d[b]
  PROVE  AllPromised(cmds, e, files, p + 1)
<1>1. ASSUME NEW j \in DOMAIN cmds, p + 1 =< j, NEW b \in Reads(cmds[j]) \cup Writes(cmds[j])
      PROVE  e[b] = d[b]
  <2>1. p < j
    BY <1>1 DEF Guaranteed
  <2>2. Writes(cmds[p]) \cap (Reads(cmds[j]) \cup Writes(cmds[j])) = {}
    BY <2>1, Zenon DEF Guaranteed, NoReadAfterWrite
  <2>3. IsCommand(cmds[j])
    BY Zenon DEF Guaranteed
  <2>4. \A k \in DOMAIN cmds[j].tgt : cmds[j].tgt[k] \in Blocks
    BY <2>3 DEF IsCommand
  <2>5. b \in Blocks
    BY <1>1, <2>3, <2>4, Zenon DEF IsCommand, Reads, Writes, Range
  <2> QED BY <1>1, <2>2, <2>5
<1>2. ASSUME NEW j \in DOMAIN cmds, p + 1 =< j, Stashable(cmds[j], d)
      PROVE  Stashable(cmds[j], e)
  <2>1. \A k \in DOMAIN cmds[j].src : e[cmds[j].src[k]] = d[cmds[j].src[k]]
    BY <1>1, <1>2 DEF Reads, Range
  <2> QED BY <1>2, <2>1 DEF Stashable
<1> SUFFICES ASSUME NEW m \in DOMAIN cmds, p + 1 =< m, Copies(cmds[m])
             PROVE  Promised(cmds, e, files, p + 1, m)
  BY Zenon DEF AllPromised
<1>3. Promised(cmds, d, files, p + 1, m)
  BY Zenon DEF AllPromised
<1>4. ASSUME NEW id, Obtainable(cmds, d, files, id, p + 1, m)
      PROVE  Obtainable(cmds, e, files, id, p + 1, m)
  BY <1>2, <1>4, Zenon DEF Obtainable
<1>5. IsCommand(cmds[m])
  BY Zenon DEF Guaranteed
<1>6. \A b \in Reads(cmds[m]) \cup Writes(cmds[m]) : e[b] = d[b]
  BY <1>1, Zenon
<1> QED BY <1>3, <1>4, <1>5, <1>6, PromiseKept, Zenon

LEMMA AllMorePromised ==
  ASSUME NEW cmds, NEW d, NEW files, NEW more, files \subseteq more, NEW here,
         AllPromised(cmds, d, files, here)
  PROVE  AllPromised(cmds, d, more, here)
BY MorePromised, Zenon DEF AllPromised

-----------------------------------------------------------------------------
(* The steps, while there is no fault *)

LEMMA FaultCounts == ASSUME TypeOK, NEW f, Fault(f) PROVE faults' # 0
BY BoundAssumption DEF BoundAssumption, TypeOK, OutcomeOK, Fault

(* An update does not look at stash_map. *)
UsedMap == IF canwrite THEN <<>> ELSE stash_map

LEMMA LoadIs ==
  ASSUME bad = {}, unreadable = {}, NEW id, NEW verify
  PROVE  /\ StashAfterLoad(id) = stash
         /\ LoadStash(id, verify) <=> Loads(dev, stash, UsedMap, id)
<1>1. StashAfterLoad(id) = stash
  BY Zenon DEF StashAfterLoad
<1>2. CASE canwrite
  <2>1. id \notin DOMAIN <<>>
    OBVIOUS
  <2> QED BY <1>1, <1>2, <2>1, Zenon DEF LoadStash, Loads, UsedMap
<1>3. CASE ~canwrite
  BY <1>1, <1>3, Zenon DEF LoadStash, Loads, UsedMap, MapVerifies
<1> QED BY <1>2, <1>3

LEMMA LoadedIs ==
  ASSUME bad = {}, unreadable = {}, NEW c
  PROVE  LoadSourceBlocks(c) = Loaded(c, dev, stash, UsedMap)
<1>1. \A id : LoadStash(id, FALSE) <=> Loads(dev, stash, UsedMap, id)
  BY LoadIs, Zenon
<1>2. \A id, k : StashBlock(id, k) = id[k]
  BY Zenon DEF StashBlock
<1> QED BY <1>1, <1>2, Zenon DEF LoadSourceBlocks, Loaded

(* A copy finds its source or is found to have none. *)
LEMMA CopyOutcome ==
  ASSUME TypeOK, bad = {}, unreadable = {}, faults' = 0, pc = "cmd", LoadSrcTgtVersion3(Cmd)
  PROVE  /\ UNCHANGED <<list, dev, stash_map, step, canwrite, pos, rc>>
         /\ bad' = {}
         /\ IF Passes(Cmd, dev, stash, UsedMap)
            THEN /\ isunresumable' = isunresumable
                 /\ ~canwrite => pc' = "free" /\ UNCHANGED <<stash, freestash>>
                 /\ canwrite => pc' \in {"free", "seek", "dirsync", "pbiudone"}
                 /\ \/ UNCHANGED <<stash, freestash>>
                    \/ /\ Cmd.srchash \notin stash
                       /\ stash' = stash \cup {Cmd.srchash} /\ freestash' = Cmd.srchash
            ELSE pc' = "pbiudone" /\ stash' = stash /\ isunresumable'
<1>1. ~Fault("io")
  BY FaultCounts, Zenon
<1>2. LoadSourceBlocks(Cmd) = Loaded(Cmd, dev, stash, UsedMap)
  BY LoadedIs
<1>3. LoadStash(Cmd.srchash, TRUE) <=> Loads(dev, stash, UsedMap, Cmd.srchash)
  BY LoadIs, Zenon
<1>4. TargetDone(Cmd) <=> RightTarget(Cmd, dev)
  BY Zenon DEF TargetDone, RightTarget
<1>5. UNCHANGED <<list, dev, stash_map, step, canwrite, pos>>
  BY DEF LoadSrcTgtVersion3, partition, process
<1>6. CASE TargetDone(Cmd) /\ pc' = "free" /\ UNCHANGED <<overlooked, cache, freestash, isunresumable, buffer, rc, cause, faults>>
  <2>1. Passes(Cmd, dev, stash, UsedMap)
    BY <1>4, <1>6, Zenon DEF Passes
  <2>2. UNCHANGED <<stash, bad, freestash, isunresumable, rc>> /\ pc' = "free"
    BY <1>6 DEF cache
  <2> QED BY <1>5, <2>1, <2>2, Zenon
<1>7. CASE /\ LoadSourceBlocks(Cmd) = Cmd.srchash
           /\ IF Overlap(Cmd) /\ canwrite THEN StashOverlapping(Cmd.srchash) ELSE Proceed
           /\ UNCHANGED <<overlooked, isunresumable>>
  <2>1. Passes(Cmd, dev, stash, UsedMap)
    BY <1>2, <1>7, Zenon DEF Passes
  <2>2. CASE Proceed
    <3>1. UNCHANGED <<stash, bad, freestash, rc>> /\ pc' = (IF canwrite THEN "seek" ELSE "free")
      BY <2>2 DEF Proceed, cache
    <3> QED BY <1>5, <1>7, <2>1, <3>1, Zenon
  <2>3. CASE canwrite /\ StashOverlapping(Cmd.srchash)
    <3>1. \/ Proceed
          \/ Cmd.srchash \notin stash /\ WriteStashDone(stash, Cmd.srchash) /\ freestash' = Cmd.srchash
          \/ WriteStashNoSpace(stash, Cmd.srchash, TRUE) /\ UNCHANGED freestash
      BY <1>1, <2>3, Zenon DEF StashOverlapping, WriteStashError
    <3>2. ASSUME Cmd.srchash \notin stash, WriteStashDone(stash, Cmd.srchash), freestash' = Cmd.srchash
          PROVE  /\ pc' = "dirsync" /\ stash' = stash \cup {Cmd.srchash} /\ bad' = {} /\ rc' = rc
      BY <3>2 DEF WriteStashDone
    <3>3. ASSUME WriteStashNoSpace(stash, Cmd.srchash, TRUE)
          PROVE  pc' = "pbiudone" /\ stash' = stash /\ bad' = {} /\ rc' = rc
      BY <3>3 DEF WriteStashNoSpace, Abort
    <3> QED BY <1>5, <1>7, <2>1, <2>2, <2>3, <3>1, <3>2, <3>3, Zenon
  <2> QED BY <1>7, <2>2, <2>3, Zenon
<1>8. CASE Overlap(Cmd) /\ LoadStash(Cmd.srchash, TRUE) /\ Proceed /\ UNCHANGED <<overlooked, isunresumable>>
  <2>1. Passes(Cmd, dev, stash, UsedMap)
    BY <1>3, <1>8, Zenon DEF Passes
  <2>2. UNCHANGED <<stash, bad, freestash, rc>> /\ pc' = (IF canwrite THEN "seek" ELSE "free")
    BY <1>8 DEF Proceed, cache
  <2> QED BY <1>5, <1>8, <2>1, <2>2, Zenon
<1>9. CASE /\ ~TargetDone(Cmd) /\ LoadSourceBlocks(Cmd) # Cmd.srchash
           /\ ~(Overlap(Cmd) /\ LoadStash(Cmd.srchash, TRUE)) /\ Unresumable(Cmd)
  <2>1. ~Passes(Cmd, dev, stash, UsedMap)
    BY <1>2, <1>3, <1>4, <1>9, Zenon DEF Passes
  <2>2. stash' = stash
    BY <1>9, LoadIs, Zenon DEF Unresumable
  <2>3. bad' = {} /\ pc' = "pbiudone" /\ rc' = rc /\ isunresumable'
    BY <1>9 DEF Unresumable, Abort
  <2> QED BY <1>5, <2>1, <2>2, <2>3, Zenon
<1> QED BY <1>1, <1>6, <1>7, <1>8, <1>9, Zenon DEF LoadSrcTgtVersion3

(* A step of a verification that goes on, and one that ends it. *)
LEMMA VerificationGoesOn ==
  ASSUME ~canwrite', pc' \in Running, bad' = {},
         Knows(list'.cmds, dev', stash', stash_map', Through')
  PROVE  Predicts'
<1>1. pc' \notin {"pbiudone", "delete"} /\ pc' # "idle"
  BY DEF Running
<1> QED BY <1>1, Zenon DEF Predicts, Verification, BetweenCalls, VerifiedUpdate

LEMMA UpdateGoesOn ==
  ASSUME canwrite', pc' \in Running \cup {"pbiudone"}, bad' = {},
         step' = "verified" =>
           /\ ~isunresumable'
           /\ pc' \in Running => AllPromised(list'.cmds, dev', Staying', Coming')
           /\ NothingToFree'
  PROVE  Predicts'
<1>1. pc' # "idle"
  BY DEF Running
<1> QED BY <1>1, Zenon DEF Predicts, Verification, BetweenCalls, VerifiedUpdate

(* What a command that is being called may rely on. *)
LEMMA AtCommand ==
  ASSUME NoReuse, InstallInv, VerifyInv, Predicts, pc = "cmd", pos \in DOMAIN list.cmds
  PROVE  /\ TypeOK /\ Guaranteed(list.cmds) /\ rc # 0 /\ ~isunresumable /\ bad = {}
         /\ ~canwrite => Knows(list.cmds, dev, stash, stash_map, pos)
         /\ canwrite /\ step = "verified" => AllPromised(list.cmds, dev, stash, pos) /\ freestash = <<>>
         /\ ~canwrite => freestash = <<>> /\ (createdstash => stash = {})
<1>1. TypeOK /\ Guaranteed(list.cmds)
  BY ListGuaranteed DEF InstallInv
<1>2. pc \in Running /\ pc \notin {"free", "end"}
  BY DEF Running
<1>3. rc = -1 /\ ~isunresumable
  BY <1>2, Zenon DEF InstallInv, ResultEarned
<1>4. Through = pos /\ Coming = pos
  BY <1>2, Zenon DEF Through, Coming
<1>5. ~canwrite => Knows(list.cmds, dev, stash, stash_map, pos)
  BY <1>2, <1>4, Zenon DEF Predicts, Verification
<1>6. canwrite /\ step = "verified" => AllPromised(list.cmds, dev, Staying, Coming) /\ freestash = <<>>
  BY <1>2, Zenon DEF Predicts, VerifiedUpdate, NothingToFree
<1>7. ~canwrite => freestash = <<>> /\ (createdstash => stash = {})
  BY DEF VerifyInv
<1>8. rc # 0
  BY <1>3
<1>9. bad = {}
  BY Zenon DEF Predicts
<1> QED BY <1>1, <1>3, <1>4, <1>5, <1>6, <1>7, <1>8, <1>9, Zenon DEF Staying

LEMMA CopyPredicts ==
  ASSUME NoReuse, InstallInv, VerifyInv, Predicts, unreadable = {}, faults' = 0, PerformCommandMove \/ PerformCommandDiff
  PROVE  Predicts'
<1>0. pc = "cmd" /\ pos \in DOMAIN list.cmds /\ Copies(list.cmds[pos]) /\ LoadSrcTgtVersion3(Cmd)
  BY Zenon DEF PerformCommandMove, PerformCommandDiff, Copies, Cmd
<1>1. /\ TypeOK /\ Guaranteed(list.cmds) /\ rc # 0 /\ ~isunresumable /\ bad = {}
      /\ ~canwrite => Knows(list.cmds, dev, stash, stash_map, pos)
      /\ canwrite /\ step = "verified" => AllPromised(list.cmds, dev, stash, pos) /\ freestash = <<>>
  BY <1>0, AtCommand
<1> DEFINE passes == Passes(list.cmds[pos], dev, stash, UsedMap)
<1>2. /\ UNCHANGED <<list, dev, stash_map, step, canwrite, pos, rc>>
      /\ bad' = {}
      /\ IF passes
         THEN /\ isunresumable' = isunresumable
              /\ ~canwrite => pc' = "free" /\ UNCHANGED <<stash, freestash>>
              /\ canwrite => pc' \in {"free", "seek", "dirsync", "pbiudone"}
              /\ \/ UNCHANGED <<stash, freestash>>
                 \/ /\ Cmd.srchash \notin stash
                    /\ stash' = stash \cup {Cmd.srchash} /\ freestash' = Cmd.srchash
         ELSE pc' = "pbiudone" /\ stash' = stash /\ isunresumable'
  BY <1>0, <1>1, CopyOutcome, Zenon DEF Cmd
<1> HIDE DEF passes
<1>3. CASE ~canwrite
  <2>1. UsedMap = stash_map
    BY <1>3, Zenon DEF UsedMap
  <2>2. CASE passes
    <3>1. Knows(list.cmds, dev, stash, stash_map, pos + 1)
      BY <1>0, <1>1, <1>3, <2>1, <2>2, KnowsAfterCopy, Zenon DEF passes
    <3>2. pc' = "free" /\ UNCHANGED stash
      BY <1>2, <1>3, <2>2, Zenon
    <3>3. Through' = pos + 1
      BY <1>2, <3>2 DEF Through
    <3> QED BY <1>2, <1>3, <3>1, <3>2, <3>3, VerificationGoesOn DEF Running
  <2>3. CASE ~passes
    <3>1. Hopeless(list.cmds, dev, stash, stash_map)
      BY <1>0, <1>1, <1>3, <2>1, <2>3, FailingIsHopeless, Zenon DEF passes
    <3>2. pc' = "pbiudone" /\ UNCHANGED stash /\ rc' # 0
      BY <1>1, <1>2, <2>3, Zenon
    <3>3. Hopeless(list'.cmds, dev', stash', stash_map')
      BY <1>2, <3>1, <3>2
    <3>4. pc' \notin Running /\ pc' # "idle"
      BY <3>2 DEF Running
    <3> QED BY <1>2, <1>3, <3>2, <3>3, <3>4, Zenon DEF Predicts, Verification, BetweenCalls, VerifiedUpdate
  <2> QED BY <2>2, <2>3
<1>4. CASE canwrite
  <2>1. UsedMap = <<>>
    BY <1>4, Zenon DEF UsedMap
  <2>2. ASSUME step = "verified" PROVE passes
    BY <1>0, <1>1, <1>4, <2>1, <2>2, PromisedAtOnce, Zenon DEF passes
  <2>3. pc' \in {"free", "seek", "dirsync", "pbiudone"}
    BY <1>2, <1>4, Zenon
  <2>4. ASSUME step = "verified" PROVE AllPromised(list.cmds, dev, Staying', pos + 1)
    <3>1. stash \subseteq Staying'
      BY <1>1, <1>2, <1>4, <2>2, <2>4 DEF Staying
    <3>2. ~Stashable(list.cmds[pos], dev)
      BY <1>0 DEF Copies, Stashable
    <3>3. AllPromised(list.cmds, dev, stash, pos)
      BY <1>1, <1>4, <2>4, Zenon
    <3> HIDE DEF passes
    <3>4. \A id \in stash : id \in Staying' \/ Frees(list.cmds[pos], id)
      BY <3>1, Zenon
    <3>5. \A kept : (\A id \in stash : id \in kept \/ Frees(list.cmds[pos], id)) =>
                       AllPromised(list.cmds, dev, kept, pos + 1)
      BY <1>0, <1>1, <3>2, <3>3, AfterCommand, Zenon
    <3> QED BY <3>4, <3>5, Zenon
  <2>5. pc' # "cmd" /\ pc' # "end" /\ pc' \in Running \cup {"pbiudone"} /\ Coming' = pos + 1
    BY <1>2, <2>3 DEF Coming, Running
  <2>6. ASSUME step' = "verified" PROVE ~isunresumable' /\ AllPromised(list'.cmds, dev', Staying', Coming')
    BY <1>1, <1>2, <2>2, <2>4, <2>5, <2>6, Zenon
  <2>7. Cmd' = Cmd /\ Cmd.op # "stash"
    BY <1>0, <1>2 DEF Cmd, Copies
  <2>8. NothingToFree'
    BY <2>5, <2>7, Zenon DEF NothingToFree
  <2> QED BY <1>2, <1>4, <2>5, <2>6, <2>8, UpdateGoesOn, Zenon
<1> QED BY <1>3, <1>4

LEMMA StashPredicts ==
  ASSUME NoReuse, InstallInv, VerifyInv, Predicts, unreadable = {}, faults' = 0, PerformCommandStash
  PROVE  Predicts'
<1> DEFINE id == list.cmds[pos].srchash
<1>0. pc = "cmd" /\ pos \in DOMAIN list.cmds /\ list.cmds[pos].op = "stash"
  BY Zenon DEF PerformCommandStash, Cmd
<1>1. /\ TypeOK /\ Guaranteed(list.cmds) /\ rc # 0 /\ ~isunresumable /\ bad = {}
      /\ ~canwrite => Knows(list.cmds, dev, stash, stash_map, pos)
      /\ canwrite /\ step = "verified" => AllPromised(list.cmds, dev, stash, pos) /\ freestash = <<>>
  BY <1>0, AtCommand
<1>2. ~Fault("io")
  BY <1>1, FaultCounts, Zenon
<1>3. UNCHANGED <<list, dev, step, canwrite, pos, isunresumable, freestash>>
  BY DEF PerformCommandStash, partition, params
<1>4. (LoadStash(id, TRUE) <=> Loads(dev, stash, UsedMap, id)) /\ StashAfterLoad(id) = stash
  BY <1>1, LoadIs, Zenon
<1>5. CASE LoadStash(id, TRUE) /\ pc' = "end" /\ UNCHANGED <<overlooked, cache, stash_map, rc, cause, faults>>
  <2>1. UNCHANGED <<stash, bad, stash_map>> /\ pc' = "end"
    BY <1>5 DEF cache
  <2>2. CASE ~canwrite
    <3>1. Loads(dev, stash, stash_map, id)
      BY <1>4, <1>5, <2>2, Zenon DEF UsedMap
    <3>2. Knows(list.cmds, dev, stash, stash_map, pos + 1)
      BY <1>0, <1>1, <2>2, <3>1, KnowsAfterStash, Zenon
    <3>3. Through' = pos + 1
      BY <1>3, <2>1 DEF Through
    <3> QED BY <1>1, <1>3, <2>1, <2>2, <3>2, <3>3, VerificationGoesOn DEF Running
  <2>3. CASE canwrite
    <3>1. id \in stash
      BY <1>4, <1>5, <2>3, Zenon DEF LoadStash
    <3>2. ASSUME step = "verified" PROVE AllPromised(list.cmds, dev, stash, pos + 1)
      BY <1>0, <1>1, <2>3, <3>1, <3>2, AfterCommand, Zenon
    <3>3. Coming' = pos + 1 /\ (freestash = <<>> => Staying' = stash) /\ pc' \in Running \cup {"pbiudone"}
      BY <1>3, <2>1 DEF Coming, Staying, Running
    <3>4. ASSUME step' = "verified"
          PROVE  ~isunresumable' /\ AllPromised(list'.cmds, dev', Staying', Coming') /\ freestash' = <<>>
      BY <1>1, <1>3, <2>3, <3>2, <3>3, <3>4, Zenon
    <3> QED BY <1>1, <1>3, <2>1, <2>3, <3>3, <3>4, UpdateGoesOn, Zenon DEF NothingToFree
  <2> QED BY <2>2, <2>3
<1>6. CASE /\ ~LoadStash(id, TRUE) /\ ~canwrite
           /\ stash_map' = [i \in DOMAIN stash_map \cup {id} |->
                              IF i = id THEN list.cmds[pos].src ELSE stash_map[i]]
           /\ pc' = "end" /\ stash' = stash /\ bad' = {}
  <2>1. ~Loads(dev, stash, stash_map, id)
    BY <1>4, <1>6, Zenon DEF UsedMap
  <2>2. Remembers(stash_map, id, list.cmds[pos].src, stash_map')
    BY <1>6, Zenon DEF Remembers
  <2>3. Knows(list.cmds, dev, stash, stash_map', pos + 1)
    BY <1>0, <1>1, <1>6, <2>1, <2>2, KnowsAfterStash, Zenon
  <2>4. Through' = pos + 1
    BY <1>3, <1>6 DEF Through
  <2> QED BY <1>3, <1>6, <2>3, <2>4, VerificationGoesOn DEF Running
<1>7. CASE /\ canwrite /\ pc' \in {"end", "dirsync", "pbiudone"} /\ bad' = {} /\ stash \subseteq stash'
           /\ pc' # "pbiudone" /\ Stashable(list.cmds[pos], dev) => id \in stash'
  <2>1. ASSUME step = "verified", pc' # "pbiudone" PROVE AllPromised(list.cmds, dev, stash', pos + 1)
    <3>1. \A i \in stash : i \in stash' \/ Frees(list.cmds[pos], i)
      BY <1>7, Zenon
    <3>2. \A kept : /\ Stashable(list.cmds[pos], dev) => id \in kept
                    /\ \A i \in stash : i \in kept \/ Frees(list.cmds[pos], i)
                    => AllPromised(list.cmds, dev, kept, pos + 1)
      BY <1>0, <1>1, <1>7, <2>1, AfterCommand, Zenon
    <3> QED BY <1>7, <2>1, <3>1, <3>2, Zenon
  <2>2. Coming' = pos + 1 /\ (freestash = <<>> => Staying' = stash') /\ pc' \in Running \cup {"pbiudone"}
    BY <1>3, <1>7 DEF Coming, Staying, Running
  <2>3. ASSUME step' = "verified"
        PROVE  /\ ~isunresumable' /\ freestash' = <<>>
               /\ pc' \in Running => AllPromised(list'.cmds, dev', Staying', Coming')
    <3>1. pc' \in Running => pc' # "pbiudone"
      BY DEF Running
    <3> QED BY <1>1, <1>3, <1>7, <2>1, <2>2, <2>3, <3>1, Zenon
  <2> QED BY <1>3, <1>7, <2>2, <2>3, UpdateGoesOn, Zenon DEF NothingToFree
<1>8. \/ LoadStash(id, TRUE) /\ pc' = "end" /\ UNCHANGED <<overlooked, cache, stash_map, rc, cause, faults>>
      \/ /\ ~LoadStash(id, TRUE)
         /\ stash_map' = [i \in DOMAIN stash_map \cup {id} |->
                            IF i = id THEN list.cmds[pos].src ELSE stash_map[i]]
         /\ IF [k \in DOMAIN list.cmds[pos].src |-> dev[list.cmds[pos].src[k]]] = id /\ canwrite
            THEN WriteStashDone(stash, id) \/ WriteStashNoSpace(stash, id, FALSE)
            ELSE pc' = "end" /\ stash' = stash /\ bad' = bad \cap stash
  BY <1>2, <1>4, Zenon DEF PerformCommandStash, Cmd, WriteStashError
<1>9. ASSUME WriteStashDone(stash, id) PROVE pc' = "dirsync" /\ stash' = stash \cup {id} /\ bad' = {}
  BY <1>1, <1>9 DEF WriteStashDone
<1>10. ASSUME WriteStashNoSpace(stash, id, FALSE) PROVE pc' = "pbiudone" /\ stash' = stash /\ bad' = {}
  BY <1>1, <1>10 DEF WriteStashNoSpace, Abort
<1>11. Stashable(list.cmds[pos], dev) =>
         [k \in DOMAIN list.cmds[pos].src |-> dev[list.cmds[pos].src[k]]] = id
  BY Zenon DEF Stashable
<1>12. bad \cap stash = {}
  BY <1>1
<1> QED BY <1>5, <1>6, <1>7, <1>8, <1>9, <1>10, <1>11, <1>12, Zenon

LEMMA FreePredicts ==
  ASSUME NoReuse, InstallInv, VerifyInv, Predicts, PerformCommandFree
  PROVE  Predicts'
<1> DEFINE id == list.cmds[pos].srchash
<1>0. pc = "cmd" /\ pos \in DOMAIN list.cmds /\ list.cmds[pos].op = "free"
  BY Zenon DEF PerformCommandFree, Cmd
<1>1. /\ TypeOK /\ Guaranteed(list.cmds) /\ rc # 0 /\ ~isunresumable /\ bad = {}
      /\ ~canwrite => Knows(list.cmds, dev, stash, stash_map, pos)
      /\ canwrite /\ step = "verified" => AllPromised(list.cmds, dev, stash, pos) /\ freestash = <<>>
      /\ ~canwrite => freestash = <<>> /\ (createdstash => stash = {})
  BY <1>0, AtCommand
<1>2. UNCHANGED <<list, dev, step, canwrite, pos, isunresumable, freestash>> /\ pc' = "end"
  BY DEF PerformCommandFree, partition, params
<1>3. (createdstash \/ canwrite => stash' = stash \ {id}) /\ (~createdstash /\ ~canwrite => stash' = stash)
  BY DEF PerformCommandFree, cache, FreeStash, Cmd
<1>4. bad' = {}
  BY <1>1 DEF PerformCommandFree, cache, FreeStash
<1>5. CASE ~canwrite
  <2>1. stash' = stash
    BY <1>1, <1>3, <1>5, Zenon
  <2>2. Forgets(stash_map, id, stash_map')
    BY Zenon DEF Forgets, PerformCommandFree, Cmd
  <2>3. Knows(list.cmds, dev, stash, stash_map', pos + 1)
    BY <1>0, <1>1, <1>5, <2>2, KnowsAfterFree, Zenon
  <2>4. Through' = pos + 1
    BY <1>2 DEF Through
  <2> QED BY <1>2, <1>4, <1>5, <2>1, <2>3, <2>4, VerificationGoesOn DEF Running
<1>6. CASE canwrite
  <2>1. ASSUME step = "verified" PROVE AllPromised(list.cmds, dev, stash \ {id}, pos + 1)
    <3>1. ~Stashable(list.cmds[pos], dev)
      BY <1>0 DEF Stashable
    <3>2. \A i \in stash : i \in stash \ {id} \/ Frees(list.cmds[pos], i)
      BY <1>0 DEF Frees
    <3> QED BY <1>0, <1>1, <1>6, <2>1, <3>1, <3>2, AfterCommand, Zenon
  <2>2. Coming' = pos + 1 /\ (freestash = <<>> => Staying' = stash \ {id}) /\ pc' \in Running \cup {"pbiudone"}
    BY <1>2, <1>3, <1>6 DEF Coming, Staying, Running
  <2>3. ASSUME step' = "verified"
        PROVE  ~isunresumable' /\ AllPromised(list'.cmds, dev', Staying', Coming') /\ freestash' = <<>>
    BY <1>1, <1>2, <1>6, <2>1, <2>2, <2>3, Zenon
  <2> QED BY <1>2, <1>4, <1>6, <2>2, <2>3, UpdateGoesOn, Zenon DEF NothingToFree
<1> QED BY <1>5, <1>6

LEMMA ZeroNewErasePredicts ==
  ASSUME NoReuse, InstallInv, VerifyInv, Predicts, PerformCommandZeroNewErase
  PROVE  Predicts'
<1>0. pc = "cmd" /\ pos \in DOMAIN list.cmds /\ list.cmds[pos].op \in {"zero", "new", "erase"}
  BY Zenon DEF PerformCommandZeroNewErase, Cmd
<1>1. /\ TypeOK /\ Guaranteed(list.cmds) /\ rc # 0 /\ ~isunresumable /\ bad = {}
      /\ ~canwrite => Knows(list.cmds, dev, stash, stash_map, pos)
      /\ canwrite /\ step = "verified" => AllPromised(list.cmds, dev, stash, pos) /\ freestash = <<>>
  BY <1>0, AtCommand
<1>2. /\ UNCHANGED <<list, dev, step, canwrite, pos, isunresumable, freestash, stash, bad, stash_map>>
      /\ pc' = IF canwrite THEN "seek" ELSE "end"
  BY DEF PerformCommandZeroNewErase, partition, cache, process
<1>5. CASE ~canwrite
  <2>3. Knows(list.cmds, dev, stash, stash_map, pos + 1)
    BY <1>0, <1>1, <1>5, KnowsAfterOther, Zenon
  <2>4. Through' = pos + 1
    BY <1>2, <1>5 DEF Through
  <2> QED BY <1>1, <1>2, <1>5, <2>3, <2>4, VerificationGoesOn DEF Running
<1>6. CASE canwrite
  <2>1. ASSUME step = "verified" PROVE AllPromised(list.cmds, dev, stash, pos + 1)
    <3>1. ~Stashable(list.cmds[pos], dev)
      BY <1>0 DEF Stashable
    <3> QED BY <1>0, <1>1, <1>6, <2>1, <3>1, AfterCommand, Zenon
  <2>2. Coming' = pos + 1 /\ (freestash = <<>> => Staying' = stash) /\ pc' \in Running \cup {"pbiudone"}
    BY <1>2, <1>6 DEF Coming, Staying, Running
  <2>3. ASSUME step' = "verified"
        PROVE  ~isunresumable' /\ AllPromised(list'.cmds, dev', Staying', Coming') /\ freestash' = <<>>
    BY <1>1, <1>2, <1>6, <2>1, <2>2, <2>3, Zenon
  <2> QED BY <1>1, <1>2, <1>6, <2>2, <2>3, UpdateGoesOn, Zenon DEF NothingToFree
<1> QED BY <1>5, <1>6

(* The steps of a command after its first. *)
LEMMA InCommand ==
  ASSUME NoReuse, InstallInv, VerifyInv, Predicts, pc \in Running \ {"cmd"}
  PROVE  /\ TypeOK /\ Guaranteed(list.cmds) /\ pos \in DOMAIN list.cmds /\ bad = {}
         /\ ~canwrite => Knows(list.cmds, dev, stash, stash_map, Through) /\ freestash = <<>>
         /\ canwrite /\ step = "verified" => ~isunresumable /\ AllPromised(list.cmds, dev, Staying, pos + 1)
<1>1. TypeOK /\ Guaranteed(list.cmds)
  BY ListGuaranteed DEF InstallInv
<1>2. pc \in Running /\ pc # "cmd" /\ pc \notin {"exited", "idle"}
  BY DEF Running
<1>3. pos \in DOMAIN list.cmds
  BY <1>1, Zenon DEF TypeOK, ControlOK
<1>4. Coming = pos + 1
  BY <1>2, Zenon DEF Coming
<1>5. ~canwrite => Knows(list.cmds, dev, stash, stash_map, Through) /\ freestash = <<>>
  BY <1>2, Zenon DEF Predicts, Verification, VerifyInv
<1> QED BY <1>1, <1>2, <1>3, <1>4, <1>5, Zenon DEF Predicts, VerifiedUpdate

LEMMA SyncPredicts ==
  ASSUME NoReuse, InstallInv, VerifyInv, Predicts, faults' = 0, SyncStashDirectory
  PROVE  Predicts'
<1>1. pc = "dirsync" /\ pc \in Running \ {"cmd"}
  BY DEF SyncStashDirectory, Running
<1>2. /\ TypeOK /\ bad = {}
      /\ canwrite /\ step = "verified" => ~isunresumable /\ AllPromised(list.cmds, dev, Staying, pos + 1)
  BY <1>1, InCommand
<1>3. canwrite
  BY <1>1, <1>2, Zenon DEF TypeOK, ControlOK
<1>4. UNCHANGED <<list, dev, step, canwrite, pos, isunresumable, freestash, stash, bad>>
  BY DEF SyncStashDirectory, partition, process, params
<1>5. pc' = IF Cmd.op = "stash" THEN "end" ELSE "seek"
  BY <1>2, FaultCounts, Zenon DEF SyncStashDirectory
<1>6. Coming' = pos + 1 /\ Staying' = Staying /\ pc' \in Running
  BY <1>4, <1>5 DEF Coming, Staying, Running
<1>7. Cmd' = Cmd
  BY <1>4 DEF Cmd
<1>8. step = "verified" => NothingToFree
  BY <1>3, Zenon DEF Predicts, VerifiedUpdate
<1>9. step = "verified" => NothingToFree'
  BY <1>1, <1>4, <1>5, <1>7, <1>8 DEF NothingToFree
<1>10. step' = "verified" =>
         ~isunresumable' /\ AllPromised(list'.cmds, dev', Staying', Coming') /\ NothingToFree'
  BY <1>2, <1>3, <1>4, <1>6, <1>9, Zenon
<1> QED BY <1>2, <1>3, <1>4, <1>6, <1>10, UpdateGoesOn, Zenon

(* Filling a target changes no other block. *)
LEMMA FillsOwnBlocks ==
  ASSUME TypeOK, SeekToOutputRange \/ WriteBlock, pos \in DOMAIN list.cmds
  PROVE  \A b \in Blocks : b \notin Writes(list.cmds[pos]) => dev'[b] = dev[b]
<1>1. wpos \in DOMAIN Cmd.tgt /\ wpos \in Nat /\ Cmd.tgt \in Seq(Blocks)
  BY CommandType DEF SeekToOutputRange, WriteBlock, TypeOK, ControlOK, ParamsOK, IsCommand
<1> SUFFICES ASSUME NEW b \in Blocks, b \notin Writes(list.cmds[pos]) PROVE dev'[b] = dev[b]
  BY Zenon
<1>2. \A m \in DOMAIN Cmd.tgt : Cmd.tgt[m] # b
  BY DEF Writes, Range, Cmd
<1>3. CASE SeekToOutputRange
  <2>1. \A m \in RangeFrom(Cmd, wpos) : m \in DOMAIN Cmd.tgt
    BY <1>1, FromHere, Zenon DEF RangeFrom
  <2> QED BY <1>2, <1>3, <2>1, Zenon DEF SeekToOutputRange
<1>4. CASE WriteBlock
  <2>1. Cmd.tgt[wpos] # b
    BY <1>1, <1>2, Zenon
  <2>2. PICK x : dev' = [dev EXCEPT ![Cmd.tgt[wpos]] = x]
    BY <1>4 DEF WriteBlock
  <2>3. dev \in [Blocks -> Contents]
    BY DEF TypeOK, PartitionOK
  <2> QED BY <2>1, <2>2, <2>3, Zenon
<1> QED BY <1>3, <1>4, Zenon

LEMMA FillPredicts ==
  ASSUME NoReuse, InstallInv, VerifyInv, Predicts, faults' = 0, SeekToOutputRange \/ WriteBlock
  PROVE  Predicts'
<1>1. pc \in {"seek", "write"} /\ pc \in Running \ {"cmd"}
  BY DEF SeekToOutputRange, WriteBlock, Running
<1>2. /\ TypeOK /\ Guaranteed(list.cmds) /\ pos \in DOMAIN list.cmds /\ bad = {}
      /\ canwrite /\ step = "verified" => ~isunresumable /\ AllPromised(list.cmds, dev, Staying, pos + 1)
  BY <1>1, InCommand
<1>3. canwrite
  BY <1>1, <1>2, Zenon DEF TypeOK, ControlOK
<1>4. UNCHANGED <<list, step, canwrite, pos, isunresumable, freestash, stash, bad>>
  BY DEF SeekToOutputRange, WriteBlock, cache, process
<1>5. pc' \in {"seek", "write", "free"}
  <2>1. ~Fault("io")
    BY <1>2, FaultCounts, Zenon
  <2> QED BY <2>1, Zenon DEF SeekToOutputRange, WriteBlock, Filled
<1>6. Coming' = pos + 1 /\ Staying' = Staying /\ pc' \in Running \cup {"pbiudone"}
  BY <1>4, <1>5 DEF Coming, Staying, Running
<1>7. NothingToFree'
  BY <1>5 DEF NothingToFree
<1>8. ASSUME step = "verified" PROVE AllPromised(list.cmds, dev', Staying, pos + 1)
  <2>1. \A b \in Blocks : b \notin Writes(list.cmds[pos]) => dev'[b] = dev[b]
    BY <1>2, FillsOwnBlocks, Zenon
  <2> QED BY <1>2, <1>3, <1>8, <2>1, WhileFilling, Zenon
<1>9. step' = "verified" => ~isunresumable' /\ AllPromised(list'.cmds, dev', Staying', Coming')
  BY <1>2, <1>3, <1>4, <1>6, <1>8, Zenon
<1> QED BY <1>2, <1>3, <1>4, <1>6, <1>7, <1>9, UpdateGoesOn, Zenon

LEMMA FreeOverlappingPredicts ==
  ASSUME NoReuse, InstallInv, VerifyInv, Predicts, FreeOverlapping
  PROVE  Predicts'
<1>1. pc = "free" /\ pc \in Running \ {"cmd"}
  BY DEF FreeOverlapping, Running
<1>2. /\ TypeOK /\ bad = {}
      /\ ~canwrite => Knows(list.cmds, dev, stash, stash_map, Through) /\ freestash = <<>>
      /\ canwrite /\ step = "verified" => ~isunresumable /\ AllPromised(list.cmds, dev, Staying, pos + 1)
  BY <1>1, InCommand
<1>3. /\ UNCHANGED <<list, dev, step, canwrite, pos, isunresumable, stash_map>>
      /\ pc' = "end" /\ freestash' = <<>>
  BY DEF FreeOverlapping, partition, process
<1>4. stash' = Staying /\ bad' = {}
  BY <1>2 DEF FreeOverlapping, FreeStash, Staying, cache
<1>5. CASE ~canwrite
  <2>1. stash' = stash
    BY <1>2, <1>4, <1>5, Zenon DEF Staying
  <2>2. Through' = Through
    BY <1>1, <1>3 DEF Through
  <2> QED BY <1>2, <1>3, <1>4, <1>5, <2>1, <2>2, VerificationGoesOn DEF Running
<1>6. CASE canwrite
  <2>1. Coming' = pos + 1 /\ Staying' = stash' /\ pc' \in Running \cup {"pbiudone"}
    BY <1>3 DEF Coming, Staying, Running
  <2>2. NothingToFree'
    BY <1>3, Zenon DEF NothingToFree
  <2>3. step' = "verified" => ~isunresumable' /\ AllPromised(list'.cmds, dev', Staying', Coming')
    BY <1>2, <1>3, <1>4, <1>6, <2>1, Zenon
  <2> QED BY <1>3, <1>4, <1>6, <2>1, <2>2, <2>3, UpdateGoesOn, Zenon
<1> QED BY <1>5, <1>6

LEMMA EndCommandPredicts ==
  ASSUME NoReuse, InstallInv, VerifyInv, Predicts, faults' = 0, EndCommand
  PROVE  Predicts'
<1>1. pc = "end" /\ pc \in Running \ {"cmd"}
  BY DEF EndCommand, Running
<1>2. /\ TypeOK /\ bad = {}
      /\ ~canwrite => Knows(list.cmds, dev, stash, stash_map, Through) /\ freestash = <<>>
      /\ canwrite /\ step = "verified" => ~isunresumable /\ AllPromised(list.cmds, dev, Staying, pos + 1)
  BY <1>1, InCommand
<1>3. /\ UNCHANGED <<list, dev, step, canwrite, isunresumable, stash_map, stash, bad, freestash>>
  BY DEF EndCommand, process, cache
<1>4. pc' = "cmd" /\ pos' = pos + 1
  BY <1>2, FaultCounts, Zenon DEF EndCommand
<1>5. CASE ~canwrite
  <2>1. Through' = Through
    BY <1>1, <1>4 DEF Through
  <2> QED BY <1>2, <1>3, <1>4, <1>5, <2>1, VerificationGoesOn DEF Running
<1>6. CASE canwrite
  <2>1. Coming' = pos + 1 /\ Staying' = Staying /\ pc' \in Running \cup {"pbiudone"}
    BY <1>3, <1>4 DEF Coming, Staying, Running
  <2>2. step = "verified" => freestash = <<>>
    BY <1>1, <1>6 DEF Predicts, VerifiedUpdate, NothingToFree
  <2>3. step' = "verified" =>
          ~isunresumable' /\ AllPromised(list'.cmds, dev', Staying', Coming') /\ NothingToFree'
    BY <1>2, <1>3, <1>4, <1>6, <2>1, <2>2, Zenon DEF NothingToFree
  <2> QED BY <1>2, <1>3, <1>6, <2>1, <2>3, UpdateGoesOn, Zenon
<1> QED BY <1>5, <1>6

-----------------------------------------------------------------------------
(* The calls *)

LEMMA CommandsDonePredicts ==
  ASSUME NoReuse, InstallInv, VerifyInv, Predicts, CommandsDone
  PROVE  Predicts'
<1>1. TypeOK /\ Guaranteed(list.cmds)
  BY ListGuaranteed DEF InstallInv
<1>2. /\ UNCHANGED <<list, dev, step, canwrite, isunresumable, stash_map, stash, bad>>
      /\ pc' = (IF canwrite THEN "delete" ELSE "pbiudone") /\ rc' = 0
      /\ pc = "cmd" /\ pos \notin DOMAIN list.cmds
  BY DEF CommandsDone, partition, process, params, cache
<1>3. pc \in Running /\ Through = pos /\ pos \in Nat \ {0}
  BY <1>1, <1>2 DEF Running, Through, TypeOK, ParamsOK
<1>4. pc' \notin Running /\ pc' # "idle" /\ pc' \notin {"cmd", "end", "dirsync"}
  BY <1>2 DEF Running
<1>5. ~isunresumable
  BY <1>3, Zenon DEF InstallInv, ResultEarned
<1>6. ~canwrite => AllPromised(list.cmds, dev, stash, 1)
  BY <1>1, <1>2, <1>3, KnowsAll, Zenon DEF Predicts, Verification
<1>7. Verification'
  BY <1>2, <1>4, <1>5, <1>6, Zenon DEF Verification
<1>8. VerifiedUpdate'
  BY <1>2, <1>4, <1>5, Zenon DEF VerifiedUpdate, NothingToFree
<1>9. bad' = {}
  BY <1>2 DEF Predicts
<1> QED BY <1>4, <1>7, <1>8, <1>9, Zenon DEF Predicts, BetweenCalls

(* A call returns. *)
LEMMA ReturnPredicts ==
  ASSUME Predicts, pc \in {"pbiudone", "delete"}, UNCHANGED <<list, dev, canwrite, isunresumable, stash_map, stash>>,
         bad' = {}, Return(canwrite, rc)
  PROVE  Predicts'
<1>1. pc' \in {"idle", "exited"} /\ (canwrite => pc' = "exited" /\ step' = step)
  BY DEF Return
<1>2. pc' \notin Running /\ pc' \notin {"pbiudone", "delete", "cmd", "end", "dirsync"}
  BY <1>1 DEF Running
<1>3. Verification'
  BY <1>2, Zenon DEF Verification
<1>4. VerifiedUpdate'
  BY <1>1, <1>2, Zenon DEF Predicts, VerifiedUpdate, NothingToFree
<1>5. BetweenCalls'
  <2> SUFFICES ASSUME pc' = "idle" PROVE BetweenCalls'
    BY Zenon DEF BetweenCalls
  <2>1. ~canwrite
    BY <1>1
  <2>2. IF rc = 0 THEN step' = "verified" ELSE step' = "recover"
    BY <2>1 DEF Return
  <2>3. IF rc = 0 THEN AllPromised(list.cmds, dev, stash, 1) ELSE Hopeless(list.cmds, dev, stash, stash_map)
    BY <2>1, Zenon DEF Predicts, Verification
  <2> QED BY <2>2, <2>3 DEF BetweenCalls
<1> QED BY <1>3, <1>4, <1>5, Zenon DEF Predicts

LEMMA PbiudonePredicts ==
  ASSUME NoReuse, InstallInv, VerifyInv, Predicts, Pbiudone
  PROVE  Predicts'
<1>1. UNCHANGED <<list, dev, canwrite, isunresumable, stash_map, stash, bad, rc>> /\ pc = "pbiudone"
  BY DEF Pbiudone, cache, params
<1>2. bad' = {}
  BY <1>1 DEF Predicts
<1>3. CASE Return(canwrite, rc)
  BY <1>1, <1>2, <1>3, ReturnPredicts, Zenon
<1>4. CASE pc' = "delete" /\ UNCHANGED step
  <2>1. pc' \notin Running /\ pc' \notin {"idle", "cmd", "end", "dirsync"}
    BY <1>4 DEF Running
  <2>2. Verification'
    BY <1>1, <1>4, <2>1, Zenon DEF Predicts, Verification
  <2>3. VerifiedUpdate'
    BY <1>1, <1>4, <2>1, Zenon DEF Predicts, VerifiedUpdate, NothingToFree
  <2> QED BY <1>2, <2>1, <2>2, <2>3, Zenon DEF Predicts, BetweenCalls
<1> QED BY <1>3, <1>4, Zenon DEF Pbiudone

LEMMA DeleteStashPredicts ==
  ASSUME NoReuse, InstallInv, VerifyInv, Predicts, DeleteStash
  PROVE  Predicts'
<1>1. UNCHANGED <<list, dev, canwrite, isunresumable, stash_map, rc>> /\ pc = "delete"
  BY DEF DeleteStash, partition, params
<1>2. bad' = {}
  BY DEF DeleteStash, FreeStash, Predicts
<1>3. CASE Return(canwrite, rc) /\ UNCHANGED stash
  BY <1>1, <1>2, <1>3, ReturnPredicts, Zenon
<1>4. CASE canwrite /\ pc' \in {"delete", "pbiudone"} /\ UNCHANGED step
  <2>1. pc' \notin Running /\ pc' \notin {"idle", "cmd", "end", "dirsync"}
    BY <1>4 DEF Running
  <2>2. Verification'
    BY <1>1, <1>4, Zenon DEF Verification
  <2>3. VerifiedUpdate'
    BY <1>1, <1>4, <2>1, Zenon DEF Predicts, VerifiedUpdate, NothingToFree
  <2> QED BY <1>2, <2>1, <2>2, <2>3, Zenon DEF Predicts, BetweenCalls
<1>5. CASE ~canwrite /\ pc' = "delete" /\ stash' \subseteq stash /\ stash # {}
  <2>1. pc' \notin Running /\ pc' # "idle"
    BY <1>5 DEF Running
  <2>2. isunresumable
    BY <1>1, <1>5 DEF VerifyInv
  <2>3. rc # 0 /\ Hopeless(list.cmds, dev, stash, stash_map)
    BY <1>1, <1>5, <2>2, Zenon DEF Predicts, Verification
  <2>4. Hopeless(list.cmds, dev, stash', stash_map)
    BY <1>5, <2>3, DoomedWithFewer, Zenon DEF Hopeless
  <2>5. Verification'
    BY <1>1, <2>1, <2>3, <2>4, Zenon DEF Verification
  <2>6. VerifiedUpdate'
    BY <1>1, <1>5, Zenon DEF VerifiedUpdate
  <2> QED BY <1>2, <2>1, <2>5, <2>6, Zenon DEF Predicts, BetweenCalls
<1>6. \/ pc' = pc /\ step' = step /\ stash' \subseteq stash /\ stash # {}
      \/ stash' = stash /\ IF canwrite /\ rc = 0 THEN pc' = "pbiudone" /\ UNCHANGED step ELSE Return(canwrite, rc)
  BY DEF DeleteStash, FreeStash
<1> QED BY <1>1, <1>3, <1>4, <1>5, <1>6, Zenon

LEMMA StartUpdaterPredicts ==
  ASSUME NoReuse, InstallInv, VerifyInv, Predicts, StartUpdater
  PROVE  Predicts'
<1>1. pc' = "idle" /\ step' = "begin" /\ stash_map' = <<>> /\ bad' = bad
  BY DEF StartUpdater, cache
<1>2. pc' \notin Running /\ pc' \notin {"pbiudone", "delete"}
  BY <1>1 DEF Running
<1>3. step' # "recover" /\ step' # "verified"
  BY <1>1
<1> QED BY <1>1, <1>2, <1>3, Zenon DEF Predicts, Verification, BetweenCalls, VerifiedUpdate

LEMMA VerifyFnPredicts ==
  ASSUME NoReuse, InstallInv, VerifyInv, Predicts, faults' = 0, BlockImageVerifyFn
  PROVE  Predicts'
<1>1. TypeOK /\ Guaranteed(list.cmds)
  BY ListGuaranteed DEF InstallInv
<1>2. /\ pc = "idle" /\ step \in {"begin", "recover"} /\ ~canwrite' /\ pos' = 1
      /\ UNCHANGED <<list, dev, stash_map>>
  BY Zenon DEF BlockImageVerifyFn, PerformBlockImageUpdate, partition
<1>3. ~CannotBegin(TRUE)
  BY <1>1, FaultCounts, Zenon DEF CannotBegin
<1>4. \/ list.total = 0 /\ Return(FALSE, 0) /\ UNCHANGED cache
      \/ CreateStash(TRUE)
  BY <1>3, Zenon DEF BlockImageVerifyFn, PerformBlockImageUpdate
<1>5. stash' = stash /\ bad' = {}
  BY <1>4, Zenon DEF cache, CreateStash, Predicts
<1>6. VerifiedUpdate'
  BY <1>2, Zenon DEF VerifiedUpdate
<1>7. stash_map = <<>> \/ Hopeless(list.cmds, dev, stash, stash_map)
  BY <1>2, Zenon DEF Predicts, BetweenCalls
<1>8. CASE list.total = 0 /\ pc' = "idle" /\ step' = "verified"
  <2>1. pc' \notin Running /\ pc' \notin {"pbiudone", "delete"} /\ step' # "begin" /\ step' # "recover"
    BY <1>8 DEF Running
  <2>2. list'.total = 0
    BY <1>2, <1>8
  <2> QED BY <1>5, <1>6, <2>1, <2>2, Zenon DEF Predicts, Verification, BetweenCalls
<1>9. CASE pc' = "cmd"
  <2>1. Knows(list.cmds, dev, stash, stash_map, 1)
    BY <1>1, <1>7, KnowsAtFirst, Zenon
  <2>2. Through' = 1 /\ pc' \in Running
    BY <1>2, <1>9 DEF Through, Running
  <2> QED BY <1>2, <1>5, <2>1, <2>2, VerificationGoesOn
<1>10. CASE pc' \in {"idle", "exited"} /\ (pc' = "idle" => step' = "recover")
  <2>1. pc' \notin Running /\ pc' \notin {"pbiudone", "delete"}
    BY <1>10 DEF Running
  <2>2. BetweenCalls'
    BY <1>2, <1>5, <1>7, <1>10 DEF BetweenCalls
  <2> QED BY <1>5, <1>6, <2>1, <2>2, Zenon DEF Predicts, Verification
<1>11. \/ list.total = 0 /\ pc' = "idle" /\ step' = "verified"
       \/ pc' = "cmd"
       \/ pc' \in {"idle", "exited"} /\ (pc' = "idle" => step' = "recover")
  BY <1>4 DEF CreateStash, Return
<1> QED BY <1>8, <1>9, <1>10, <1>11

LEMMA UpdateFnPredicts ==
  ASSUME NoReuse, InstallInv, VerifyInv, Predicts, faults' = 0, BlockImageUpdateFn
  PROVE  Predicts'
<1>1. TypeOK
  BY DEF InstallInv
<1>2. /\ pc = "idle" /\ canwrite' /\ pos' = 1 /\ freestash' = <<>> /\ ~isunresumable'
      /\ UNCHANGED <<list, dev, stash_map>>
  BY Zenon DEF BlockImageUpdateFn, PerformBlockImageUpdate, partition
<1>3. ~CannotBegin(FALSE)
  BY <1>1, FaultCounts, Zenon DEF CannotBegin
<1>4. \/ Return(TRUE, 0) /\ UNCHANGED cache
      \/ list.total > 0 /\ CreateStash(FALSE)
  BY <1>3, Zenon DEF BlockImageUpdateFn, PerformBlockImageUpdate
<1>5. stash' = stash /\ bad' = {} /\ step' = step /\ (pc' = "exited" \/ (pc' = "cmd" /\ list.total > 0))
  BY <1>4 DEF cache, CreateStash, Predicts, Return
<1>6. CASE pc' = "exited"
  <2>1. pc' \notin Running /\ pc' \notin {"idle", "cmd", "end", "dirsync"}
    BY <1>6 DEF Running
  <2> QED BY <1>2, <1>5, <2>1, Zenon DEF Predicts, Verification, BetweenCalls, VerifiedUpdate, NothingToFree
<1>7. CASE pc' = "cmd" /\ list.total > 0
  <2>1. pc' \in Running \cup {"pbiudone"} /\ Coming' = 1 /\ Staying' = stash /\ list.total # 0
    BY <1>2, <1>5, <1>7, <1>1 DEF Running, Coming, Staying
  <2>2. step = "verified" => AllPromised(list.cmds, dev, stash, 1)
    BY <1>2, <2>1, Zenon DEF Predicts, BetweenCalls
  <2>3. step' = "verified" => ~isunresumable' /\ AllPromised(list'.cmds, dev', Staying', Coming') /\ NothingToFree'
    BY <1>2, <1>5, <2>1, <2>2, Zenon DEF NothingToFree
  <2> QED BY <1>2, <1>5, <2>1, <2>3, UpdateGoesOn, Zenon
<1> QED BY <1>5, <1>6, <1>7

LEMMA StutterPredicts ==
  ASSUME Predicts, UNCHANGED vars
  PROVE  Predicts'
<1>1. UNCHANGED <<list, dev, stash, bad, pc, step, stash_map, canwrite, freestash, isunresumable, pos, rc>>
  BY DEF vars, partition, cache, process, params
<1>2. Through' = Through /\ Coming' = Coming /\ Staying' = Staying /\ Cmd' = Cmd
  BY <1>1 DEF Through, Coming, Staying, Cmd
<1>3. Verification'
  BY <1>1, <1>2, Zenon DEF Predicts, Verification
<1>4. BetweenCalls'
  BY <1>1, Zenon DEF Predicts, BetweenCalls
<1>5. VerifiedUpdate'
  BY <1>1, <1>2, Zenon DEF Predicts, VerifiedUpdate, NothingToFree
<1> QED BY <1>1, <1>3, <1>4, <1>5, Zenon DEF Predicts

\* Faults are only counted up.
LEMMA NextFaults ==
  ASSUME [Next]_vars, \A f : ~Fault(f)
  PROVE  faults' = faults
<1>1. ~Kill /\ ~PowerLoss /\ ~Rot
  BY Zenon DEF Kill, PowerLoss, Rot
<1>3. CASE Unreadable \/ UNCHANGED vars
  BY <1>3, Zenon DEF vars, Unreadable
<1>4. CASE StartUpdater \/ BlockImageVerifyFn \/ BlockImageUpdateFn \/ CommandsDone \/ DeleteStash \/ Pbiudone
  BY <1>4, Zenon DEF StartUpdater, BlockImageVerifyFn, BlockImageUpdateFn, PerformBlockImageUpdate,
     CannotBegin, CommandsDone, DeleteStash, Pbiudone
<1>5. CASE PerformCommandMove \/ PerformCommandDiff
  BY <1>5, Zenon DEF PerformCommandMove, PerformCommandDiff, LoadSrcTgtVersion3, StashOverlapping,
     Proceed, WriteStashDone, WriteStashNoSpace, WriteStashError, Unresumable
<1>6. CASE Command /\ ~PerformCommandMove /\ ~PerformCommandDiff
  BY <1>6, Zenon DEF Command, PerformCommandStash, WriteStashDone, WriteStashNoSpace, WriteStashError,
     SyncStashDirectory, PerformCommandFree, PerformCommandZeroNewErase, SeekToOutputRange, WriteBlock,
     FreeOverlapping, EndCommand
<1> QED BY <1>1, <1>3, <1>4, <1>5, <1>6, Zenon DEF Next, Updater

LEMMA FaultsStay ==
  ASSUME TypeOK, ReadFaults, [Next]_vars, faults' = 0
  PROVE  faults = 0 /\ unreadable = {} /\ ~Kill /\ ~PowerLoss /\ ~Rot /\ ~Unreadable
<1>1. \A f : ~Fault(f)
  BY FaultCounts, Zenon
<1>2. faults = 0 /\ unreadable = {}
  BY <1>1, NextFaults, Zenon DEF ReadFaults
<1> QED BY <1>1, <1>2, Zenon DEF Kill, PowerLoss, Rot, Unreadable

\* Only Unreadable makes stashes unreadable.
LEMMA ReadingStays ==
  ASSUME [Next]_vars
  PROVE  unreadable' = unreadable \/ Unreadable
<1>1. CASE Command
  BY <1>1, Zenon DEF Command, PerformCommandMove, PerformCommandDiff, LoadSrcTgtVersion3,
     PerformCommandStash, SyncStashDirectory, PerformCommandFree, PerformCommandZeroNewErase,
     SeekToOutputRange, WriteBlock, FreeOverlapping, EndCommand, reading
<1>2. CASE BlockImageVerifyFn \/ BlockImageUpdateFn \/ CommandsDone \/ DeleteStash \/ Pbiudone
  BY <1>2, Zenon DEF BlockImageVerifyFn, BlockImageUpdateFn, PerformBlockImageUpdate, CommandsDone,
     DeleteStash, Pbiudone, reading
<1>3. CASE StartUpdater \/ Kill \/ PowerLoss \/ Rot \/ UNCHANGED vars
  BY <1>3, Zenon DEF StartUpdater, Kill, PowerLoss, Rot, vars, reading
<1> QED BY <1>1, <1>2, <1>3, Zenon DEF Next, Updater

LEMMA ReadFaultsHold == Spec => []ReadFaults
<1>1. Init => ReadFaults
  BY Zenon DEF Init, ReadFaults
<1>2. ASSUME TypeOK, ReadFaults, [Next]_vars
      PROVE  ReadFaults'
  <2>1. faults # 0 => faults' # 0
    <3>1. CASE \A f : ~Fault(f)
      BY <1>2, <3>1, NextFaults, Zenon
    <3>2. CASE ~\A f : ~Fault(f)
      BY <1>2, <3>2, FaultCounts, Zenon
    <3> QED BY <3>1, <3>2, Zenon
  <2>2. CASE unreadable' = unreadable
    BY <1>2, <2>1, <2>2, Zenon DEF ReadFaults
  <2>3. CASE Unreadable
    <3>1. unreadable' = {} \/ Fault("read")
      BY <2>3, Zenon DEF Unreadable
    <3>2. Fault("read") => faults' # 0 /\ "read" \in Faults
      BY <1>2, FaultCounts, Zenon DEF Fault
    <3> QED BY <3>1, <3>2, Zenon DEF ReadFaults
  <2> QED BY <1>2, <2>2, <2>3, ReadingStays, Zenon
<1> QED BY <1>1, <1>2, TypeCorrect, PTL DEF Spec

LEMMA NextPredicts ==
  ASSUME NoReuse, InstallInv, VerifyInv, PredictInv, ReadFaults, [Next]_vars
  PROVE  PredictInv'
<1> SUFFICES ASSUME faults' = 0 PROVE Predicts'
  BY Zenon DEF PredictInv
<1>1. TypeOK
  BY DEF InstallInv
<1>2. faults = 0 /\ unreadable = {} /\ ~Kill /\ ~PowerLoss /\ ~Rot /\ ~Unreadable
  BY <1>1, FaultsStay
<1>3. Predicts
  BY <1>2, Zenon DEF PredictInv
<1>4. CASE Command
  BY <1>2, <1>3, <1>4, CopyPredicts, StashPredicts, SyncPredicts, FreePredicts, ZeroNewErasePredicts, FillPredicts,
     FreeOverlappingPredicts, EndCommandPredicts, Zenon DEF Command
<1>5. CASE StartUpdater \/ BlockImageVerifyFn \/ BlockImageUpdateFn \/ CommandsDone \/ DeleteStash \/ Pbiudone
  BY <1>3, <1>5, StartUpdaterPredicts, VerifyFnPredicts, UpdateFnPredicts, CommandsDonePredicts,
     DeleteStashPredicts, PbiudonePredicts, Zenon
<1>6. CASE UNCHANGED vars
  BY <1>3, <1>6, StutterPredicts
<1> QED BY <1>2, <1>4, <1>5, <1>6, Zenon DEF Next, Updater

LEMMA InitPredicts == Init => PredictInv
<1> SUFFICES ASSUME Init PROVE Predicts
  BY DEF PredictInv
<1>1. pc = "exited" /\ bad = {} /\ canwrite = FALSE
  BY DEF Init
<1>2. pc \notin Running /\ pc \notin {"idle", "pbiudone", "delete"}
  BY <1>1 DEF Running
<1> QED BY <1>1, <1>2, Zenon DEF Predicts, Verification, BetweenCalls, VerifiedUpdate

(* THEOREM: when block_image_verify has returned "t", the block_image_update *)
(* that follows finds the source of every command it does not skip, unless  *)
(* a fault comes in between: for every list that keeps the creator's        *)
(* guarantees and does not need an id again after freeing it, and whatever  *)
(* image and stash files the updater starts from.                           *)
THEOREM VerificationPredicts ==
  ASSUME NoReuse
  PROVE  Spec => []VerifyPredicts
<1>1. Init => VerifyInv
  BY DEF Init, VerifyInv
<1>2. Spec => []VerifyInv
  BY <1>1, NextVerify, TypeCorrect, PTL DEF Spec
<1>3. InstallInv /\ VerifyInv /\ PredictInv /\ ReadFaults /\ [Next]_vars => PredictInv'
  BY NextPredicts
<1>4. Spec => []PredictInv
  BY <1>2, <1>3, InitPredicts, InstallInvariant, ReadFaultsHold, PTL DEF Spec
<1>5. InstallInv /\ PredictInv => VerifyPredicts
  <2>1. ASSUME InstallInv, PredictInv, step = "verified", canwrite, isunresumable PROVE faults > 0
    <3>1. faults # 0
      BY <2>1 DEF PredictInv, Predicts, VerifiedUpdate
    <3>2. faults \in Nat
      BY <2>1, BoundAssumption DEF InstallInv, TypeOK, OutcomeOK, BoundAssumption
    <3> QED BY <3>1, <3>2
  <2> QED BY <2>1 DEF VerifyPredicts
<1> QED BY <1>4, <1>5, InstallInvariant, PTL

-----------------------------------------------------------------------------
(* Induction over the subsets of a finite set *)

INSTANCE FiniteSetTheorems

\* A set of natural numbers that is not empty has a least element.
LEMMA LeastNumber ==
  ASSUME NEW T, T \subseteq Nat, T # {}
  PROVE  \E x \in T : \A y \in T : x =< y
<1> DEFINE R == OpToRel(<, Nat)
<1>1. IsWellFoundedOn(R, Nat)
  BY NatLessThanWellFounded, Zenon
<1>2. \A x, y \in Nat : y < x => <<y, x>> \in R
  BY DEF OpToRel
<1> HIDE DEF R
<1>3. PICK x \in T : \A y \in T : ~(<<y, x>> \in R)
  BY <1>1, WFMin, Zenon
<1>4. \A y \in T : ~(y < x)
  BY <1>2, <1>3, Zenon
<1>5. \A y \in T : x =< y
  BY <1>4
<1> QED BY <1>5

\* What holds of a set when it holds of the set less any one element, holds of every
\* subset of a finite set.
LEMMA SubsetInduction ==
  ASSUME NEW T, IsFiniteSet(T), NEW G,
         \A s \in SUBSET T : (\A x \in s : s \ {x} \in G) => s \in G
  PROVE  SUBSET T \subseteq G
<1> DEFINE Bad == {s \in SUBSET T : s \notin G}
<1> DEFINE N == {Cardinality(s) : s \in Bad}
<1> SUFFICES ASSUME Bad # {} PROVE FALSE
  OBVIOUS
<1>1. \A s \in SUBSET T : IsFiniteSet(s) /\ Cardinality(s) \in Nat
  BY FS_Subset, FS_CardinalityType, Zenon
<1>2. N \subseteq Nat /\ N # {}
  <2>1. \A s \in Bad : Cardinality(s) \in Nat
    BY <1>1, Zenon
  <2> HIDE DEF Bad
  <2> QED BY <2>1
<1>3. PICK n \in N : \A m \in N : n =< m
  BY <1>2, LeastNumber, Zenon
<1>4. PICK s \in Bad : Cardinality(s) = n
  BY <1>3, Zenon
<1>5. PICK x \in s : s \ {x} \notin G
  BY <1>4, Zenon
<1>6. s \ {x} \in Bad
  BY <1>4, <1>5, Zenon
<1>7. Cardinality(s \ {x}) = Cardinality(s) - 1
  BY <1>1, <1>4, <1>5, FS_RemoveElement, Zenon
<1>8. n =< Cardinality(s \ {x})
  <2>1. Cardinality(s \ {x}) \in N
    BY <1>6, Zenon
  <2> QED BY <1>3, <2>1, Zenon
<1>9. n \in Nat
  BY <1>2, <1>3, Zenon
<1> QED BY <1>4, <1>7, <1>8, <1>9, SMTT(15)

-----------------------------------------------------------------------------
(* The size of a set of stash files *)

Pick(s) == CHOOSE x \in s : TRUE

\* The equation of the recursive function in MapThenFoldSet, for the sum of lengths.
Adds(F, T) ==
  F = [s \in SUBSET T |-> IF s = {} THEN 0 ELSE Len(Pick(s)) + F[s \ {Pick(s)}]]

Files(T) == IsFiniteSet(T) /\ \A x \in T : Len(x) \in Nat

LEMMA PickIn ==
  ASSUME NEW T, NEW s \in SUBSET T, s # {}
  PROVE  Pick(s) \in s /\ s \ {Pick(s)} \in SUBSET T
BY Zenon DEF Pick

LEMMA AddsExists ==
  ASSUME NEW T, Files(T)
  PROVE  \E F : Adds(F, T)
<1> DEFINE rhs(f, s) == IF s = {} THEN 0 ELSE Len(Pick(s)) + f[s \ {Pick(s)}]
           Good(f, n) == \A s \in SUBSET T : Cardinality(s) =< n => f[s] = rhs(f, s)
           N == {n \in Nat : ~ \E f \in [SUBSET T -> Nat] : Good(f, n)}
<1>1. \A s \in SUBSET T : IsFiniteSet(s) /\ Cardinality(s) \in Nat
  BY FS_Subset, FS_CardinalityType, Zenon DEF Files
<1>2. \A s \in SUBSET T : s # {} => /\ Cardinality(s) # 0
                                   /\ Cardinality(s \ {Pick(s)}) = Cardinality(s) - 1
                                   /\ s \ {Pick(s)} \in SUBSET T
                                   /\ Len(Pick(s)) \in Nat
  <2> SUFFICES ASSUME NEW s \in SUBSET T, s # {}
               PROVE  /\ Cardinality(s) # 0
                      /\ Cardinality(s \ {Pick(s)}) = Cardinality(s) - 1
                      /\ s \ {Pick(s)} \in SUBSET T
                      /\ Len(Pick(s)) \in Nat
    BY Zenon
  <2>1. Pick(s) \in s /\ s \ {Pick(s)} \in SUBSET T
    BY PickIn, Zenon
  <2>2. Cardinality(s) # 0
    BY <1>1, FS_EmptySet, Zenon
  <2>3. Cardinality(s \ {Pick(s)}) = Cardinality(s) - 1
    BY <1>1, <2>1, FS_RemoveElement, Zenon
  <2>4. Len(Pick(s)) \in Nat
    BY <2>1, Zenon DEF Files
  <2> QED BY <2>1, <2>2, <2>3, <2>4, SMTT(15)
<1>3. N = {}
  <2> SUFFICES ASSUME N # {} PROVE FALSE
    BY Zenon
  <2>0. N \subseteq Nat
    BY Zenon
  <2>1. PICK n \in N : \A m \in N : n =< m
    BY <2>0, LeastNumber, Zenon
  <2>2. n # 0
    <3> DEFINE f == [s \in SUBSET T |-> 0]
    <3>1. ASSUME NEW s \in SUBSET T, Cardinality(s) =< 0 PROVE f[s] = rhs(f, s)
      <4>1. s = {}
        <5>1. Cardinality(s) \in Nat
          BY <1>1, Zenon
        <5>2. Cardinality(s) = 0
          BY <3>1, <5>1
        <5> QED BY <1>2, <5>2, Zenon
      <4> QED BY <4>1, Zenon
    <3>2. f \in [SUBSET T -> Nat]
      OBVIOUS
    <3>3. Good(f, 0)
      BY <3>1, Zenon
    <3>4. \E e \in [SUBSET T -> Nat] : Good(e, 0)
      BY <3>2, <3>3, Zenon
    <3> HIDE DEF Good
    <3> QED BY <3>4, <2>1, Zenon
  <2>3. n - 1 \in Nat /\ ~(n =< n - 1)
    BY <2>0, <2>1, <2>2
  <2>4. PICK f \in [SUBSET T -> Nat] : Good(f, n - 1)
    BY <2>1, <2>3, Zenon
  <2> DEFINE g == [s \in SUBSET T |-> rhs(f, s)]
  <2>5. g \in [SUBSET T -> Nat]
    <3>1. ASSUME NEW s \in SUBSET T PROVE rhs(f, s) \in Nat
      BY <1>2
    <3> QED BY <3>1, Zenon
  <2>6. ASSUME NEW s \in SUBSET T, Cardinality(s) =< n PROVE g[s] = rhs(g, s)
    <3>1. CASE s = {}
      BY <3>1, Zenon
    <3>2. CASE s # {}
      <4> DEFINE t == s \ {Pick(s)}
      <4>1. t \in SUBSET T /\ Cardinality(t) = Cardinality(s) - 1
        BY <1>2, <3>2, Zenon
      <4>2. Cardinality(t) =< n - 1
        <5>1. Cardinality(s) \in Nat /\ n \in Nat
          BY <1>1, <2>0, <2>1, Zenon
        <5> HIDE DEF t
        <5> QED BY <2>6, <4>1, <5>1, SMTT(15)
      <4>3. f[t] = rhs(f, t)
        BY <2>4, <4>1, <4>2, Zenon
      <4>4. g[t] = f[t]
        BY <4>1, <4>3, Zenon
      <4>5. g[s] = Len(Pick(s)) + f[t]
        BY <3>2, Zenon
      <4> QED BY <3>2, <4>4, <4>5, Zenon
    <3> QED BY <3>1, <3>2
  <2>7. Good(g, n)
    BY <2>6, Zenon
  <2> QED BY <2>1, <2>5, <2>7, Zenon
<1>4. Cardinality(T) \in Nat /\ \A s \in SUBSET T : Cardinality(s) =< Cardinality(T)
  BY FS_Subset, FS_CardinalityType, Zenon DEF Files
<1>5. PICK f \in [SUBSET T -> Nat] : Good(f, Cardinality(T))
  BY <1>3, <1>4, Zenon
<1>6. \A s \in SUBSET T : f[s] = rhs(f, s)
  BY <1>4, <1>5, Zenon
<1>7. f = [s \in SUBSET T |-> rhs(f, s)]
  BY <1>6, Zenon
<1> QED BY <1>7, Zenon DEF Adds

\* The choice does not matter, nor the set that the function is for.
LEMMA AddsUnique ==
  ASSUME NEW T, NEW U, Files(T), U \in SUBSET T, NEW F, NEW H, Adds(F, T), Adds(H, U)
  PROVE  \A s \in SUBSET U : H[s] = F[s] /\ H[s] \in Nat
<1> DEFINE G == {s \in SUBSET U : H[s] = F[s] /\ H[s] \in Nat}
<1>1. IsFiniteSet(U)
  BY FS_Subset, Zenon DEF Files
<1>2. ASSUME NEW s \in SUBSET U, \A x \in s : s \ {x} \in G PROVE s \in G
  <2>0. s \in SUBSET T
    OBVIOUS
  <2>1. /\ H[s] = IF s = {} THEN 0 ELSE Len(Pick(s)) + H[s \ {Pick(s)}]
        /\ F[s] = IF s = {} THEN 0 ELSE Len(Pick(s)) + F[s \ {Pick(s)}]
    BY <2>0, Zenon DEF Adds
  <2>2. CASE s = {}
    BY <2>1, <2>2, SMTT(15)
  <2>3. CASE s # {}
    <3>1. Pick(s) \in s
      BY <2>3, PickIn, Zenon
    <3>2. Len(Pick(s)) \in Nat
      BY <2>0, <3>1, Zenon DEF Files
    <3>3. H[s \ {Pick(s)}] = F[s \ {Pick(s)}] /\ H[s \ {Pick(s)}] \in Nat
      BY <1>2, <3>1, Zenon
    <3> QED BY <2>1, <2>3, <3>2, <3>3, SMTT(15)
  <2> QED BY <2>2, <2>3
<1>3. SUBSET U \subseteq G
  <2>1. \A s \in SUBSET U : (\A x \in s : s \ {x} \in G) => s \in G
    BY <1>2, Zenon
  <2> HIDE DEF G
  <2> QED BY <1>1, <2>1, SubsetInduction, Zenon
<1> QED BY <1>3, Zenon

LEMMA SizeAdds ==
  ASSUME NEW T, Files(T)
  PROVE  \E F : Adds(F, T) /\ Size(T) = F[T]
<1> DEFINE F == CHOOSE F : Adds(F, T)
<1>1. Adds(F, T)
  BY AddsExists, Zenon
<1>2. Size(T) = F[T]
  BY Zenon DEF Size, MapThenSumSet, MapThenFoldSet, Adds, Pick
<1> QED BY <1>1, <1>2, Zenon

LEMMA SizeOfSubset ==
  ASSUME NEW T, Files(T), NEW F, Adds(F, T), NEW s \in SUBSET T
  PROVE  Size(s) = F[s] /\ Size(s) \in Nat
<1>1. Files(s)
  BY FS_Subset, Zenon DEF Files
<1>2. PICK H : Adds(H, s) /\ Size(s) = H[s]
  BY <1>1, SizeAdds, Zenon
<1>3. H[s] = F[s] /\ H[s] \in Nat
  BY <1>2, AddsUnique, Zenon
<1> QED BY <1>2, <1>3, Zenon

LEMMA SizeUnfolds ==
  ASSUME NEW T, Files(T)
  PROVE  /\ Size(T) \in Nat
         /\ T = {} => Size(T) = 0
         /\ T # {} => /\ Pick(T) \in T
                      /\ Size(T) = Len(Pick(T)) + Size(T \ {Pick(T)})
<1>1. PICK F : Adds(F, T)
  BY AddsExists, Zenon
<1>2. T \in SUBSET T
  OBVIOUS
<1>3. F[T] = IF T = {} THEN 0 ELSE Len(Pick(T)) + F[T \ {Pick(T)}]
  BY <1>1, <1>2, Zenon DEF Adds
<1>4. Size(T) = F[T] /\ Size(T) \in Nat
  BY <1>1, <1>2, SizeOfSubset, Zenon
<1>5. T # {} => Pick(T) \in T /\ Size(T \ {Pick(T)}) = F[T \ {Pick(T)}]
  BY <1>1, <1>2, PickIn, SizeOfSubset, Zenon
<1> QED BY <1>3, <1>4, <1>5, Zenon

\* One file less.
LEMMA SizeWithout ==
  ASSUME NEW T, Files(T)
  PROVE  \A s \in SUBSET T : \A x \in s : Size(s) = Len(x) + Size(s \ {x})
<1> DEFINE G == {s \in SUBSET T : \A x \in s : Size(s) = Len(x) + Size(s \ {x})}
<1>0. \A s \in SUBSET T : Files(s) /\ \A x \in s : Len(x) \in Nat
  BY FS_Subset, Zenon DEF Files
<1>1. ASSUME NEW s \in SUBSET T, \A x \in s : s \ {x} \in G, NEW x \in s
      PROVE  Size(s) = Len(x) + Size(s \ {x})
  <2> DEFINE y == Pick(s)
  <2>1. y \in s /\ Size(s) = Len(y) + Size(s \ {y})
    BY <1>0, SizeUnfolds, Zenon
  <2> HIDE DEF y
  <2>2. CASE x = y
    BY <2>1, <2>2, Zenon
  <2>3. CASE x # y
    <3> DEFINE u == (s \ {x}) \ {y}
    <3>1. (s \ {y}) \ {x} = u
      OBVIOUS
    <3>2. Size(s \ {y}) = Len(x) + Size(u)
      BY <1>1, <2>1, <2>3, <3>1, Zenon
    <3>3. Size(s \ {x}) = Len(y) + Size(u)
      BY <1>1, <2>1, <2>3, Zenon
    <3>4. Len(x) \in Nat /\ Len(y) \in Nat
      BY <1>0, <2>1, Zenon
    <3>5. Size(u) \in Nat
      <4>1. u \in SUBSET T
        OBVIOUS
      <4> QED BY <1>0, <4>1, SizeUnfolds, Zenon
    <3> HIDE DEF u
    <3> QED BY <2>1, <3>2, <3>3, <3>4, <3>5, SMTT(15)
  <2> QED BY <2>2, <2>3
<1>2. SUBSET T \subseteq G
  <2>1. \A s \in SUBSET T : (\A x \in s : s \ {x} \in G) => s \in G
    BY <1>1, Zenon
  <2> HIDE DEF G
  <2> QED BY <2>1, SubsetInduction, Zenon DEF Files
<1> QED BY <1>2, Zenon

\* More files take no less room.
LEMMA SizeMonotone ==
  ASSUME NEW T, Files(T), NEW U \in SUBSET T
  PROVE  Size(U) \in Nat /\ Size(T) \in Nat /\ Size(U) =< Size(T)
<1> DEFINE G == {s \in SUBSET T : U \subseteq s => Size(U) =< Size(s)}
<1>0. \A s \in SUBSET T : Size(s) \in Nat /\ \A x \in s : Len(x) \in Nat
  BY FS_Subset, SizeUnfolds, Zenon DEF Files
<1>1. ASSUME NEW s \in SUBSET T, \A x \in s : s \ {x} \in G, U \subseteq s
      PROVE  Size(U) =< Size(s)
  <2>1. CASE s = U
    BY <1>0, <2>1, SMTT(15)
  <2>2. CASE s # U
    <3>1. PICK x \in s : x \notin U
      BY <1>1, <2>2, Zenon
    <3>2. U \subseteq s \ {x}
      BY <1>1, <3>1, SMTT(15)
    <3>3. Size(U) =< Size(s \ {x})
      BY <1>1, <3>2, Zenon
    <3>4. Size(s) = Len(x) + Size(s \ {x})
      BY SizeWithout, Zenon
    <3>5. s \ {x} \in SUBSET T
      OBVIOUS
    <3>6. Size(U) \in Nat /\ Size(s \ {x}) \in Nat /\ Len(x) \in Nat
      BY <1>0, <3>5, Zenon
    <3> QED BY <3>3, <3>4, <3>6, SMTT(15)
  <2> QED BY <2>1, <2>2, SMTT(15)
<1>2. SUBSET T \subseteq G
  <2>1. \A s \in SUBSET T : (\A x \in s : s \ {x} \in G) => s \in G
    BY <1>1, Zenon
  <2> HIDE DEF G
  <2> QED BY <2>1, SubsetInduction, Zenon DEF Files
<1>3. T \in G
  BY <1>2
<1> QED BY <1>0, <1>3, Zenon

-----------------------------------------------------------------------------
(* Room for the stashes *)

LEMMA StashIdsType ==
  ASSUME TypeOK
  PROVE  IsFiniteSet(StashIds) /\ StashIds \subseteq Seq(Contents)
<1> DEFINE Places == DOMAIN list.cmds
           h == [i \in Places |-> list.cmds[i].srchash]
           All == {list.cmds[i].srchash : i \in Places}
<1>1. \A i \in Places : IsCommand(list.cmds[i])
  BY ListAssumption, Zenon DEF ListAssumption, TypeOK, PartitionOK, IsTransferList
<1>2. IsFiniteSet(Places)
  <2>1. Len(list.cmds) \in Nat /\ Places = 1 .. Len(list.cmds)
    BY Indices, Zenon
  <2>2. Len(list.cmds) \in Int /\ 1 \in Int
    BY <2>1
  <2>3. IsFiniteSet(1 .. Len(list.cmds))
    BY <2>2, FS_Interval, Zenon
  <2> QED BY <2>1, <2>3, Zenon
<1>3. h \in Surjection(Places, All)
  BY Zenon DEF Surjection
<1>4. IsFiniteSet(All)
  <2> HIDE DEF Places, h, All
  <2> QED BY <1>2, <1>3, FS_Surjection, Zenon
<1>5. StashIds \in SUBSET All
  BY Zenon DEF StashIds, Range
<1>6. All \subseteq Seq(Contents)
  BY <1>1, Zenon DEF IsCommand
<1>7. IsFiniteSet(StashIds)
  BY <1>4, <1>5, FS_Subset, Zenon
<1> QED BY <1>5, <1>6, <1>7, Zenon

LEMMA AllFiles ==
  ASSUME TypeOK, NEW files \in InitialStashes
  PROVE  Files(files \cup StashIds)
<1>1. IsFiniteSet(files) /\ files \subseteq Seq(Contents)
  BY StashAssumption, DataAssumption, Zenon DEF StashAssumption, DataAssumption
<1>2. IsFiniteSet(files \cup StashIds)
  BY <1>1, StashIdsType, FS_Union, Zenon
<1>3. ASSUME NEW x \in Seq(Contents) PROVE Len(x) \in Nat
  OBVIOUS
<1> QED BY <1>1, <1>2, <1>3, StashIdsType, Zenon DEF Files

\* There is room for a file that the list makes and that is not there.
LEMMA RoomForStash ==
  ASSUME TypeOK, SpaceInv, RoomForAll, partial = {},
         NEW files, files \subseteq stash, NEW id \in StashIds, id \notin files
  PROVE  CacheSizeCheck(files, Len(id))
<1>1. PICK first \in InitialStashes : stash \cup stashDisk \subseteq first \cup StashIds
  BY Zenon DEF SpaceInv
<1> DEFINE all == first \cup StashIds
           with == files \cup {id}
<1>2. Files(all)
  BY AllFiles, Zenon
<1>3. with \in SUBSET all /\ files \in SUBSET all /\ id \in with /\ with \ {id} = files
  BY <1>1
<1>4. Size(all) =< CacheBlocks
  BY Zenon DEF RoomForAll
<1>5. Size(partial) = 0
  <2>1. Files({})
    BY FS_EmptySet, Zenon DEF Files
  <2> QED BY <2>1, SizeUnfolds, Zenon
<1> HIDE DEF all, with
<1>6. Size(with) = Len(id) + Size(files)
  BY <1>2, <1>3, SizeWithout, Zenon
<1>7. Size(with) \in Nat /\ Size(all) \in Nat /\ Size(with) =< Size(all) /\ Size(files) \in Nat
  BY <1>2, <1>3, SizeMonotone, Zenon
<1>8. Len(id) \in Nat /\ CacheBlocks \in Nat
  BY StashIdsType, BoundAssumption DEF BoundAssumption
<1> QED BY <1>4, <1>5, <1>6, <1>7, <1>8, SMTT(15) DEF CacheSizeCheck

\* There is room for the source of an overlapping command, be it stashed or not, and
\* for a stash that may be there and unreadable.
LEMMA RoomForAnother ==
  ASSUME TypeOK, SpaceInv, RoomForAll, partial = {}, NEW files, files \subseteq stash,
         NEW c \in Range(list.cmds),
         (Copies(c) /\ Overlap(c)) \/ (c.op = "stash" /\ "read" \in Faults)
  PROVE  CacheSizeCheck(files, Len(c.srchash))
<1>1. PICK first \in InitialStashes : stash \cup stashDisk \subseteq first \cup StashIds
  BY Zenon DEF SpaceInv
<1> DEFINE all == first \cup StashIds
<1>2. Files(all)
  BY AllFiles, Zenon
<1>3. files \in SUBSET all
  BY <1>1
<1>4. Size(all) + Len(c.srchash) =< CacheBlocks
  BY Zenon DEF RoomForAll
<1>5. Size(partial) = 0
  <2>1. Files({})
    BY FS_EmptySet, Zenon DEF Files
  <2> QED BY <2>1, SizeUnfolds, Zenon
<1>6. c.srchash \in StashIds
  BY Zenon DEF StashIds
<1> HIDE DEF all
<1>7. Size(files) \in Nat /\ Size(all) \in Nat /\ Size(files) =< Size(all)
  BY <1>2, <1>3, SizeMonotone, Zenon
<1>8. Len(c.srchash) \in Nat /\ CacheBlocks \in Nat
  BY <1>6, StashIdsType, BoundAssumption DEF BoundAssumption
<1> QED BY <1>4, <1>5, <1>7, <1>8, SMTT(15) DEF CacheSizeCheck

\* What a step must keep to for the invariant to hold after it.
KeepsRoom ==
  /\ list' = list
  /\ stash' \cup stashDisk' \subseteq stash \cup stashDisk \cup StashIds
  /\ pc' \in Running => partial' = {}
  /\ RoomForAll /\ pc' \notin {"exited", "idle"} => cause' # "space"

LEMMA KeepsSpaceInv ==
  ASSUME SpaceInv, KeepsRoom
  PROVE  SpaceInv'
<1>1. StashIds' = StashIds
  BY Zenon DEF KeepsRoom, StashIds
<1>2. RoomForAll' => RoomForAll
  BY <1>1, Zenon DEF KeepsRoom, RoomForAll
<1>3. \E files \in InitialStashes : stash' \cup stashDisk' \subseteq files \cup StashIds
  BY DEF KeepsRoom, SpaceInv
<1> QED BY <1>1, <1>2, <1>3, Zenon DEF KeepsRoom, SpaceInv

\* The command at hand makes its stash.
LEMMA CommandsStash ==
  ASSUME pos \in DOMAIN list.cmds, Cmd.op = "stash" \/ (Copies(Cmd) /\ Overlap(Cmd))
  PROVE  Cmd \in Range(list.cmds) /\ Cmd.srchash \in StashIds
<1>1. Cmd \in Range(list.cmds)
  BY Zenon DEF Cmd, Range
<1> QED BY <1>1, Zenon DEF StashIds

LEMMA CopyKeepsRoom ==
  ASSUME TypeOK, SpaceInv, PerformCommandMove \/ PerformCommandDiff
  PROVE  KeepsRoom
<1>1. /\ pc = "cmd" /\ pos \in DOMAIN list.cmds /\ Copies(Cmd) /\ LoadSrcTgtVersion3(Cmd)
      /\ list' = list
  BY Zenon DEF PerformCommandMove, PerformCommandDiff, Copies, LoadSrcTgtVersion3
<1>2. partial = {} /\ (RoomForAll => cause # "space")
  BY <1>1 DEF SpaceInv, Running
<1>3. ASSUME Overlap(Cmd), StashOverlapping(Cmd.srchash)
      PROVE  KeepsRoom
  <2>1. Cmd \in Range(list.cmds) /\ Cmd.srchash \in StashIds
    BY <1>1, <1>3, CommandsStash, Zenon
  <2>2. CASE Proceed
    BY <1>1, <1>2, <2>2, Zenon DEF Proceed, cache, KeepsRoom
  <2>3. CASE WriteStashDone(stash, Cmd.srchash)
    BY <1>1, <1>2, <2>1, <2>3, SMTT(15) DEF WriteStashDone, KeepsRoom
  <2>4. CASE WriteStashNoSpace(stash, Cmd.srchash, TRUE)
    <3>1. ~RoomForAll
      BY <1>1, <1>2, <1>3, <2>1, <2>4, RoomForAnother, Zenon DEF WriteStashNoSpace
    <3>2. pc' = "pbiudone" /\ stash' = stash /\ stashDisk' = stashDisk
      BY <2>4, Zenon DEF WriteStashNoSpace, Abort
    <3> QED BY <1>1, <3>1, <3>2 DEF KeepsRoom, Running
  <2>5. CASE WriteStashError(stash, Cmd.srchash)
    <3>1. pc' = "pbiudone" /\ cause' = "io" /\ stash' = stash /\ stashDisk' = stashDisk
      BY <2>5, Zenon DEF WriteStashError, Abort
    <3> QED BY <1>1, <3>1, SMTT(15) DEF KeepsRoom, Running
  <2> QED BY <1>3, <2>2, <2>3, <2>4, <2>5, Zenon DEF StashOverlapping
<1>4. ASSUME UNCHANGED cache, cause' = cause \/ cause' = "io"
      PROVE  KeepsRoom
  <2>1. stash' = stash /\ stashDisk' = stashDisk /\ partial' = partial
    BY <1>4, Zenon DEF cache
  <2> QED BY <1>1, <1>2, <1>4, <2>1, SMTT(15) DEF KeepsRoom
<1>5. CASE Unresumable(Cmd)
  <2>1. /\ pc' = "pbiudone" /\ cause' = "source" /\ stashDisk' = stashDisk
        /\ stash' = stash \/ stash' = StashAfterLoad(Cmd.srchash)
    BY <1>5, Zenon DEF Unresumable, Abort
  <2>2. stash' \subseteq stash
    BY <2>1 DEF StashAfterLoad
  <2> QED BY <1>1, <2>1, <2>2, SMTT(15) DEF KeepsRoom, Running
<1>6. CASE Proceed
  BY <1>4, <1>6, Zenon DEF Proceed
<1>7. CASE Abort("io") /\ UNCHANGED cache
  BY <1>4, <1>7, Zenon DEF Abort
<1>8. CASE UNCHANGED <<cache, cause>>
  BY <1>4, <1>8, Zenon
<1> QED BY <1>1, <1>3, <1>5, <1>6, <1>7, <1>8, Zenon DEF LoadSrcTgtVersion3

LEMMA StashKeepsRoom ==
  ASSUME TypeOK, SpaceInv, ReadFaults, PerformCommandStash
  PROVE  KeepsRoom
<1> DEFINE id == Cmd.srchash
           files == StashAfterLoad(id)
<1>1. pc = "cmd" /\ pos \in DOMAIN list.cmds /\ Cmd.op = "stash" /\ list' = list
  BY Zenon DEF PerformCommandStash
<1>2. partial = {} /\ (RoomForAll => cause # "space")
  BY <1>1 DEF SpaceInv, Running
<1>3. id \in StashIds /\ Cmd \in Range(list.cmds)
  BY <1>1, CommandsStash, Zenon
<1>4. files \subseteq stash
  BY DEF StashAfterLoad
<1>5. canwrite /\ ~LoadStash(id, TRUE) => id \notin files \/ "read" \in Faults
  BY Zenon DEF LoadStash, StashAfterLoad, ReadFaults
<1>6. \/ UNCHANGED cache /\ (cause' = cause \/ cause' = "io")
      \/ /\ canwrite /\ ~LoadStash(id, TRUE)
         /\ WriteStashDone(files, id) \/ WriteStashNoSpace(files, id, FALSE) \/ WriteStashError(files, id)
      \/ stash' = files /\ UNCHANGED <<stashDisk, partial, cause>>
  BY Zenon DEF PerformCommandStash, Abort
<1> HIDE DEF id, files
<1>7. CASE UNCHANGED cache /\ (cause' = cause \/ cause' = "io")
  <2>1. stash' = stash /\ stashDisk' = stashDisk /\ partial' = partial
    BY <1>7, Zenon DEF cache
  <2> QED BY <1>1, <1>2, <1>7, <2>1, SMTT(15) DEF KeepsRoom
<1>8. CASE WriteStashDone(files, id)
  BY <1>1, <1>2, <1>3, <1>4, <1>8, SMTT(15) DEF WriteStashDone, KeepsRoom
<1>9. CASE canwrite /\ ~LoadStash(id, TRUE) /\ WriteStashNoSpace(files, id, FALSE)
  <2>1. ~RoomForAll
    <3>1. ~CacheSizeCheck(files, Len(id))
      BY <1>9, Zenon DEF WriteStashNoSpace
    <3>2. CASE id \notin files
      BY <1>2, <1>3, <1>4, <3>1, <3>2, RoomForStash, Zenon
    <3>3. CASE "read" \in Faults
      BY <1>1, <1>2, <1>3, <1>4, <3>1, <3>3, RoomForAnother, Zenon DEF id
    <3> QED BY <1>5, <1>9, <3>2, <3>3, Zenon
  <2>2. pc' = "pbiudone" /\ stash' = files /\ stashDisk' = stashDisk
    BY <1>9, Zenon DEF WriteStashNoSpace, Abort
  <2> QED BY <1>1, <1>4, <2>1, <2>2, SMTT(15) DEF KeepsRoom, Running
<1>10. CASE WriteStashError(files, id)
  <2>1. pc' = "pbiudone" /\ cause' = "io" /\ stash' = files /\ stashDisk' = stashDisk
    BY <1>10, Zenon DEF WriteStashError, Abort
  <2> QED BY <1>1, <1>4, <2>1, SMTT(15) DEF KeepsRoom, Running
<1>11. CASE stash' = files /\ UNCHANGED <<stashDisk, partial, cause>>
  BY <1>1, <1>2, <1>4, <1>11, SMTT(15) DEF KeepsRoom
<1> QED BY <1>6, <1>7, <1>8, <1>9, <1>10, <1>11, Zenon

\* The steps of a call that make no stash file.
LEMMA CallKeepsRoom ==
  ASSUME TypeOK, SpaceInv,
         \/ SyncStashDirectory \/ PerformCommandFree \/ PerformCommandZeroNewErase
         \/ SeekToOutputRange \/ WriteBlock \/ FreeOverlapping \/ EndCommand
         \/ CommandsDone
  PROVE  KeepsRoom
<1>1. pc \in Running
  BY DEF SyncStashDirectory, PerformCommandFree, PerformCommandZeroNewErase, SeekToOutputRange,
     WriteBlock, FreeOverlapping, EndCommand, CommandsDone, Running
<1>2. partial = {} /\ (RoomForAll => cause # "space")
  BY <1>1, SMTT(15) DEF SpaceInv, Running
<1>3. list' = list /\ (cause' = cause \/ cause' = "io") /\ partial' = partial
  BY Zenon DEF SyncStashDirectory, PerformCommandFree, PerformCommandZeroNewErase, SeekToOutputRange,
     WriteBlock, FreeOverlapping, EndCommand, CommandsDone, cache, FreeStash, Abort
<1>4. \/ stash' = stash /\ (stashDisk' = stashDisk \/ stashDisk' = stash)
      \/ stashDisk' = stashDisk /\ \E id : stash' = stash \ {id}
  BY Zenon DEF SyncStashDirectory, PerformCommandFree, PerformCommandZeroNewErase, SeekToOutputRange,
     WriteBlock, FreeOverlapping, EndCommand, CommandsDone, cache, FreeStash
<1>5. stash' \cup stashDisk' \subseteq stash \cup stashDisk
  BY <1>4
<1> QED BY <1>2, <1>3, <1>5, SMTT(15) DEF KeepsRoom

\* Where PerformBlockImageUpdate returns to.
LEMMA ReturnsOutside ==
  ASSUME NEW write, NEW code, Return(write, code)
  PROVE  pc' \in {"exited", "idle"}
BY DEF Return

LEMMA BeginKeepsRoom ==
  ASSUME TypeOK, SpaceInv, NEW dryrun, PerformBlockImageUpdate(dryrun)
  PROVE  KeepsRoom
<1>1. list' = list
  BY Zenon DEF PerformBlockImageUpdate
<1>2. stash' = stash /\ stashDisk' = stashDisk
  BY Zenon DEF PerformBlockImageUpdate, CreateStash, CannotBegin, cache
<1>3. pc' \in {"exited", "idle"} \/ (partial' = {} /\ cause' = "none")
  BY ReturnsOutside, Zenon DEF PerformBlockImageUpdate, CreateStash, CannotBegin
<1> QED BY <1>1, <1>2, <1>3, SMTT(15) DEF KeepsRoom, Running

LEMMA EndKeepsRoom ==
  ASSUME TypeOK, SpaceInv, DeleteStash \/ Pbiudone
  PROVE  KeepsRoom
<1>1. list' = list /\ cause' = cause /\ stashDisk' = stashDisk /\ pc \in {"delete", "pbiudone"}
  BY Zenon DEF DeleteStash, Pbiudone, cache, FreeStash
<1>2. stash' = stash \/ \E id : stash' = stash \ {id}
  BY Zenon DEF DeleteStash, Pbiudone, cache, FreeStash
<1>3. pc' \in {"exited", "idle", "delete", "pbiudone"}
  BY ReturnsOutside, Zenon DEF DeleteStash, Pbiudone
<1>4. RoomForAll => cause # "space"
  BY <1>1 DEF SpaceInv
<1> QED BY <1>1, <1>2, <1>3, <1>4, SMTT(15) DEF KeepsRoom, Running

LEMMA OutsideKeepsRoom ==
  ASSUME TypeOK, SpaceInv, StartUpdater \/ Kill \/ PowerLoss
  PROVE  KeepsRoom
<1>1. list' = list /\ pc' \in {"exited", "idle"}
  BY Zenon DEF StartUpdater, Kill, PowerLoss
<1>2. stash' \cup stashDisk' \subseteq stash \cup stashDisk
  <2>1. CASE StartUpdater \/ Kill
    BY <2>1, Zenon DEF StartUpdater, Kill, cache
  <2>2. CASE PowerLoss
    <3>1. stash' \subseteq stash \cup stashDisk /\ stashDisk' = stash'
      BY <2>2, Zenon DEF PowerLoss
    <3> QED BY <3>1
  <2> QED BY <2>1, <2>2, SMTT(15)
<1> QED BY <1>1, <1>2, SMTT(15) DEF KeepsRoom, Running

LEMMA StutterKeepsRoom ==
  ASSUME SpaceInv, Rot \/ Unreadable \/ UNCHANGED vars
  PROVE  KeepsRoom
<1>1. list' = list /\ pc' = pc /\ cause' = cause /\ stash' = stash /\ stashDisk' = stashDisk /\ partial' = partial
  BY Zenon DEF Rot, Unreadable, vars, cache
<1> QED BY <1>1 DEF KeepsRoom, SpaceInv

LEMMA NextSpace == TypeOK /\ SpaceInv /\ ReadFaults /\ [Next]_vars => SpaceInv'
<1> SUFFICES ASSUME TypeOK, SpaceInv, ReadFaults, [Next]_vars PROVE KeepsRoom
  BY KeepsSpaceInv, Zenon
<1>1. CASE Command \/ CommandsDone
  BY <1>1, CopyKeepsRoom, StashKeepsRoom, CallKeepsRoom, Zenon DEF Command
<1>2. CASE BlockImageVerifyFn \/ BlockImageUpdateFn
  BY <1>2, BeginKeepsRoom, Zenon DEF BlockImageVerifyFn, BlockImageUpdateFn
<1>3. CASE DeleteStash \/ Pbiudone
  BY <1>3, EndKeepsRoom, Zenon
<1>4. CASE StartUpdater \/ Kill \/ PowerLoss
  BY <1>4, OutsideKeepsRoom, Zenon
<1>5. CASE Rot \/ Unreadable \/ UNCHANGED vars
  BY <1>5, StutterKeepsRoom, Zenon
<1> QED BY <1>1, <1>2, <1>3, <1>4, <1>5, Zenon DEF Next, Updater

LEMMA InitSpace == Init => SpaceInv
<1> SUFFICES ASSUME Init PROVE SpaceInv
  OBVIOUS
<1>1. stash \in InitialStashes /\ stashDisk = stash /\ pc = "exited" /\ partial = {}
  BY DEF Init
<1>2. stash \cup stashDisk \subseteq stash \cup StashIds
  BY <1>1
<1> QED BY <1>1, <1>2, Zenon DEF SpaceInv

(* THEOREM: a /cache with room for all the stashes of the list together,    *)
(* beside the files found at first, and once more for the source of an      *)
(* overlapping command or for a stash that may be there and unreadable,     *)
(* never lets WriteStash fail for lack of space, through any number of      *)
(* faults.                                                                  *)
THEOREM RoomForAllSuffices == Spec => []SpaceSuffices
<1>1. Spec => []SpaceInv
  BY InitSpace, NextSpace, TypeCorrect, ReadFaultsHold, PTL DEF Spec
<1>2. SpaceInv => SpaceSuffices
  BY DEF SpaceInv, SpaceSuffices
<1> QED BY <1>1, <1>2, PTL

=============================================================================

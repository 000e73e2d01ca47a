-------------------------- MODULE BlockImageVerify --------------------------
(***************************************************************************)
(* The inductive invariants behind SpaceSuffices, at the end, and behind   *)
(* VerifyPredicts, for transfer lists that keep the creator's guarantees   *)
(* and do not need an id again after freeing it, and for any image and any *)
(* stash files to start from.                                              *)
(*                                                                         *)
(* Whether a copy will find its source is a matter of the partition and of *)
(* the files in the stash directory alone (Promised).  A verification      *)
(* passes a copy only when it is promised, and fails only at one that is   *)
(* not; what it remembers in stash_map it has from commands before that    *)
(* one, so that a second verification fails there again.  An update keeps  *)
(* the promise for the commands it has not reached: it writes no block     *)
(* that they read, and frees no stash that they need.                      *)
(***************************************************************************)
EXTENDS BlockImage

-----------------------------------------------------------------------------
(* What a list can still do with a partition d and stash files               *)

NoReuse == \A l \in TransferLists : NoIdReuse(l.cmds)

RightTarget(c, d) == \A k \in DOMAIN c.tgt : d[c.tgt[k]] = c.tgthash[k]

\* The blocks of a stash command hold the contents of its id.
Stashable(c, d) == c.op = "stash" /\ [k \in DOMAIN c.src |-> d[c.src[k]]] = c.srchash

\* The stash is among the files, or a command from here on makes it before command m.
Obtainable(cmds, d, files, id, here, m) ==
  \/ id \in files
  \/ \E j \in DOMAIN cmds :
       here =< j /\ j < m /\ cmds[j].srchash = id /\ Stashable(cmds[j], d)

HasSource(cmds, d, files, here, m) ==
  LET c == cmds[m] IN
  \A k \in DOMAIN c.srchash :
    IF k \in DOMAIN c.src
    THEN d[c.src[k]] = c.srchash[k]
    ELSE Obtainable(cmds, d, files, c.use[k].id, here, m) \/ c.srchash[k] = Junk

\* The copy m is complete, or will find its source when the list is executed from
\* here on.
Promised(cmds, d, files, here, m) ==
  \/ RightTarget(cmds[m], d)
  \/ HasSource(cmds, d, files, here, m)
  \/ Overlap(cmds[m]) /\ Obtainable(cmds, d, files, cmds[m].srchash, here, m)

AllPromised(cmds, d, files, here) ==
  \A m \in DOMAIN cmds : here =< m /\ Copies(cmds[m]) => Promised(cmds, d, files, here, m)

-----------------------------------------------------------------------------
(* What a verification knows                                                *)

\* LoadStash succeeds for a sound file, or for blocks that stash_map gives.
Loads(d, files, map, id) ==
  IF id \in DOMAIN map THEN [k \in DOMAIN map[id] |-> d[map[id][k]]] = id ELSE id \in files

\* What stash_map has it has from commands before m.
MapFrom(cmds, map, m) ==
  \A id \in DOMAIN map : \E j \in DOMAIN cmds :
    j < m /\ cmds[j].op = "stash" /\ cmds[j].srchash = id /\ cmds[j].src = map[id]

\* No verification passes the copy m.
Doomed(cmds, d, files, map, m) ==
  Copies(cmds[m]) /\ ~Promised(cmds, d, files, 1, m) /\ MapFrom(cmds, map, m)

\* A verification that began with an empty stash_map and has passed the commands
\* before t can load exactly the stashes that the update will have there.
Sound(cmds, d, files, map, t) ==
  /\ MapFrom(cmds, map, t)
  /\ DOMAIN map \cap files = {}
  /\ \A m \in DOMAIN cmds : m < t /\ Copies(cmds[m]) => Promised(cmds, d, files, 1, m)
  /\ \A j \in DOMAIN cmds :
       /\ j < t /\ Stashable(cmds[j], d)
       /\ \A f \in DOMAIN cmds : j < f /\ f < t => ~Frees(cmds[f], cmds[j].srchash)
       => Loads(d, files, map, cmds[j].srchash)

\* Or it is one that will fail.
Hopeless(cmds, d, files, map) == \E i \in DOMAIN cmds : Doomed(cmds, d, files, map, i)
Knows(cmds, d, files, map, t) ==
  \/ Sound(cmds, d, files, map, t)
  \/ \E i \in DOMAIN cmds : t =< i /\ Doomed(cmds, d, files, map, i)

-----------------------------------------------------------------------------
(* The invariant                                                            *)

\* The first command that a verification has not passed.
Through == IF pc \in {"free", "end"} THEN pos + 1 ELSE pos

Verification ==
  ~canwrite =>
    /\ pc \in Running => Knows(list.cmds, dev, stash, stash_map, Through)
    /\ pc \in {"pbiudone", "delete"} =>
         IF rc = 0 THEN AllPromised(list.cmds, dev, stash, 1) /\ ~isunresumable
         ELSE Hopeless(list.cmds, dev, stash, stash_map)

BetweenCalls ==
  pc = "idle" =>
    /\ step = "begin" => stash_map = <<>>
    /\ step = "recover" => stash_map = <<>> \/ Hopeless(list.cmds, dev, stash, stash_map)
    /\ step = "verified" => list.total = 0 \/ AllPromised(list.cmds, dev, stash, 1)

\* The first command that an update has not begun, and the files it will not free
\* before that one.
Coming  == IF pc = "cmd" THEN pos ELSE pos + 1
Staying == IF freestash = <<>> THEN stash ELSE stash \ {freestash}

NothingToFree == pc \in {"cmd", "end"} \/ (pc = "dirsync" /\ Cmd.op = "stash") => freestash = <<>>

VerifiedUpdate ==
  canwrite /\ step = "verified" =>
    /\ ~isunresumable
    /\ pc \in Running => AllPromised(list.cmds, dev, Staying, Coming)
    /\ NothingToFree

Predicts == bad = {} /\ Verification /\ BetweenCalls /\ VerifiedUpdate

PredictInv == faults = 0 => Predicts

\* Stashes are unreadable only after a fault.
ReadFaults == unreadable # {} => faults # 0 /\ "read" \in Faults

-----------------------------------------------------------------------------
(* Room for the stashes                                                     *)

(* Behind SpaceSuffices: every stash file was there at first or is one that *)
(* the list makes; a running call has no .partial file.                     *)
SpaceInv ==
  /\ \E files \in InitialStashes : stash \cup stashDisk \subseteq files \cup StashIds
  /\ pc \in Running => partial = {}
  /\ RoomForAll /\ pc \notin {"exited", "idle"} => cause # "space"
=============================================================================

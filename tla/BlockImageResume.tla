-------------------------- MODULE BlockImageResume --------------------------
(***************************************************************************)
(* Why an interrupted installation can be resumed: the inductive invariant *)
(* behind Resumable, for transfer lists that keep the creator's guarantees *)
(* and do not need an id again after freeing it, and for I/O errors,       *)
(* deaths of the updater and stash files that cannot be read for a while   *)
(* (not for loss of power, nor for stash files that rot).                  *)
(*                                                                         *)
(* The argument is about a frontier h: the command up to which the list    *)
(* has ever been executed.  Every copy before h is complete.  Every block  *)
(* that no command up to h writes is as it was.  Command h itself may be   *)
(* half done; if it overwrites its own source, the source is in the stash. *)
(* And each stash that a copy not yet complete will use is either on       *)
(* /cache or will be made, from blocks that are as they were, by a stash   *)
(* command still to come.                                                  *)
(***************************************************************************)
EXTENDS BlockImage

ASSUME ResumeAssumption ==
  /\ \A l \in TransferLists : WellFormed(l) /\ NoIdReuse(l.cmds)
  /\ InitialImages = {Source}
  /\ Faults \subseteq {"io", "kill", "read"}

-----------------------------------------------------------------------------
C(i) == list.cmds[i]
N    == Len(list.cmds)

Pristine(S) == \A b \in S : dev[b] = Source[b]

(* An update call is never beyond the frontier; a verification may be        *)
(* anywhere, and reads stashes through stash_map too.                       *)
Updating  == canwrite /\ pc \in Running
Verifying == ~canwrite /\ pc \in Running

(* A copy that was not complete is being executed. *)
Filling == pc \in {"dirsync", "seek", "write"} /\ Copies(C(pos))

(* The first command that the current call has not completed, and the first *)
(* that the current or the next update will execute.                        *)
Ahead  == IF pc = "end" THEN pos + 1 ELSE pos
ToCome == IF Updating THEN Ahead ELSE 1

(* The stash id is there and not about to be freed by the current command. *)
Kept(id) == id \in stash /\ (freestash # <<>> => id # freestash)

(* LoadStash(id, FALSE) gives data as soon as what it reads can be read. *)
Loadable(id) ==
  IF ~canwrite /\ id \in DOMAIN stash_map THEN MapVerifies(id) ELSE id \in stash

(* Stash command j would be able to make the stash id. *)
Stashes(j, id) == C(j).op = "stash" /\ C(j).srchash = id /\ Pristine(Reads(C(j)))

-----------------------------------------------------------------------------
(* The frontier *)

DoneBefore(h) == \A i \in 1 .. N : i < h /\ Copies(C(i)) => TargetDone(C(i))

UntouchedAfter(h) ==
  \A b \in Blocks : (\A i \in 1 .. N : i =< h => b \notin Writes(C(i))) => dev[b] = Source[b]

FrontierCovered(h) ==
  (h \in 1 .. N /\ Copies(C(h)) /\ ~TargetDone(C(h)) /\ Overlap(C(h))) =>
     Pristine(Writes(C(h))) \/ C(h).srchash \in stash

Available(h) ==
  \A i \in 1 .. N : i >= h /\ Copies(C(i)) /\ ~TargetDone(C(i)) =>
    \A id \in Uses(C(i)) :
      Kept(id) \/ \E j \in 1 .. N : ToCome =< j /\ j < i /\ Stashes(j, id)

VerifyLoads(h) ==
  \A i \in 1 .. N : i >= h /\ i >= Ahead /\ Copies(C(i)) /\ ~TargetDone(C(i)) =>
    \A id \in Uses(C(i)) :
      Loadable(id) \/ \E j \in 1 .. N : Ahead =< j /\ j < i /\ Stashes(j, id)

Frontier(h) ==
  /\ DoneBefore(h)
  /\ UntouchedAfter(h)
  /\ FrontierCovered(h)
  /\ Available(h)
  /\ Updating => pos =< h
  /\ Updating /\ (Filling \/ freestash # <<>>) => pos = h
  /\ Verifying => VerifyLoads(h)
  /\ pc = "delete" /\ canwrite => h = N + 1

-----------------------------------------------------------------------------
(* The command being executed by an update *)

Executing ==
  /\ Updating /\ Filling =>
       /\ buffer = C(pos).srchash
       /\ \A id \in Uses(C(pos)) : Kept(id)
       /\ Overlap(C(pos)) => C(pos).srchash \in stash
       /\ \A k \in 1 .. wpos - 1 : dev[C(pos).tgt[k]] = C(pos).tgthash[k]
  /\ Updating /\ pc \in {"free", "end"} /\ Copies(C(pos)) => TargetDone(C(pos))
  /\ pc = "dirsync" => C(pos).srchash \in stash
  /\ pc \in {"seek", "write", "free"} => C(pos).op # "stash"
  /\ pc \in Running /\ freestash # <<>> =>
       /\ canwrite
       /\ pc \in {"dirsync", "seek", "write", "free"}
       /\ Copies(C(pos))
       /\ freestash = C(pos).srchash

(* What a verification may rely on *)

InVerify == ~canwrite /\ pc \in Running \cup {"pbiudone", "delete"}

VerifyState ==
  /\ InVerify \/ (pc = "idle" /\ step # "verified") => DOMAIN stash_map \cap stash = {}
  /\ InVerify /\ createdstash => stash = {}
  /\ pc = "delete" /\ ~canwrite => createdstash

(* The strengthening of Resumable that every step preserves. *)
Strong ==
  /\ bad = {}
  /\ ~isunresumable
  /\ Executing
  /\ VerifyState
  /\ \E h \in 1 .. N + 1 : Frontier(h)

Intact    == TypeOK /\ Strong
ResumeInv == TypeOK /\ (overlooked \/ Strong)

=============================================================================

------------------------------ MODULE NewData ------------------------------
(***************************************************************************)
(* The two threads of block_image_update (updater/blockimg.cpp).  The      *)
(* unzip thread expands the entry that holds the data of all the `new`     *)
(* commands, one after another, and blocks until the main thread wants     *)
(* some of it.  The main thread runs the commands of the transfer list;    *)
(* for a `new` it hands a RangeSinkWriter over in nti.writer and waits     *)
(* for it to disappear.  Everything shared is in NewThreadInfo, under one  *)
(* mutex and one condition variable.                                       *)
(*                                                                         *)
(* A stretch of code under the mutex is one step: it touches nothing that  *)
(* the other thread touches without the mutex.  pthread_cond_wait ends     *)
(* such a step with the thread in `waiting`, a broadcast empties           *)
(* `waiting`, and POSIX may also wake a thread for no reason.              *)
(*                                                                         *)
(* The contents are numbered: the entry expands to the units 1, 2, 3...,   *)
(* and image[k] is the sequence of units written to the target ranges of   *)
(* the k-th command.  Units are finer than blocks, so the entry may end in *)
(* the middle of one.                                                      *)
(***************************************************************************)
EXTENDS Naturals, Sequences, FiniteSetsExt

CONSTANTS
    Lists,      \* transfer lists: 0 is any other command, n > 0 a `new` of n units
    Entries,    \* plain entries: the chunks handed out, each the yields of its input units
    BrotliEntries, \* the same, of entries whose name ends in ".br"
    BufferSize, \* the 32768 of receive_brotli_new_data, in units
    Failing     \* which of "header", "command", "write" and "data" may fail

ASSUME NewDataAssumption ==
    /\ Lists \subseteq Seq(Nat)
    /\ Entries \subseteq Seq(Seq(Nat)) /\ BrotliEntries \subseteq Seq(Seq(Nat))
    /\ BufferSize \in Nat \ {0}
    /\ Failing \subseteq {"header", "command", "write", "data"}

VARIABLES
    list,       \* the commands, lines 5 and on of the transfer list
    brotli_compressed,
    main,       \* where PerformBlockImageUpdate is
    cmd,        \* the command it is at
    return_value, \* what it returned
    unzip,      \* where the unzip thread is
    entry,      \* the chunks ProcessZipEntryContents has still to hand out
    size,       \* the input left of the chunk at hand
    produced,   \* the units the decoder has produced
    delivered,  \* the units taken from it
    writer,     \* nti.writer: the room left in each writer, at most one of them
    receiver_available,
    waiting,    \* the threads inside pthread_cond_wait
    image

mainVars == <<list, brotli_compressed, main, cmd, return_value>>
dataVars == <<entry, size, produced, delivered, image>>
nti == <<writer, receiver_available, waiting>>
newDataVars == <<mainVars, unzip, dataVars, nti>>

Threads == {"main", "unzip"}

\* The sums of the first n members of s, and of all of them.
Sums(s) ==
    LET sum[n \in 0..Len(s)] == IF n = 0 THEN 0 ELSE sum[n - 1] + s[n]
    IN  sum
Total(s) == Sums(s)[Len(s)]

\* The units of the entry, and the ones that command k is to write.
Expanded(e) == Total([i \in 1..Len(e) |-> Total(e[i])])
Section(k) == [i \in 1..list[k] |-> Sums(list)[k - 1] + i]

NoWriter == {}

NewDataInit ==
    /\ list \in Lists
    /\ \/ brotli_compressed = FALSE /\ entry \in Entries
       \/ brotli_compressed = TRUE /\ entry \in BrotliEntries
    /\ main = "start" /\ cmd = 1 /\ return_value = "none"
    /\ unzip = "none"
    /\ size = <<>> /\ produced = 0 /\ delivered = 0
    /\ image = [k \in 1..Len(list) |-> <<>>]
    /\ writer = NoWriter /\ receiver_available = FALSE /\ waiting = {}

-----------------------------------------------------------------------------
(* The main thread.                                                        *)

ReturnWith(value) == main' = "returned" /\ return_value' = value

\* PerformBlockImageUpdate checks its arguments and starts the thread on the new
\* data...
CreateThread ==
    /\ main = "start"
    /\ \/ /\ main' = "header" /\ unzip' = "next" /\ receiver_available' = TRUE
          /\ UNCHANGED return_value
       \/ "header" \in Failing /\ ReturnWith("") /\ UNCHANGED <<unzip, receiver_available>>
    /\ UNCHANGED <<list, brotli_compressed, cmd, dataVars, writer, waiting>>

\* ...and only then reads the header of the transfer list: it may be
\* malformed or the stash may not fit, and a list of 0 blocks has no commands
\* to run.
ReadHeader ==
    /\ main = "header"
    /\ \/ list # <<>> /\ main' = "commands" /\ UNCHANGED return_value
       \/ list = <<>> /\ ReturnWith("t")
       \/ "header" \in Failing /\ ReturnWith("")
    /\ UNCHANGED <<list, brotli_compressed, cmd, unzip, dataVars, nti>>

\* A command that needs no new data, and the fsync after it.
OtherCommand ==
    /\ main = "commands" /\ cmd <= Len(list) /\ list[cmd] = 0
    /\ \/ cmd' = cmd + 1 /\ UNCHANGED <<main, return_value>>
       \/ "command" \in Failing /\ ReturnWith("") /\ UNCHANGED cmd
    /\ UNCHANGED <<list, brotli_compressed, unzip, dataVars, nti>>

\* PerformCommandNew hands a writer over and broadcasts.  With the mutex still
\* held it sees the writer there, and waits unless the receiver is gone.
PerformCommandNew ==
    /\ main = "commands" /\ cmd <= Len(list) /\ list[cmd] > 0
    /\ writer' = {list[cmd]}
    /\ \/ receiver_available /\ main' = "new" /\ waiting' = {"main"} /\ UNCHANGED return_value
       \/ ~receiver_available /\ ReturnWith("") /\ waiting' = {}
    /\ UNCHANGED <<list, brotli_compressed, cmd, unzip, dataVars, receiver_available>>

\* Mutant: `if` in the place of `while`.
NewAwakesOnce ==
    /\ main = "new" /\ "main" \notin waiting
    /\ main' = "commands" /\ cmd' = cmd + 1
    /\ UNCHANGED <<list, brotli_compressed, return_value, unzip, dataVars, nti>>

\* The loop of PerformCommandNew, awake again: the section is written (the
\* fsync that follows may fail), or its data is missing, or back to waiting.
NewAwakes ==
    /\ main = "new" /\ "main" \notin waiting
    /\ \/ /\ writer = NoWriter
          /\ main' = "commands" /\ cmd' = cmd + 1 /\ UNCHANGED <<return_value, waiting>>
       \/ /\ writer = NoWriter /\ "command" \in Failing
          /\ ReturnWith("") /\ UNCHANGED <<cmd, waiting>>
       \/ /\ writer # NoWriter /\ ~receiver_available
          /\ ReturnWith("") /\ UNCHANGED <<cmd, waiting>>
       \/ /\ writer # NoWriter /\ receiver_available
          /\ waiting' = waiting \union {"main"} /\ UNCHANGED <<main, cmd, return_value>>
    /\ UNCHANGED <<list, brotli_compressed, unzip, dataVars, writer, receiver_available>>

\* Mutant: no pthread_join.
JoinNever ==
    /\ main = "commands" /\ cmd > Len(list)
    /\ ReturnWith("t")
    /\ UNCHANGED <<list, brotli_compressed, cmd, unzip, dataVars, nti>>

\* After the last command: pthread_join, DeleteStash, success.
Join ==
    /\ main = "commands" /\ cmd > Len(list)
    /\ unzip = "exited"
    /\ ReturnWith("t")
    /\ UNCHANGED <<list, brotli_compressed, cmd, unzip, dataVars, nti>>

-----------------------------------------------------------------------------
(* The unzip thread.  nti is a local variable of PerformBlockImageUpdate,  *)
(* so the model follows the thread only until that function has returned.  *)

Running(at) == unzip = at /\ main # "returned"

\* ProcessZipEntryContents calls the receiver with the next chunk, until the
\* entry ends or cannot be expanded any further.
NextChunk ==
    /\ Running("next")
    /\ \/ entry # <<>> /\ unzip' = "receive" /\ size' = Head(entry) /\ entry' = Tail(entry)
       \/ (entry = <<>> \/ "data" \in Failing) /\ unzip' = "exit" /\ UNCHANGED <<size, entry>>
    /\ UNCHANGED <<mainVars, produced, delivered, image, nti>>

\* The loop of receive_new_data and of receive_brotli_new_data, which goes on
\* while BrotliDecoderHasMoreOutput: wait for a writer, or be done.
Receive ==
    /\ Running("receive") /\ "unzip" \notin waiting
    /\ LET more == size # <<>> \/ produced > delivered
       IN  \/ ~more /\ unzip' = "next" /\ UNCHANGED waiting
           \/ more /\ writer # NoWriter /\ unzip' = "write" /\ UNCHANGED waiting
           \/ /\ more /\ writer = NoWriter
              /\ waiting' = waiting \union {"unzip"} /\ UNCHANGED unzip
    /\ UNCHANGED <<mainVars, dataVars, writer, receiver_available>>

\* What one turn of the loop takes: `used` input units, for `out` units of
\* output into a room of `left`.  Raw data is cut to the room.  The Brotli
\* decoder stops short of the end of its input only when the buffer is full.
Takes(used, out, left) ==
    LET buffer == IF brotli_compressed THEN Min({BufferSize, left}) ELSE left
        ready == produced + Sums(size)[used] - delivered
    IN  /\ out = Min({ready, buffer})
        /\ IF brotli_compressed THEN used = Len(size) \/ out = buffer
                     ELSE used = Min({Len(size), left})

\* Mutant: what does not fit the writer is dropped.
WriteDataDrops ==
    /\ Running("write")
    /\ \E left \in writer, used \in 0..Len(size) : \E out \in 0..left :
          /\ Takes(used, out, left)
          /\ writer' = {left - out}
          /\ image' = [image EXCEPT ![cmd] = @ \o [i \in 1..out |-> delivered + i]]
          /\ produced' = produced + Total(size)
          /\ delivered' = produced'
          /\ size' = <<>>
          /\ unzip' = IF left = out THEN "written" ELSE "receive"
    /\ UNCHANGED <<mainVars, entry, receiver_available, waiting>>

\* The receiver owns the writer and fills it, without the mutex.
WriteData ==
    /\ Running("write")
    /\ \E left \in writer, used \in 0..Len(size) : \E out \in 0..left :
          /\ Takes(used, out, left)
          /\ writer' = {left - out}
          /\ image' = [image EXCEPT ![cmd] = @ \o [i \in 1..out |-> delivered + i]]
          /\ produced' = produced + Sums(size)[used]
          /\ size' = SubSeq(size, used + 1, Len(size))
          /\ delivered' = delivered + out
          /\ unzip' = IF left = out THEN "written" ELSE "receive"
    /\ UNCHANGED <<mainVars, entry, receiver_available, waiting>>

\* The write fails part of the way, or the stream is corrupt: the receiver
\* returns false and the writer stays.
WriteFails ==
    /\ Running("write")
    /\ "write" \in Failing \/ (brotli_compressed /\ "data" \in Failing)
    /\ \E left \in writer, used \in 0..Len(size) : \E out \in 0..left : \E part \in 0..out :
          /\ Takes(used, out, left)
          /\ part < out \/ brotli_compressed
          /\ image' = [image EXCEPT ![cmd] = @ \o [i \in 1..part |-> delivered + i]]
          /\ writer' = {left - part}
    /\ unzip' = "exit"
    /\ UNCHANGED <<mainVars, entry, size, produced, delivered, receiver_available, waiting>>

\* Mutant: no broadcast.
ClearWriterSilent ==
    /\ Running("written")
    /\ writer' = NoWriter /\ unzip' = "receive"
    /\ UNCHANGED <<mainVars, dataVars, receiver_available, waiting>>

\* The writer is Finished: give it back.
ClearWriter ==
    /\ Running("written")
    /\ writer' = NoWriter /\ waiting' = {} /\ unzip' = "receive"
    /\ UNCHANGED <<mainVars, dataVars, receiver_available>>

\* Mutant: the end of the data is not announced.
ExitSilent ==
    /\ Running("exit")
    /\ receiver_available' = FALSE /\ unzip' = "exited"
    /\ UNCHANGED <<mainVars, dataVars, writer, waiting>>

\* The end of unzip_new_data.
Exit ==
    /\ Running("exit")
    /\ receiver_available' = FALSE /\ unzip' = "exited"
    /\ waiting' = IF writer # NoWriter THEN {} ELSE waiting
    /\ UNCHANGED <<mainVars, dataVars, writer>>

-----------------------------------------------------------------------------
\* pthread_cond_wait may return without a broadcast.
SpuriousWakeup ==
    /\ \E t \in waiting : waiting' = waiting \ {t}
    /\ main # "returned"
    /\ UNCHANGED <<mainVars, unzip, dataVars, writer, receiver_available>>

MainStep ==
    CreateThread \/ ReadHeader \/ OtherCommand \/ PerformCommandNew \/ NewAwakes \/ Join

UnzipStep ==
    NextChunk \/ Receive \/ WriteData \/ WriteFails \/ ClearWriter \/ Exit

Returned == main = "returned" /\ UNCHANGED newDataVars

NewDataNext == MainStep \/ UnzipStep \/ SpuriousWakeup \/ Returned

\* Both are runnable threads of one process; no wakeup is owed to either.
Fairness == WF_newDataVars(MainStep) /\ WF_newDataVars(UnzipStep)

NewDataSpec == NewDataInit /\ [][NewDataNext]_newDataVars /\ Fairness

-----------------------------------------------------------------------------
NewDataTypeOK ==
    /\ list \in Seq(Nat) /\ brotli_compressed \in BOOLEAN
    /\ main \in {"start", "header", "commands", "new", "returned"}
    /\ cmd \in 1..(Len(list) + 1)
    /\ return_value \in {"none", "t", ""}
    /\ unzip \in {"none", "next", "receive", "write", "written", "exit", "exited"}
    /\ entry \in Seq(Seq(Nat)) /\ size \in Seq(Nat)
    /\ produced \in Nat /\ delivered \in 0..produced
    /\ writer \subseteq Nat
    /\ receiver_available \in BOOLEAN
    /\ waiting \subseteq Threads
    /\ image \in [1..Len(list) -> Seq(Nat)]

\* No wakeup is lost between the two threads: the main thread sleeps in
\* PerformCommandNew only while the writer it handed over is still there and
\* the receiver can still clear it, and the receiver sleeps only while there
\* is no writer.  So they never sleep both.
NoLostWakeup ==
    /\ "main" \in waiting => writer # NoWriter /\ receiver_available
    /\ "unzip" \in waiting => writer = NoWriter

\* "At this point nti->writer is set, and we own it. The main thread is
\* waiting for it to disappear from nti": while the receiver writes without the
\* mutex the main thread is inside PerformCommandNew, the writer is the one of
\* the command at hand, and there is room for at least one more unit, so
\* neither "No space left in output range" nor "range sink write overrun" can
\* be the outcome.
OwnsWriter ==
    main # "returned" =>
        /\ unzip \in {"write", "written"} =>
              main = "new" /\ writer = {list[cmd] - Len(image[cmd])}
        /\ unzip = "write" => writer # {0}

\* Whatever the sizes of chunks, buffers and sections, and wherever a failure
\* strikes, every `new` the main thread has left behind has exactly the units
\* that are its own, in order; the one at hand has a beginning of them.
SectionsInOrder ==
    \A k \in 1..Len(list) :
        /\ k < cmd => image[k] = Section(k)
        /\ k = cmd => image[k] = SubSeq(Section(k), 1, Len(image[k]))
        /\ k > cmd => image[k] = <<>>

\* block_image_update says "t" for a list with commands only after all of them,
\* and only when the unzip thread, which works on the local nti, has ended.
SuccessMeansJoined ==
    return_value = "t" /\ list # <<>> =>
        /\ unzip = "exited"
        /\ \A k \in 1..Len(list) : Len(image[k]) = list[k]

\* "Updater should report the failure gracefully rather than stuck in
\* deadlock": block_image_update returns.
Terminates == <>(main = "returned")

=============================================================================

----------------------------- MODULE MCNewData -----------------------------
(***************************************************************************)
(* Instances of NewData: every list of up to three commands and every      *)
(* entry of up to three chunks within the bounds.                          *)
(***************************************************************************)
EXTENDS NewData, SequencesExt

\* Sections of one or two units (0: another command), at most MaxCommands.
MaxCommands == 3
MCLists == SeqOf(0..2, MaxCommands)

\* Raw input: each unit of input is one of output.  No chunk is empty.
MaxChunks == 3
RawChunks == {[i \in 1..n |-> 1] : n \in 1..3}
MCRawEntries == SeqOf(RawChunks, MaxChunks)

\* Brotli input: a unit of input may yield none, one or two units.
BrotliChunks == SeqOf(0..2, 2) \ {<<>>}
MCBrotliEntries == SeqOf(BrotliChunks, 2)

NoEntries == {}

\* The entry holds no more than the commands take, and a Brotli stream does
\* not end in input that yields nothing.
Wanted ==
    /\ Expanded(entry) <= Total(list)
    /\ entry # <<>> => Last(Last(entry)) > 0

\* block_image_update returns when the entry is exact, too short or empty, and
\* whatever fails.
ShortTerminates == Wanted => Terminates

\* The entry goes on after what the commands take.
Surplus == Total(list) > 0 /\ Expanded(entry) > Total(list)

SurplusSpec == NewDataInit /\ Surplus /\ [][NewDataNext]_newDataVars /\ Fairness

=============================================================================

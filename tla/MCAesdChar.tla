----------------------------- MODULE MCAesdChar -----------------------------
(* Inputs for the runs of the character device: "n" stands for the newline. *)
EXTENDS AesdChar

MCSizeMod    == 64
MCStrayWords == {0, 2}
MCSymmetry   == Permutations(Block) \cup Permutations(Task)

(* A whole command, a fragment, and a command with text behind it. *)
MixedData   == {<<"a", "n">>, <<"b">>, <<"n", "c">>}
MixedCounts == {1, 9}

(* Whole commands of different lengths. *)
WholeData   == {<<"a", "n">>, <<"n">>}
WholeCounts == {9}
SomeSeeks   == [whence : {"SEEK_SET"}, offset : {1, 3}]
                 \cup [whence : {"SEEK_CUR", "SEEK_END"}, offset : {-1, 0}]
                 \cup [whence : {"SEEK_DATA"}, offset : {0}]
SomeSeekTos == [write_cmd : {0, 1, 2, 3, 4}, write_cmd_offset : {0, 1}]

NoCounts  == {}
NoSeeks   == {}
NoSeekTos == {}

=============================================================================

------------------------------ MODULE ImageStore ------------------------------
(***************************************************************************)
(* What the OTA platform layer promises the OTA agent: however well the    *)
(* buffer area was emptied when a file was opened, and whatever became of  *)
(* the blocks since, an image is accepted only when every block of it is   *)
(* what was signed, an accepted image does not change, and only an         *)
(* accepted image is swapped in.                                           *)
(***************************************************************************)
EXTENDS Naturals

CONSTANT NumBlocks      \* blocks of the image

Blocks == 0 .. NumBlocks - 1

VARIABLES
    content,    \* the buffer area, block by block
    phase       \* no file, an open file, or an accepted image

Contents == [Blocks -> {"erased", "image", "other"}]

Filled(with) == [b \in Blocks |-> with]

Init == content = Filled("erased") /\ phase = "none"

(* A new file.  The area is being emptied, but a block whose erase failed
   keeps what it held, or holds anything. *)
Open ==
    /\ phase = "none"
    /\ content' \in Contents
    /\ \A b \in Blocks : content'[b] \in {"erased", "other", content[b]}
    /\ phase' = "open"

(* Blocks are written or erased, or lost with the power. *)
Change ==
    /\ phase # "verified"
    /\ content' \in Contents
    /\ phase' \in {phase, "none"}

Accept ==
    /\ phase = "open"
    /\ content = Filled("image")
    /\ phase' = "verified"
    /\ UNCHANGED content

Discard == phase' = "none" /\ UNCHANGED content

(* The accepted image becomes the running one; the area now holds the
   firmware that ran before. *)
Swap ==
    /\ phase = "verified"
    /\ content' = Filled("other")
    /\ phase' = "none"

Next == Open \/ Change \/ Accept \/ Discard \/ Swap

Spec == Init /\ [][Next]_<<content, phase>>
==============================================================================

----------------------------- MODULE SecureLine -----------------------------
(***************************************************************************)
(* What a secret chat promises in one direction: the peer hears what was   *)
(* said, each thing once and in the order in which it was said, and never  *)
(* anything else.  The line may fall silent; it may not skip or repeat.    *)
(* Things said are known by their position.                                *)
(***************************************************************************)
EXTENDS Naturals, Sequences

VARIABLES said,    \* how many things have been said
          heard    \* the positions of those that were heard, in order

Init == said = 0 /\ heard = <<>>

Say == said' > said /\ UNCHANGED heard

Hear ==
  /\ Len(heard) < said
  /\ heard' = Append(heard, Len(heard) + 1)
  /\ UNCHANGED said

Spec == Init /\ [][Say \/ Hear]_<<said, heard>>
=============================================================================

-------------------------- MODULE MCAttachmentQueue --------------------------
(* Symmetry of the instances of AttachmentQueue that TLC checks for safety. *)
EXTENDS AttachmentQueue, TLC

Symmetry == Permutations(Attachment) \union Permutations(Job)
              \union Permutations(Runner)
==============================================================================

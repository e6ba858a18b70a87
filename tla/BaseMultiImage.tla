---------------------------- MODULE BaseMultiImage ----------------------------
(***************************************************************************)
(* base_multi_image: the images of the records of several models are in    *)
(* one table, and the first of a record is its main image, which can be    *)
(* read and written as a field.  A hook moves the images of a model there   *)
(* when the module that uses the mixin is installed.                       *)
(***************************************************************************)
EXTENDS Naturals, FiniteSetsExt

CONSTANTS Models, OwnerId, Picture, None,
          DefaultSequence, Sequence, \* what users may set
          MaxSteps \* bound: operations

\* Sequences are integers of the database, which have a last one.
ImageParameters ==
  /\ IsFiniteSet(OwnerId) /\ None \notin Picture /\ MaxSteps \in Nat
  /\ DefaultSequence \in Sequence /\ Sequence \subseteq Nat
  /\ \E last \in Sequence: \A s \in Sequence: s <= last

Owner == Models \X OwnerId

VARIABLES installed, \* models whose module is installed
          live,      \* the owners that exist
          single,    \* the column of each owner that had its image before
          rows,      \* base_multi_image.image, by id
          shown,     \* ghost: the main image that was written last
          steps

vars == <<installed, live, single, rows, shown, steps>>

Empty == [o \in {} |-> None]

\* A row that a hook inserts has no sequence, which sorts after all others.
Last == 1 + Max(Sequence)
Row == [owner_model: Models, owner_id: OwnerId, sequence: Sequence \union {Last}, image: Picture]

TypeOK ==
  /\ installed \subseteq Models /\ live \subseteq Owner
  /\ single \in [Owner -> Picture \union {None}]
  /\ DOMAIN rows \subseteq Nat /\ \A i \in DOMAIN rows: rows[i] \in Row
  /\ shown \in [Owner -> Picture \union {None}]
  /\ steps \in 0..MaxSteps

Init == /\ installed = {}
        /\ live = Owner
        /\ single \in [Owner -> Picture \union {None}]
        /\ rows = Empty
        /\ shown = [o \in Owner |-> None] /\ steps = 0

Step == steps < MaxSteps /\ steps' = steps + 1

Forget(O) == shown' = [o \in Owner |-> IF o \in O THEN None ELSE shown[o]]
Without(ids) == [i \in DOMAIN rows \ ids |-> rows[i]]
NewId == IF DOMAIN rows = {} THEN 1 ELSE 1 + Max(DOMAIN rows)

\* Mutant: the images of another model are not left out.
image_ids_AllModels(o) == {i \in DOMAIN rows: rows[i].owner_id = o[2]}
image_ids(o) == {i \in DOMAIN rows: rows[i].owner_model = o[1] /\ rows[i].owner_id = o[2]}

\* _order: by sequence, then by id.
Before(i, j) == \/ rows[i].sequence < rows[j].sequence
                \/ rows[i].sequence = rows[j].sequence /\ i <= j
First(ids) == CHOOSE i \in ids: \A j \in ids: Before(i, j)

\* _compute_multi_image.
image_1920(o) == IF image_ids(o) = {} THEN None ELSE rows[First(image_ids(o))].image

-----------------------------------------------------------------------------
set_multi_image(o, picture) ==
  /\ Step /\ o[1] \in installed /\ o \in live
  /\ LET ids == image_ids(o)  first == First(ids) IN
     rows' = CASE picture # None /\ ids # {} -> [rows EXCEPT ![first].image = picture]
               [] picture # None /\ ids = {} ->
                    [i \in DOMAIN rows \union {NewId} |->
                       IF i = NewId THEN [owner_model |-> o[1], owner_id |-> o[2],
                                          sequence |-> DefaultSequence, image |-> picture]
                       ELSE rows[i]]
               [] picture = None /\ ids # {} -> Without({first})
               [] OTHER -> rows
  /\ shown' = [shown EXCEPT ![o] = picture]
  /\ UNCHANGED <<installed, live, single>>

\* The list of images of an owner.
EditImages(o, R) ==
  /\ Step /\ o[1] \in installed /\ o \in live
  /\ rows' = R
  /\ Forget({o})
  /\ UNCHANGED <<installed, live, single>>

Add(o) ==
  \E p \in Picture:
    EditImages(o, [i \in DOMAIN rows \union {NewId} |->
                     IF i = NewId THEN [owner_model |-> o[1], owner_id |-> o[2],
                                        sequence |-> DefaultSequence, image |-> p]
                     ELSE rows[i]])
Move(o) == \E i \in image_ids(o), s \in Sequence: EditImages(o, [rows EXCEPT ![i].sequence = s])
Remove(o) == \E i \in image_ids(o): EditImages(o, Without({i}))

\* Mutant: the images are removed by the ids of the owners alone.
Removed_ById(o) == image_ids_AllModels(o)
Removed(o) == image_ids(o)

\* bypass_image_removal keeps the images.
unlink(o, bypass) ==
  /\ Step /\ o \in live
  /\ live' = live \ {o}
  /\ rows' = IF o[1] \in installed /\ ~bypass THEN Without(Removed(o)) ELSE rows
  /\ single' = [single EXCEPT ![o] = None]
  /\ Forget({o})
  /\ UNCHANGED installed

-----------------------------------------------------------------------------
OfModel(m) == {o \in Owner: o[1] = m}

\* The rows are inserted by one SQL statement, in any order.
pre_init_hook(m) ==
  /\ Step /\ m \notin installed
  /\ installed' = installed \union {m}
  /\ LET with == {o \in OfModel(m) \intersect live: single[o] # None} IN
     \E id \in [with -> {NewId + k: k \in 0..Cardinality(OwnerId)}]:
       /\ \A o, p \in with: o # p => id[o] # id[p]
       /\ rows' = [i \in DOMAIN rows \union {id[o]: o \in with} |->
                     IF i \in DOMAIN rows THEN rows[i]
                     ELSE LET o == CHOOSE o \in with: id[o] = i IN
                          [owner_model |-> m, owner_id |-> o[2], sequence |-> Last, image |-> single[o]]]
  /\ shown' = [o \in Owner |-> IF o \in OfModel(m) /\ o \in live THEN single[o] ELSE shown[o]]
  /\ UNCHANGED <<live, single>>

\* When the module names no field to move the images back to; moving them there
\* is left out.
uninstall_hook(m) ==
  /\ Step /\ m \in installed
  /\ installed' = installed \ {m}
  /\ rows' = Without({i \in DOMAIN rows: rows[i].owner_model = m})
  /\ Forget(OfModel(m))
  /\ UNCHANGED <<live, single>>

Next == \/ \E o \in Owner: \/ \E p \in Picture \union {None}: set_multi_image(o, p)
                           \/ Add(o) \/ Move(o) \/ Remove(o)
                           \/ \E bypass \in BOOLEAN: unlink(o, bypass)
        \/ \E m \in Models: pre_init_hook(m) \/ uninstall_hook(m)

Spec == Init /\ [][Next]_vars

-----------------------------------------------------------------------------
\* The main image of a record is the one that was written last, whatever is
\* done meanwhile with the images of others, those of other models with the
\* same id included, until the images of the record are edited;
\* and one that had an image before its module was installed shows this first
\* (_set_multi_image, _compute_multi_image, unlink, pre_init_hook_for_submodules).
MainIsLastWritten ==
  \A o \in live: shown[o] # None => image_1920(o) = shown[o]

===============================================================================

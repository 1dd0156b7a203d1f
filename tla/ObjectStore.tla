---------------------------- MODULE ObjectStore -----------------------------
(***************************************************************************)
(* What a repository promises to everything that reads it: a set of        *)
(* objects, each of which has everything it refers to beside it, and       *)
(* references, which name objects of the set.  Objects are never removed.  *)
(* Modules Fetch and ObjectCreate, where packs and single objects arrive   *)
(* in a repository, are shown to implement this one.                       *)
(***************************************************************************)
EXTENDS Functions

CONSTANT Needs(_)        \* the objects which an object refers to

VARIABLES objs, refs     \* the objects; the references, [names -> objs]

storeVars == <<objs, refs>>

Complete(s) == \A o \in s : Needs(o) \subseteq s

StoreInit == objs = {} /\ refs = [n \in {} |-> 0]

(* Objects arrive: one at a time, after those which they need, or a pack of them. *)
AddObjects ==
  /\ objs \subseteq objs' /\ Complete(objs')
  /\ refs' = refs

(* A reference is created, moved or deleted. *)
SetRefs ==
  /\ objs' = objs
  /\ Range(refs') \subseteq objs

StoreNext == AddObjects \/ SetRefs
StoreSpec == StoreInit /\ [][StoreNext]_storeVars

(* Whatever a reference leads to, step by step, can be read: an implementation need only
   add objects in an order that keeps the set complete, and references after them. *)
RefsReadable == Complete(objs) /\ Range(refs) \subseteq objs
=============================================================================

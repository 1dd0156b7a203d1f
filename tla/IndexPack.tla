----------------------------- MODULE IndexPack -----------------------------
(***************************************************************************)
(* got-index-pack (libexec/got-index-pack/got-index-pack.c): compute the   *)
(* ids of all objects of a downloaded pack file and write its index.  The  *)
(* first pass reads the objects which are stored whole.  The passes after  *)
(* it resolve deltas: an offset delta names an earlier place in the pack   *)
(* file, a ref delta the id of its base, which has to be in the index made *)
(* so far.  Passes go on until the counters say that every object is       *)
(* valid; the index is then made again from the array and written.         *)
(***************************************************************************)
EXTENDS Integers, Sequences, FiniteSets, SequencesExt, Functions

CONSTANT NObj    \* the number of objects of the pack file

ASSUME NObjIsPositive == NObj \in Nat \ {0}

PackObj == 1..NObj   \* an object is named by its place in the pack file

VARIABLES
  pack,     \* [kind, base] of every object; base 0: no object of this pack
  rank,     \* the order of the ids: object o has the rank[o]-th smallest id
  objects,  \* the array `objects': a sequence of objects, in pack order at first
  valid,    \* the objects whose id is known
  packidx,  \* the ids in the index made so far
  ix        \* the helper's program counter and counters

indexVars == <<pack, rank, objects, valid, packidx, ix>>

IsDelta(o) == pack[o].kind # "loose"
HaveRefDeltas == \E o \in PackObj : pack[o].kind = "ref"
Whole == {o \in PackObj : ~IsDelta(o)}
FirstDeltaIdx == CHOOSE i \in PackObj : /\ IsDelta(i) \/ Whole = PackObj
                                    /\ \A j \in 1..(i - 1) : ~IsDelta(j)

(* got_pack_resolve_delta_chain: follow the bases, through the pack file for an offset
   delta and through the index for a ref delta, to an object stored whole. *)
ResolveDeltaChain(o) ==
  LET chain[depth \in 0..NObj, x \in 0..NObj] ==
        IF x = 0 THEN FALSE
        ELSE CASE pack[x].kind = "loose" -> TRUE
               [] pack[x].kind = "ofs" -> depth > 0 /\ chain[depth - 1, pack[x].base]
               [] pack[x].kind = "ref" -> /\ depth > 0 /\ pack[x].base \in packidx
                                          /\ chain[depth - 1, pack[x].base]
  IN chain[NObj, o]

(* make_packidx sorts the array by id, in which an id not known yet is all zeros (the
   sort may leave these in any order), and indexes the objects whose id is known. *)
SortedById ==
  LET Key(o) == IF o \in valid THEN rank[o] ELSE 0
  IN {s \in SetToSeqs(PackObj) : \A i, j \in PackObj : i < j => Key(s[i]) <= Key(s[j])}
MakePackidx ==
  /\ objects' \in SortedById
  /\ packidx' = valid

(* The first pass, at whose end the checksum of the pack file is verified. *)
FirstPass ==
  /\ ix.pc = "first"
  /\ valid' = Whole
  /\ ix' = [ix EXCEPT !.pc = "sort", !.nvalid = Cardinality(Whole)]
  /\ UNCHANGED <<pack, rank, objects, packidx>>

FirstIndex ==
  /\ ix.pc = "sort"
  /\ IF HaveRefDeltas THEN MakePackidx ELSE UNCHANGED <<objects, packidx>>
  /\ ix' = [ix EXCEPT !.pc = "while", !.pass = 2]
  /\ UNCHANGED <<pack, rank, valid>>

(* while (nvalid != nobj): one more pass over the array, from the place where the
   first delta was in the pack file. *)
StartPass ==
  /\ ix.pc = "while" /\ ix.nvalid # NObj
  /\ ix' = [ix EXCEPT !.pc = "resolve", !.i = FirstDeltaIdx, !.n = 0]
  /\ UNCHANGED <<pack, rank, objects, valid, packidx>>

ResolveDeltifiedObject ==
  /\ ix.pc = "resolve" /\ ix.i <= NObj
  /\ LET o == objects[ix.i]
         found == o \notin valid /\ ResolveDeltaChain(o)
     IN /\ valid' = IF found THEN valid \cup {o} ELSE valid
        /\ packidx' = IF found /\ HaveRefDeltas THEN packidx \cup {o} ELSE packidx
        /\ ix' = [ix EXCEPT !.i = @ + 1, !.n = IF found THEN @ + 1 ELSE @]
  /\ UNCHANGED <<pack, rank, objects>>

(* The end of a pass: give up when nothing was resolved after two tries, else count. *)
EndPass ==
  /\ ix.pc = "resolve" /\ ix.i > NObj
  /\ ix' = IF ix.pass > 3 /\ ix.n = 0
           THEN [ix EXCEPT !.pc = "failed"]
           ELSE [ix EXCEPT !.pc = "while", !.pass = @ + 1,
                           !.nresolved = @ + ix.n,
                           !.nvalid = @ + ix.nresolved + ix.n]
  /\ UNCHANGED <<pack, rank, objects, valid, packidx>>

(* Every object must have been counted before the index is made and written. *)
CountedNot == TRUE
Counted == Cardinality(Whole) + ix.nresolved = NObj

CountObjects ==
  /\ ix.pc = "while" /\ ix.nvalid = NObj
  /\ ix' = [ix EXCEPT !.pc = IF Counted THEN "write" ELSE "failed"]
  /\ UNCHANGED <<pack, rank, objects, valid, packidx>>

WriteIndex ==
  /\ ix.pc = "write"
  /\ MakePackidx
  /\ ix' = [ix EXCEPT !.pc = "done"]
  /\ UNCHANGED <<pack, rank, valid>>

NoPack == [pc |-> "none", pass |-> 1, i |-> 1, n |-> 0, nvalid |-> 0, nresolved |-> 0]
PackOrder == [i \in PackObj |-> i]

(* Every arrangement of whole objects, offset deltas (whose base lies before them) and
   ref deltas, whose bases may be anywhere, in a cycle, or missing. *)
IndexInit ==
  /\ pack \in [PackObj -> [kind : {"loose", "ofs", "ref"}, base : 0..NObj]]
  /\ \A o \in PackObj : CASE pack[o].kind = "loose" -> pack[o].base = 0
                      [] pack[o].kind = "ofs" -> pack[o].base \in 1..(o - 1)
                      [] pack[o].kind = "ref" -> pack[o].base # o
  /\ rank \in {r \in [PackObj -> PackObj] : IsInjective(r)}
  /\ objects = PackOrder /\ valid = {} /\ packidx = {}
  /\ ix = [NoPack EXCEPT !.pc = "first"]
IndexIdle ==
  /\ pack = [o \in PackObj |-> [kind |-> "loose", base |-> 0]] /\ rank = PackOrder
  /\ objects = PackOrder /\ valid = {} /\ packidx = {}
  /\ ix = NoPack

IndexNext ==
  \/ FirstPass \/ FirstIndex \/ StartPass \/ ResolveDeltifiedObject \/ EndPass
  \/ CountObjects \/ WriteIndex

(* An index is written only when it lists every object of the pack file, by ids in
   order, and each can be read by following its deltas, however the passes' counters
   went; and the passes end: after the second, each resolves a delta or is the last
   (index_pack: the while loop and the count after it). *)
IndexIsComplete ==
  /\ ix.pc = "done" =>
       /\ packidx = PackObj
       /\ \A i, j \in PackObj : i < j => rank[objects[i]] < rank[objects[j]]
       /\ \A o \in PackObj : ResolveDeltaChain(o)
  /\ ix.pass <= NObj + 4
=============================================================================

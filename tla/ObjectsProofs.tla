---------------------------- MODULE ObjectsProofs ----------------------------
(* Proofs about Objects: for any repository, cache sizes and order of calls,  *)
(* objects in use are not freed, and reads return what was asked for.         *)
EXTENDS Objects, FiniteSetTheorems, SequenceTheorems, TLAPS

Kinds == {"object", "commit", "tree", "blob", "tag", "traverse"}
MsgType == {"object", "commit", "logmsg", "tree", "entry", "blob", "tag", "tagmsg", "traversed",
            "done", "error"}
Message == [type : MsgType, id : Obj]
Request == [kind : Kinds, id : Obj]
Instance == [kind : Kinds, id : Obj, content : Obj, refcnt : Int]
HelperRec == [state : {"none", "running", "dead"}, asked : Seq(Request), out : Seq(Message)]
OpRec ==
    [pc : {"idle", "search", "scan", "pack", "ask", "wait", "received", "failed"},
     kind : Kinds \cup {"none"}, id : Obj \cup {0}, pack : Pack \cup {"none"},
     seen : SUBSET Pack, ask : Kinds \cup {"none"}, to : Helper, got : Seq(Message)]

(* The request of a call.                                                     *)
Req(o) == [kind |-> o.ask, id |-> o.id]

(* The call in progress: whom it asks for what.  A tag is asked for as such   *)
(* only when it is one, and what arrived is about the object asked for.       *)
Asks(o) ==
    /\ o.ask \in Kinds
    /\ o.kind # "tag" => o.ask = o.kind
    /\ o.kind = "tag" => o.ask = "object" \/ (o.ask = "tag" /\ TypeOf[o.id] = "tag")
    /\ o.to \in Pack \/ (o.to = o.ask /\ o.ask # "traverse")
OpOK(o) ==
    /\ o \in OpRec
    /\ o.pc # "idle" => o.kind \in Kinds /\ o.id \in Obj
    /\ o.pc = "pack" => o.pack \in Pack
    /\ o.pc \in {"ask", "wait", "received", "failed"} => Asks(o)
    /\ \A j \in 1..Len(o.got) : o.got[j].id = o.id
    /\ o.pc = "received" => Len(o.got) >= 1

(* The conversation with the helper that is waited for: it has the request,   *)
(* or has answered it, with what is still to be received or with errors.      *)
Pending(r, o) ==
    r.asked = <<Req(o)>> /\ r.out = <<>> /\ o.got = <<>> /\ r.state = "running"
Answered(r, o, broken) ==
    /\ r.asked = <<>> /\ Parses(Req(o))
    /\ Len(o.got) < Len(SendReply(o.ask, o.id))
    /\ Len(o.got) + Len(r.out) <= Len(SendReply(o.ask, o.id))
    /\ \A j \in 1..Len(r.out) : r.out[j] = SendReply(o.ask, o.id)[Len(o.got) + j]
    /\ ~broken => /\ Len(o.got) + Len(r.out) = Len(SendReply(o.ask, o.id))
                  /\ r.state # "dead"
Refused(r, o) ==
    /\ r.asked = <<>> /\ ~Parses(Req(o)) /\ o.got = <<>>
    /\ \A j \in 1..Len(r.out) : r.out[j].type = "error"

(* A helper nobody waits for has nothing to do and nothing to say, and runs   *)
(* unless it was killed.                                                      *)
HelperOK(h, r, o, broken) ==
    /\ r \in HelperRec
    /\ ~(o.pc \in {"wait", "failed"} /\ h = o.to) =>
         /\ r.asked = <<>> /\ r.out = <<>>
         /\ r.state = "dead" => broken
    /\ o.pc = "failed" => r.asked = <<>>
    /\ (o.pc = "wait" /\ h = o.to) => Pending(r, o) \/ Answered(r, o, broken) \/ Refused(r, o)

(* What the program and the caches refer to.  A cache holds instances of its  *)
(* own type, so that an instance is in one cache at most.                     *)
InCache(m, c, i) == m[i].kind \in Cached /\ i \in c[m[i].kind].items
MemOK(m, hd, c) ==
    /\ m \in Seq(Instance) /\ hd \in Seq(Nat) /\ Len(hd) = Len(m)
    /\ c \in [Cached -> [items : SUBSET Nat, count : Int]]
    /\ \A k \in Cached : \A i \in c[k].items : i \in 1..Len(m) /\ m[i].kind = k
    /\ \A i \in 1..Len(m) : m[i].refcnt >= hd[i] + (IF InCache(m, c, i) THEN 1 ELSE 0)
    /\ \A i \in 1..Len(m) : m[i].content = m[i].id

CallInv ==
    /\ indexes \in Seq(Pack) /\ fault \in BOOLEAN
    /\ OpOK(op)
    /\ DOMAIN helper = Helper /\ \A h \in Helper : HelperOK(h, helper[h], op, fault)
    /\ op.pc = "failed" => fault \/ ~Parses(Req(op))

ObjectsInv == CallInv /\ MemOK(mem, held, cache)
-----------------------------------------------------------------------------
(* Memory.                                                                    *)

(* No instance is in two caches.                                              *)
LEMMA LiveFromMem ==
    ASSUME MemOK(mem, held, cache)
    PROVE  HeldObjectsAreLive /\ \A i \in DOMAIN mem : mem[i].content = mem[i].id
<1>1. DOMAIN mem = 1..Len(mem) BY DEF MemOK
<1>2. ASSUME NEW i \in 1..Len(mem)
      PROVE  mem[i].refcnt >= held[i] + Cardinality({k \in Cached : i \in cache[k].items})
  <2> DEFINE C == {k \in Cached : i \in cache[k].items}
  <2>1. C = IF InCache(mem, cache, i) THEN {mem[i].kind} ELSE {} BY DEF MemOK, InCache
  <2>2. Cardinality({mem[i].kind}) = 1 BY FS_Singleton
  <2>3. Cardinality({}) = 0 BY FS_EmptySet
  <2>4. Cardinality(C) = IF InCache(mem, cache, i) THEN 1 ELSE 0 BY <2>1, <2>2, <2>3
  <2> HIDE DEF C
  <2>5. mem[i].refcnt >= held[i] + (IF InCache(mem, cache, i) THEN 1 ELSE 0) BY DEF MemOK
  <2>6. mem[i].refcnt >= held[i] + Cardinality(C) BY <2>4, <2>5
  <2> QED BY <2>6 DEF C
<1> QED BY <1>1, <1>2 DEF HeldObjectsAreLive, MemOK

(* The count of an instance changes.                                          *)
LEMMA Recounted ==
    ASSUME NEW x \in Instance, NEW v \in Int
    PROVE  /\ [x EXCEPT !.refcnt = v] \in Instance /\ [x EXCEPT !.refcnt = v].refcnt = v
           /\ [x EXCEPT !.refcnt = v].kind = x.kind /\ [x EXCEPT !.refcnt = v].id = x.id
           /\ [x EXCEPT !.refcnt = v].content = x.content /\ x.refcnt \in Int
  BY DEF Instance

(* The program takes another reference, or gives one back.                    *)
LEMMA CountRef ==
    ASSUME NEW m, NEW hd, NEW c, MemOK(m, hd, c), NEW i \in 1..Len(m), NEW v \in Int,
           NEW g \in Nat, v - m[i].refcnt = g - hd[i]
    PROVE  MemOK([m EXCEPT ![i].refcnt = v], [hd EXCEPT ![i] = g], c)
<1> DEFINE e == [m EXCEPT ![i].refcnt = v]
           f == [hd EXCEPT ![i] = g]
           x == m[i]
           y == [x EXCEPT !.refcnt = v]
<1>1. /\ m \in Seq(Instance) /\ Len(m) \in Nat /\ x \in Instance
      /\ c \in [Cached -> [items : SUBSET Nat, count : Int]]
      /\ hd \in Seq(Nat) /\ Len(hd) = Len(m) /\ hd[i] \in Nat
  BY DEF MemOK
<1>2. e = [m EXCEPT ![i] = y] BY <1>1
<1>3. /\ y \in Instance /\ y.refcnt = v /\ y.kind = x.kind /\ y.id = x.id
      /\ y.content = x.content /\ x.refcnt \in Int
  BY <1>1, Recounted
<1> HIDE DEF y, e
<1>4. /\ e \in Seq(Instance) /\ Len(e) = Len(m) /\ e[i] = y
      /\ \A j \in 1..Len(m) : j # i => e[j] = m[j]
  BY <1>1, <1>2, <1>3, ExceptSeq
<1>5. /\ f \in Seq(Nat) /\ Len(f) = Len(hd) /\ f[i] = g
      /\ \A j \in 1..Len(m) : j # i => f[j] = hd[j]
  BY <1>1, ExceptSeq
<1> HIDE DEF f
<1>6. \A j \in 1..Len(m) : e[j].kind = m[j].kind BY <1>3, <1>4
<1>7. \A j \in 1..Len(m) : InCache(e, c, j) <=> InCache(m, c, j) BY <1>6 DEF InCache
<1>8. ASSUME NEW j \in 1..Len(m)
      PROVE  /\ e[j].refcnt >= f[j] + (IF InCache(e, c, j) THEN 1 ELSE 0)
             /\ e[j].content = e[j].id
  <2>1. /\ m[j].refcnt >= hd[j] + (IF InCache(m, c, j) THEN 1 ELSE 0)
        /\ m[j].content = m[j].id
    BY DEF MemOK
  <2>2. CASE j = i
    <3>1. e[j].refcnt = v /\ f[j] = g /\ x = m[j] BY <1>3, <1>4, <1>5, <2>2
    <3> HIDE DEF x
    <3>2. e[j].refcnt >= f[j] + (IF InCache(e, c, j) THEN 1 ELSE 0)
      BY <1>1, <1>3, <1>7, <2>1, <2>2, <3>1
    <3> QED BY <1>3, <1>4, <2>1, <2>2, <3>1, <3>2
  <2>3. CASE j # i BY <1>4, <1>5, <1>7, <2>1, <2>3
  <2> QED BY <2>2, <2>3
<1>9. \A k \in Cached : \A j \in c[k].items : j \in 1..Len(e) /\ e[j].kind = k
  BY <1>4, <1>6 DEF MemOK
<1>10. MemOK(e, f, c) BY <1>1, <1>4, <1>5, <1>8, <1>9 DEF MemOK
<1> QED BY <1>10 DEF e, f

(* An instance leaves its cache (got_object_cache_add with a full set).       *)
LEMMA EvictOne ==
    ASSUME NEW m, NEW hd, NEW c, MemOK(m, hd, c), NEW k \in Cached, NEW out \in c[k].items,
           NEW n \in Int
    PROVE  MemOK(Evict(m, out), hd,
                 [c EXCEPT ![k] = [items |-> c[k].items \ {out}, count |-> n]])
<1> DEFINE d == [c EXCEPT ![k] = [items |-> c[k].items \ {out}, count |-> n]]
           e == Evict(m, out)
<1>1. /\ m \in Seq(Instance) /\ Len(m) \in Nat /\ out \in 1..Len(m) /\ m[out] \in Instance
      /\ m[out].kind = k /\ c \in [Cached -> [items : SUBSET Nat, count : Int]]
      /\ hd \in Seq(Nat) /\ Len(hd) = Len(m)
  BY DEF MemOK
<1>2. e = [m EXCEPT ![out].refcnt = @ - 1] BY <1>1 DEF Evict
<1>3. e[out] = [m[out] EXCEPT !.refcnt = m[out].refcnt - 1] BY <1>1, <1>2
<1>6. \A j \in 1..Len(m) : j # out => e[j] = m[j] BY <1>1, <1>2
<1> HIDE DEF e
<1>4. /\ e[out].refcnt = m[out].refcnt - 1 /\ e[out].kind = m[out].kind
      /\ e[out].id = m[out].id /\ e[out].content = m[out].content /\ m[out].refcnt \in Int
      /\ e[out] \in Instance
  <2> DEFINE x == m[out]
             v == x.refcnt - 1
             y == e[out]
  <2>1. x \in Instance /\ x.refcnt \in Int BY <1>1 DEF Instance
  <2>2. v \in Int BY <2>1
  <2>3. y = [x EXCEPT !.refcnt = v] BY <1>3
  <2> HIDE DEF v, x, y
  <2>4. /\ y \in Instance /\ y.refcnt = v /\ y.kind = x.kind
        /\ y.id = x.id /\ y.content = x.content
    BY <2>1, <2>2, <2>3, Recounted
  <2> QED BY <2>1, <2>4 DEF v, x, y
<1>5. e \in Seq(Instance) /\ Len(e) = Len(m)
  <2> DEFINE y == e[out]
  <2>1. e = [m EXCEPT ![out] = y] BY <1>1, <1>2 DEF e
  <2>2. y \in Instance BY <1>4
  <2> HIDE DEF y
  <2> QED BY <1>1, <2>1, <2>2, ExceptSeq
<1>7. \A j \in 1..Len(m) : e[j].kind = m[j].kind BY <1>4, <1>6
<1>8. /\ d \in [Cached -> [items : SUBSET Nat, count : Int]]
      /\ d[k].items = c[k].items \ {out} /\ \A q \in Cached : q # k => d[q] = c[q]
  BY <1>1
<1> HIDE DEF d
<1>9. \A q \in Cached : \A j \in d[q].items : j \in 1..Len(e) /\ e[j].kind = q
  <2>1. \A q \in Cached : d[q].items \subseteq c[q].items BY <1>8
  <2> QED BY <1>5, <1>7, <2>1 DEF MemOK
<1>10. \A j \in 1..Len(m) : j # out => (InCache(e, d, j) <=> InCache(m, c, j))
  BY <1>7, <1>8 DEF InCache
<1>11. InCache(m, c, out) /\ ~InCache(e, d, out) BY <1>1, <1>4, <1>8 DEF InCache
<1>12. ASSUME NEW j \in 1..Len(m)
       PROVE  /\ e[j].refcnt >= hd[j] + (IF InCache(e, d, j) THEN 1 ELSE 0)
              /\ e[j].content = e[j].id
  <2>1. /\ m[j].refcnt >= hd[j] + (IF InCache(m, c, j) THEN 1 ELSE 0)
        /\ m[j].content = m[j].id /\ hd[j] \in Nat
    BY <1>1 DEF MemOK
  <2>2. CASE j = out BY <1>4, <1>11, <2>1, <2>2
  <2>3. CASE j # out BY <1>6, <1>10, <2>1, <2>3
  <2> QED BY <2>2, <2>3
<1>13. MemOK(e, hd, d) BY <1>1, <1>5, <1>8, <1>9, <1>12 DEF MemOK
<1> QED BY <1>13 DEF d, e
(* The count of an id set changes, its elements do not.                       *)
LEMMA CountSet ==
    ASSUME NEW m, NEW hd, NEW c, MemOK(m, hd, c), NEW k \in Cached, NEW n \in Int
    PROVE  MemOK(m, hd, [c EXCEPT ![k] = [items |-> c[k].items, count |-> n]])
<1> DEFINE d == [c EXCEPT ![k] = [items |-> c[k].items, count |-> n]]
<1>1. c \in [Cached -> [items : SUBSET Nat, count : Int]] BY DEF MemOK
<1>2. /\ d \in [Cached -> [items : SUBSET Nat, count : Int]]
      /\ \A q \in Cached : d[q].items = c[q].items
  BY <1>1
<1> HIDE DEF d
<1>3. \A j \in 1..Len(m) : InCache(m, d, j) <=> InCache(m, c, j) BY <1>2 DEF InCache
<1>4. MemOK(m, hd, d) BY <1>2, <1>3 DEF MemOK
<1> QED BY <1>4 DEF d

(* An instance is made for a caller, outside the caches.                      *)
LEMMA NewInstance ==
    ASSUME NEW m, NEW hd, NEW c, MemOK(m, hd, c), NEW x \in Instance, NEW g \in Nat,
           x.refcnt >= g, x.content = x.id
    PROVE  MemOK(Append(m, x), Append(hd, g), c)
<1> DEFINE e == Append(m, x)
           f == Append(hd, g)
<1>1. /\ m \in Seq(Instance) /\ Len(m) \in Nat /\ hd \in Seq(Nat) /\ Len(hd) = Len(m)
      /\ c \in [Cached -> [items : SUBSET Nat, count : Int]]
  BY DEF MemOK
<1>2. /\ e \in Seq(Instance) /\ Len(e) = Len(m) + 1 /\ e[Len(m) + 1] = x
      /\ \A j \in 1..Len(m) : e[j] = m[j]
  BY <1>1, AppendProperties
<1>3. /\ f \in Seq(Nat) /\ Len(f) = Len(m) + 1 /\ f[Len(m) + 1] = g
      /\ \A j \in 1..Len(m) : f[j] = hd[j]
  BY <1>1, AppendProperties
<1> HIDE DEF e, f
<1>4. \A k \in Cached : \A j \in c[k].items : j \in 1..Len(m) /\ m[j].kind = k BY DEF MemOK
<1>5. \A k \in Cached : \A j \in c[k].items : j \in 1..Len(e) /\ e[j].kind = k
  BY <1>1, <1>2, <1>4
<1>6. \A j \in 1..Len(m) : InCache(e, c, j) <=> InCache(m, c, j) BY <1>2 DEF InCache
<1>7. ~InCache(e, c, Len(m) + 1) BY <1>1, <1>4 DEF InCache
<1>8. ASSUME NEW j \in 1..Len(e)
      PROVE  /\ e[j].refcnt >= f[j] + (IF InCache(e, c, j) THEN 1 ELSE 0)
             /\ e[j].content = e[j].id
  <2>1. CASE j = Len(m) + 1
    <3>1. x.refcnt \in Int BY DEF Instance
    <3> QED BY <1>2, <1>3, <1>7, <2>1, <3>1
  <2>2. CASE j # Len(m) + 1
    <3>1. j \in 1..Len(m) BY <1>1, <1>2, <2>2
    <3>2. /\ m[j].refcnt >= hd[j] + (IF InCache(m, c, j) THEN 1 ELSE 0)
          /\ m[j].content = m[j].id
      BY <3>1 DEF MemOK
    <3> QED BY <1>2, <1>3, <1>6, <3>1, <3>2
  <2> QED BY <2>1, <2>2
<1>9. MemOK(e, f, c) BY <1>1, <1>2, <1>3, <1>5, <1>8 DEF MemOK
<1> QED BY <1>9 DEF e, f

(* An instance with a reference to spare is put into the cache of its type.   *)
LEMMA PutInCache ==
    ASSUME NEW m, NEW hd, NEW c, MemOK(m, hd, c), NEW k \in Cached, NEW i \in 1..Len(m),
           NEW n \in Int, m[i].kind = k, m[i].refcnt >= hd[i] + 1
    PROVE  MemOK(m, hd, [c EXCEPT ![k] = [items |-> c[k].items \cup {i}, count |-> n]])
<1> DEFINE d == [c EXCEPT ![k] = [items |-> c[k].items \cup {i}, count |-> n]]
<1>1. /\ c \in [Cached -> [items : SUBSET Nat, count : Int]] /\ Len(m) \in Nat
      /\ m \in Seq(Instance) /\ hd \in Seq(Nat) /\ Len(hd) = Len(m)
  BY DEF MemOK
<1>2. /\ d \in [Cached -> [items : SUBSET Nat, count : Int]]
      /\ d[k].items = c[k].items \cup {i} /\ \A q \in Cached : q # k => d[q] = c[q]
  <2>1. i \in Nat BY <1>1
  <2>2. c[k].items \cup {i} \in SUBSET Nat BY <1>1, <2>1
  <2>3. [items |-> c[k].items \cup {i}, count |-> n] \in [items : SUBSET Nat, count : Int]
    BY <2>2
  <2> QED BY <1>1, <2>3
<1> HIDE DEF d
<1>3. \A q \in Cached : \A j \in d[q].items : j \in 1..Len(m) /\ m[j].kind = q
  <2>1. \A q \in Cached : \A j \in c[q].items : j \in 1..Len(m) /\ m[j].kind = q BY DEF MemOK
  <2>2. \A j \in d[k].items : j \in 1..Len(m) /\ m[j].kind = k BY <1>2, <2>1
  <2> QED BY <1>2, <2>1, <2>2
<1>4. \A j \in 1..Len(m) : j # i => (InCache(m, d, j) <=> InCache(m, c, j))
  BY <1>2 DEF InCache
<1>5. ASSUME NEW j \in 1..Len(m)
      PROVE  m[j].refcnt >= hd[j] + (IF InCache(m, d, j) THEN 1 ELSE 0)
  <2>1. m[j].refcnt >= hd[j] + (IF InCache(m, c, j) THEN 1 ELSE 0) BY DEF MemOK
  <2>2. m[j] \in Instance /\ hd[j] \in Nat BY <1>1
  <2>5. m[j].refcnt \in Int BY <2>2 DEF Instance
  <2>3. CASE j = i BY <2>2, <2>3, <2>5
  <2>4. CASE j # i BY <1>4, <2>1, <2>4
  <2> QED BY <2>3, <2>4
<1>6. MemOK(m, hd, d) BY <1>2, <1>3, <1>5 DEF MemOK
<1> QED BY <1>6 DEF d

(* The end of an open function: the new instance, what was evicted for it, and *)
(* the old one that stays in the set if it has the same id.                   *)
LEMMA FinishInv ==
    ASSUME MemOK(mem, held, cache), op.kind \in Kinds, op.id \in Obj, Finish(op.id)
    PROVE  MemOK(mem', held', cache')
<1> DEFINE i == Len(mem) + 1
           k == Type(op.kind)
           caller == IF op.kind = "traverse" THEN 0 ELSE 1
           new == [kind |-> k, id |-> op.id, content |-> op.id, refcnt |-> caller]
           new2 == [new EXCEPT !.refcnt = @ + 1]
<1>1. k \in Kinds /\ caller \in Nat BY DEF Type, Kinds
<1>2. held' = Append(held, caller) BY DEF Finish
<1>3. new \in Instance /\ new.refcnt = caller /\ new.kind = k /\ new.id = new.content
  BY <1>1 DEF Instance
<1>4. new2 \in Instance /\ new2.refcnt = caller + 1 /\ new2.kind = k /\ new2.id = new2.content
  BY <1>1 DEF Instance
<1>5. CASE mem' = Append(mem, new) /\ cache' = cache
  <2> HIDE DEF new, caller
  <2>1. new.refcnt >= caller BY <1>1, <1>3
  <2> QED BY <1>1, <1>2, <1>3, <1>5, <2>1, NewInstance
<1>6. ASSUME k \in Cached, NEW out \in Evictable(k), mem' = Append(Evict(mem, out), new2),
             CacheAdd(k, i, out)
      PROVE  MemOK(mem', held', cache')
  <2> DEFINE rest == cache[k].items \ {out}
  <2>1. PICK n \in Int :
          \/ cache' = [cache EXCEPT ![k] = [items |-> rest, count |-> n]]
          \/ cache' = [cache EXCEPT ![k] = [items |-> rest \cup {i}, count |-> n]]
    <3>1. cache[k].count \in Int BY <1>6 DEF MemOK
    <3> DEFINE n == (IF out = 0 THEN cache[k].count ELSE cache[k].count - 1) + 1
    <3>2. n \in Int BY <3>1
    <3>3. \/ cache' = [cache EXCEPT ![k] = [items |-> rest, count |-> n]]
          \/ cache' = [cache EXCEPT ![k] = [items |-> rest \cup {i}, count |-> n]]
      <4> HIDE DEF k, i
      <4> QED BY <1>6 DEF CacheAdd
    <3> HIDE DEF n
    <3> QED BY <3>2, <3>3
  <2> DEFINE d == [cache EXCEPT ![k] = [items |-> rest, count |-> n]]
             e == Evict(mem, out)
             m == Append(e, new2)
             f == Append(held, caller)
  <2>2. MemOK(e, held, d) /\ Len(e) = Len(mem)
    <3>1. CASE out = 0
      <4>1. e = mem /\ rest = cache[k].items BY <1>6, <3>1 DEF Evict, MemOK
      <4>2. MemOK(mem, held, [cache EXCEPT ![k] = [items |-> cache[k].items, count |-> n]])
        BY <1>6, CountSet
      <4> HIDE DEF rest, k, e
      <4> QED BY <4>1, <4>2
    <3>2. CASE out # 0
      <4>1. out \in cache[k].items BY <1>6, <3>2 DEF Evictable
      <4>2. mem \in Seq(Instance) /\ out \in 1..Len(mem) BY <1>6, <4>1 DEF MemOK
      <4>3. MemOK(e, held, d) BY <1>6, <4>1, EvictOne
      <4>4. Len(held) = Len(mem) /\ Len(held) = Len(e) BY <4>3 DEF MemOK
      <4> QED BY <4>3, <4>4
    <3> QED BY <3>1, <3>2
  <2>3. mem' = m /\ held' = f BY <1>2, <1>6
  <2>4. /\ d[k].items = rest /\ cache \in [Cached -> [items : SUBSET Nat, count : Int]]
        /\ e \in Seq(Instance) /\ held \in Seq(Nat) /\ Len(held) = Len(e) /\ Len(e) \in Nat
    BY <1>6, <2>2 DEF MemOK
  <2>5. [cache EXCEPT ![k] = [items |-> rest \cup {i}, count |-> n]]
          = [d EXCEPT ![k] = [items |-> d[k].items \cup {i}, count |-> n]]
    BY <1>6, <2>4
  <2> HIDE DEF new2, caller, e, k, rest
  <2>6. new2.refcnt >= caller BY <1>1, <1>4
  <2>7. MemOK(m, f, d) BY <1>1, <1>4, <2>2, <2>6, NewInstance
  <2>8. i \in 1..Len(m) /\ m[i] = new2 /\ f[i] = caller BY <1>1, <1>4, <2>2, <2>4, AppendProperties
  <2> HIDE DEF d, m, f, i
  <2>9. m[i].kind = k /\ m[i].refcnt >= f[i] + 1 BY <1>1, <1>4, <2>8
  <2>10. MemOK(m, f, [d EXCEPT ![k] = [items |-> d[k].items \cup {i}, count |-> n]])
    BY <1>6, <2>7, <2>8, <2>9, PutInCache
  <2> QED BY <2>1, <2>3, <2>5, <2>7, <2>10 DEF d
<1> QED BY <1>2, <1>5, <1>6 DEF Finish
-----------------------------------------------------------------------------
(* Messages.                                                                  *)

(* Four messages, of which two were put together before.                      *)
LEMMA FourOf ==
    ASSUME NEW a, NEW b, NEW c, NEW d
    PROVE  <<a>> \o <<b, c>> \o <<d>> = <<a, b, c, d>>
<1> DEFINE S == {a, b, c, d}
           x == <<a>> \o <<b, c>>
           y == x \o <<d>>
           z == <<a, b, c, d>>
<1>1. <<a>> \in Seq(S) /\ <<b, c>> \in Seq(S) /\ <<d>> \in Seq(S) /\ z \in Seq(S) OBVIOUS
<1>2. x \in Seq(S) /\ Len(x) = 3 /\ x[1] = a /\ x[2] = b /\ x[3] = c BY <1>1, ConcatProperties
<1> HIDE DEF x
<1>3. y \in Seq(S) /\ Len(y) = 4 /\ y[1] = a /\ y[2] = b /\ y[3] = c /\ y[4] = d
  <2> DEFINE u == <<d>>
  <2>1. u \in Seq(S) /\ Len(u) = 1 /\ u[1] = d BY <1>1
  <2> HIDE DEF u, S
  <2>2. /\ x \o u \in Seq(S) /\ Len(x \o u) = 4
        /\ \A i \in 1..4 : (x \o u)[i] = IF i <= 3 THEN x[i] ELSE u[i - 3]
    <3>1. /\ x \o u \in Seq(S) /\ Len(x \o u) = Len(x) + Len(u)
          /\ \A i \in 1..(Len(x) + Len(u)) :
               (x \o u)[i] = IF i <= Len(x) THEN x[i] ELSE u[i - Len(x)]
      <4>1. x \in Seq(S) /\ u \in Seq(S) BY <1>2, <2>1
      <4> QED BY <4>1, ConcatProperties, Zenon
    <3>2. Len(x) = 3 /\ Len(u) = 1 BY <1>2, <2>1
    <3> QED BY <3>1, <3>2
  <2> QED BY <1>2, <2>1, <2>2 DEF u
<1>4. Len(z) = 4 /\ z[1] = a /\ z[2] = b /\ z[3] = c /\ z[4] = d OBVIOUS
<1> HIDE DEF y, z
<1>5. \A i \in 1..Len(y) : y[i] = z[i] BY <1>3, <1>4
<1>6. y = z BY <1>1, <1>3, <1>4, <1>5, SeqEqual
<1> QED BY <1>6 DEF x, y, z

(* What a helper sends, and that it is what the receiver waits for.           *)
LEMMA ReplyShape ==
    ASSUME NEW k \in Kinds, NEW o \in Obj
    PROVE  /\ SendReply(k, o) \in Seq(Message) /\ Len(SendReply(k, o)) \in Nat \ {0}
           /\ \A j \in 1..Len(SendReply(k, o)) : SendReply(k, o)[j].id = o
           /\ k = op.ask => /\ Len(Expected) = Len(SendReply(k, o))
                            /\ \A j \in 1..Len(SendReply(k, o)) :
                                 SendReply(k, o)[j].type = Expected[j]
           /\ k = op.ask => Expected[1] # "error"
<1>1. \A t \in MsgType : Msg(t, o) \in Message /\ Msg(t, o).id = o /\ Msg(t, o).type = t
  BY DEF Msg, Message
<1>2. CASE k = "object"
  <2>1. SendReply(k, o) = <<Msg("object", o)>> BY <1>2 DEF SendReply, SendObj
  <2>2. k = op.ask => Expected = <<"object">> BY <1>2 DEF Expected, RecvObj
  <2> QED BY <1>1, <2>1, <2>2 DEF MsgType
<1>3. CASE k = "commit"
  <2>1. SendReply(k, o) = <<Msg("commit", o), Msg("logmsg", o)>> BY <1>3 DEF SendReply, SendCommit
  <2>2. k = op.ask => Expected = <<"commit", "logmsg">> BY <1>3 DEF Expected, RecvCommit
  <2> QED BY <1>1, <2>1, <2>2 DEF MsgType
<1>4. CASE k = "tree"
  <2>1. SendReply(k, o) = <<Msg("tree", o), Msg("entry", o)>> BY <1>4 DEF SendReply, SendTree
  <2>2. k = op.ask => Expected = <<"tree", "entry">> BY <1>4 DEF Expected, RecvTree
  <2> QED BY <1>1, <2>1, <2>2 DEF MsgType
<1>5. CASE k = "blob"
  <2>1. SendReply(k, o) = <<Msg("blob", o)>> BY <1>5 DEF SendReply, SendBlob
  <2>2. k = op.ask => Expected = <<"blob">> BY <1>5 DEF Expected, RecvBlob
  <2> QED BY <1>1, <2>1, <2>2 DEF MsgType
<1>6. CASE k = "tag"
  <2>1. SendReply(k, o) = <<Msg("tag", o), Msg("tagmsg", o)>> BY <1>6 DEF SendReply, SendTag
  <2>2. k = op.ask => Expected = <<"tag", "tagmsg">> BY <1>6 DEF Expected, RecvTag
  <2> QED BY <1>1, <2>1, <2>2 DEF MsgType
<1>7. CASE k = "traverse"
  <2>1. SendReply(k, o) = <<Msg("traversed", o), Msg("commit", o), Msg("logmsg", o), Msg("done", o)>>
    BY <1>7, FourOf DEF SendReply, SendTraversal, SendCommit
  <2>2. k = op.ask => Expected = <<"traversed", "commit", "logmsg", "done">>
    BY <1>7, FourOf DEF Expected, RecvTraversedCommits, RecvCommit
  <2> QED BY <1>1, <2>1, <2>2 DEF MsgType
<1> QED BY <1>2, <1>3, <1>4, <1>5, <1>6, <1>7 DEF Kinds

(* The answer of a helper to a request it may get: the object, or errors.     *)
LEMMA ReplyIs ==
    ASSUME NEW h \in Helper, NEW k \in Kinds, NEW o \in Obj,
           h \in Pack \/ (h = k /\ k # "traverse")
    PROVE  LET req == [kind |-> k, id |-> o] IN
           /\ Parses(req) => Reply(h, req) = SendReply(k, o)
           /\ ~Parses(req) => /\ Reply(h, req) \in Seq(Message)
                              /\ \A j \in 1..Len(Reply(h, req)) : Reply(h, req)[j].type = "error"
<1> DEFINE req == [kind |-> k, id |-> o]
           err == Error(o)
<1>1. req.kind = k /\ req.id = o OBVIOUS
<1>2. err \in Message /\ err.type = "error" BY DEF Error, Msg, Message, MsgType
<1>3. /\ <<err>> \in Seq(Message) /\ \A j \in 1..Len(<<err>>) : <<err>>[j].type = "error"
      /\ <<err, err>> \in Seq(Message) /\ \A j \in 1..Len(<<err, err>>) : <<err, err>>[j].type = "error"
  <2> HIDE DEF err
  <2> QED BY <1>2
<1>4. CASE h \in Pack
  <2>1. Reply(h, req) = PackReply(req)
    <3>1. h \notin {"object", "commit", "tree", "blob", "tag"} BY <1>4, PacksAreNoTypes
    <3> HIDE DEF req
    <3> QED BY <1>4, <3>1 DEF Reply
  <2>2. PackReply(req) = IF Parses(req) THEN SendReply(k, o) ELSE <<err, err>>
    <3> HIDE DEF req
    <3> QED BY <1>1 DEF PackReply
  <2> QED BY <1>3, <2>1, <2>2
<1>5. CASE h \notin Pack
  <2>0. h = k /\ k \in Kinds \ {"traverse"} BY <1>5
  <2>1. Reply(h, req) = IF Parses(req) THEN SendReply(k, o) ELSE <<err>>
    <3>1. CASE k = "object"
      <4>1. Parses(req) BY <1>1, <3>1 DEF Parses
      <4>2. Reply(h, req) = SendObj(o) BY <1>1, <1>5, <2>0, <3>1 DEF Reply, ReadObjectReply
      <4> QED BY <3>1, <4>1, <4>2 DEF SendReply
    <3>2. CASE k = "commit"
      <4>1. Reply(h, req) = ReadCommitReply(req) BY <1>5, <2>0, <3>2 DEF Reply
      <4> QED BY <1>1, <3>2, <4>1 DEF SendReply, ReadCommitReply
    <3>3. CASE k = "tree"
      <4>1. Reply(h, req) = ReadTreeReply(req) BY <1>5, <2>0, <3>3 DEF Reply
      <4> QED BY <1>1, <3>3, <4>1 DEF SendReply, ReadTreeReply
    <3>4. CASE k = "blob"
      <4>1. Reply(h, req) = ReadBlobReply(req) BY <1>5, <2>0, <3>4 DEF Reply
      <4> QED BY <1>1, <3>4, <4>1 DEF SendReply, ReadBlobReply
    <3>5. CASE k = "tag"
      <4>1. Reply(h, req) = ReadTagReply(req) BY <1>5, <2>0, <3>5 DEF Reply
      <4> QED BY <1>1, <3>5, <4>1 DEF SendReply, ReadTagReply
    <3> QED BY <2>0, <3>1, <3>2, <3>3, <3>4, <3>5 DEF Kinds
  <2> QED BY <1>3, <2>1
<1> QED BY <1>4, <1>5
-----------------------------------------------------------------------------
(* Calls.                                                                     *)

(* A helper that is not in a conversation.                                    *)
Quiet(r, broken) ==
    /\ r \in HelperRec /\ r.asked = <<>> /\ r.out = <<>>
    /\ r.state = "dead" => broken

(* As long as no answer is waited for, this is the state of all helpers.      *)
LEMMA HelperQuiet ==
    ASSUME NEW h, NEW r, NEW o, NEW broken, o.pc \notin {"wait", "failed"}
    PROVE  HelperOK(h, r, o, broken) <=> Quiet(r, broken)
  BY DEF HelperOK, Quiet

(* A step before or after a conversation; a pack may be closed in it.         *)
LEMMA QuietCall ==
    ASSUME CallInv, op.pc \notin {"wait", "failed"}, op'.pc \notin {"wait", "failed"}, OpOK(op'),
           indexes' \in Seq(Pack), fault' = fault,
           \/ helper' = helper
           \/ \E h : helper' = [helper EXCEPT ![h] = NoHelper]
    PROVE  CallInv'
<1>1. \A h \in Helper : Quiet(helper[h], fault) BY HelperQuiet DEF CallInv
<1>2. NoHelper \in HelperRec /\ NoHelper.asked = <<>> /\ NoHelper.out = <<>> /\ NoHelper.state = "none"
  BY DEF NoHelper, HelperRec
<1>3. Quiet(NoHelper, fault) BY <1>2 DEF Quiet
<1>4. DOMAIN helper' = Helper /\ \A h \in Helper : helper'[h] \in {helper[h], NoHelper}
  BY DEF CallInv
<1>5. \A h \in Helper : Quiet(helper'[h], fault') BY <1>1, <1>3, <1>4
<1>6. \A h \in Helper : HelperOK(h, helper'[h], op', fault') BY <1>5, HelperQuiet
<1> QED BY <1>4, <1>6 DEF CallInv

(* The call begins.                                                           *)
LEMMA OpenInv ==
    ASSUME CallInv, NEW kind \in Kinds, NEW o \in Obj, OpenUncached(kind, o)
    PROVE  CallInv'
<1> DEFINE r == [NoOp EXCEPT !.pc = "search", !.kind = kind, !.id = o]
<1>1. op' = r /\ op.pc = "idle" /\ indexes' = indexes /\ fault' = fault /\ helper' = helper
  BY DEF OpenUncached
<1>2. r.pc = "search" /\ r.kind = kind /\ r.id = o /\ r.got = <<>> /\ r \in OpRec
  <2>1. NoOp \in OpRec /\ NoOp.got = <<>> BY DEF NoOp, OpRec, Helper
  <2> QED BY <2>1 DEF OpRec
<1> HIDE DEF r
<1>3. OpOK(op') BY <1>1, <1>2 DEF OpOK
<1> QED BY <1>1, <1>2, <1>3, QuietCall DEF CallInv

(* The call ends without an instance: the program looks elsewhere.            *)
LEMMA IdleInv ==
    ASSUME CallInv, op.pc \notin {"wait", "failed"}, op' = NoOp, indexes' = indexes,
           fault' = fault, helper' = helper
    PROVE  CallInv'
<1>1. NoOp \in OpRec /\ NoOp.pc = "idle" /\ NoOp.got = <<>> BY DEF NoOp, OpRec, Helper
<1>2. OpOK(op') BY <1>1 DEF OpOK
<1> QED BY <1>1, <1>2, QuietCall DEF CallInv

(* The pack indexes are searched, those in the cache and the others.          *)
LEMMA SearchInv ==
    ASSUME CallInv, SearchCache \/ \E p \in Pack : SearchDirectory(p)
    PROVE  CallInv'
<1>1. op \in OpRec /\ OpOK(op) /\ indexes \in Seq(Pack) /\ helper' = helper /\ fault' = fault
  BY DEF CallInv, OpOK, SearchCache, SearchDirectory
<1>2. op.pc \in {"search", "scan"} BY DEF SearchCache, SearchDirectory
<1>3. ASSUME NEW pc \in {"scan", "pack"}, NEW p, NEW s \in SUBSET Pack, indexes' \in Seq(Pack),
             \/ p \in Pack /\ op' = [op EXCEPT !.pc = pc, !.seen = s, !.pack = p]
             \/ p \in Pack /\ op' = [op EXCEPT !.pc = pc, !.pack = p]
             \/ pc = "scan" /\ op' = [op EXCEPT !.pc = pc, !.seen = s]
      PROVE  CallInv'
  <2>1. /\ op' \in OpRec /\ op'.pc = pc /\ op'.kind = op.kind /\ op'.id = op.id
        /\ op'.got = op.got /\ (pc = "pack" => op'.pack \in Pack)
    BY <1>1, <1>3 DEF OpRec
  <2>2. OpOK(op') BY <1>1, <1>2, <2>1 DEF OpOK
  <2> QED BY <1>1, <1>2, <1>3, <2>1, <2>2, QuietCall
<1>4. CASE SearchCache
  <2>1. PICK i \in Hits : /\ indexes' = [indexes EXCEPT ![1] = indexes[i], ![i] = indexes[1]]
                          /\ op' = [op EXCEPT !.pc = "pack", !.pack = indexes[i]]
    BY <1>4 DEF SearchCache
  <2>2. i \in 1..Len(indexes) /\ 1 \in 1..Len(indexes) /\ Len(indexes) \in Nat BY <1>1 DEF Hits
  <2>3. indexes[i] \in Pack /\ indexes[1] \in Pack BY <1>1, <2>2
  <2>4. indexes' \in Seq(Pack)
    <3> DEFINE s == [indexes EXCEPT ![1] = indexes[i]]
    <3>1. s \in Seq(Pack) /\ Len(s) = Len(indexes) BY <1>1, <2>2, <2>3, ExceptSeq
    <3>2. indexes' = [s EXCEPT ![i] = indexes[1]] BY <2>1
    <3> HIDE DEF s
    <3> QED BY <2>2, <2>3, <3>1, <3>2, ExceptSeq
  <2>5. {} \in SUBSET Pack OBVIOUS
  <2> QED BY <1>3, <2>1, <2>3, <2>4, <2>5
<1>5. ASSUME NEW p \in Pack, SearchDirectory(p) PROVE CallInv'
  <2>1. op.seen \cup {p} \in SUBSET Pack BY <1>1 DEF OpRec
  <2>2. CASE p \in ToSet(indexes)
    <3>1. op' = [op EXCEPT !.pc = "scan", !.seen = op.seen \cup {p}] /\ indexes' = indexes
      BY <1>5, <2>2 DEF SearchDirectory
    <3> QED BY <1>1, <1>3, <2>1, <3>1
  <2>3. CASE p \notin ToSet(indexes)
    <3> DEFINE pc == IF Has(p, op.id) THEN "pack" ELSE "scan"
    <3>1. /\ op' = [op EXCEPT !.pc = pc, !.seen = op.seen \cup {p}, !.pack = p]
          /\ indexes' = CachePackidx(p)
      BY <1>5, <2>3 DEF SearchDirectory
    <3>2. pc \in {"scan", "pack"} OBVIOUS
    <3>3. CachePackidx(p) \in Seq(Pack)
      <4> DEFINE s == <<p>> \o indexes
                 n == Min({Len(indexes) + 1, PackidxCacheSize})
      <4>1. Len(indexes) + 1 \in Nat /\ PackidxCacheSize \in Nat BY <1>1, CacheSizes
      <4>2. n \in Nat /\ n <= Len(indexes) + 1 BY <4>1 DEF Min
      <4>3. s \in Seq(Pack) /\ Len(s) = Len(indexes) + 1 BY <1>1, ConcatProperties
      <4> HIDE DEF s, n
      <4>4. \A i \in 1..n : s[i] \in Pack BY <4>1, <4>2, <4>3
      <4>5. SubSeq(s, 1, n) \in Seq(Pack) BY <4>2, <4>4, SubSeqProperties
      <4> QED BY <4>5 DEF CachePackidx, s, n
    <3> HIDE DEF pc
    <3> QED BY <1>3, <2>1, <3>1, <3>2, <3>3
  <2> QED BY <2>2, <2>3
<1> QED BY <1>4, <1>5
(* Whom a call asks: the helper of the pack, or the one of the type.          *)
LEMMA AskInv ==
    ASSUME CallInv, OpenLoose \/ CachePack \/ CheckTagType
    PROVE  CallInv'
<1>1. op \in OpRec /\ OpOK(op) /\ indexes' = indexes /\ fault' = fault
  BY DEF CallInv, OpOK, OpenLoose, CachePack, CheckTagType
<1>2. op.pc \in {"search", "scan", "pack", "received"}
  BY DEF OpenLoose, CachePack, CheckTagType
<1>3. op.kind \in Kinds /\ op.id \in Obj BY <1>1, <1>2 DEF OpOK
<1>4. /\ \A k \in Kinds : AskFirst(k) \in Kinds
      /\ AskFirst(op.kind) = IF op.kind = "tag" THEN "object" ELSE op.kind
  BY DEF AskFirst, Kinds
<1>5. [NoOp EXCEPT !.pc = "idle"] = NoOp BY DEF NoOp
<1>6. CASE op' = NoOp /\ helper' = helper BY <1>1, <1>2, <1>6, IdleInv
<1>7. ASSUME NEW to \in Helper, NEW ask \in Kinds, op' = [op EXCEPT !.pc = "ask", !.ask = ask, !.to = to],
             op.kind # "tag" => ask = op.kind,
             op.kind = "tag" => ask = "object" \/ (ask = "tag" /\ TypeOf[op.id] = "tag"),
             to \in Pack \/ (to = ask /\ ask # "traverse"),
             helper' = helper \/ \E h : helper' = [helper EXCEPT ![h] = NoHelper]
      PROVE  CallInv'
  <2>1. /\ op' \in OpRec /\ op'.pc = "ask" /\ op'.kind = op.kind /\ op'.id = op.id
        /\ op'.got = op.got /\ op'.ask = ask /\ op'.to = to
    BY <1>1, <1>7 DEF OpRec
  <2>2. Asks(op') BY <1>7, <2>1 DEF Asks
  <2>3. OpOK(op') BY <1>1, <1>3, <2>1, <2>2 DEF OpOK
  <2> QED BY <1>1, <1>2, <1>7, <2>1, <2>3, QuietCall DEF CallInv
<1>8. CASE OpenLoose
  <2>1. helper' = helper BY <1>8 DEF OpenLoose
  <2>2. CASE op.kind = "traverse" \/ op.id \notin Loose
    BY <1>5, <1>6, <1>8, <2>1, <2>2 DEF OpenLoose, Tolerated
  <2>3. CASE ~(op.kind = "traverse" \/ op.id \notin Loose)
    <3> DEFINE a == AskFirst(op.kind)
    <3>1. op' = [op EXCEPT !.pc = "ask", !.ask = a, !.to = a] BY <1>8, <2>3 DEF OpenLoose
    <3>2. a \in Kinds /\ a # "traverse" BY <1>3, <1>4, <2>3
    <3>3. a \in Helper BY <3>2 DEF Kinds, Helper
    <3> HIDE DEF a
    <3> QED BY <1>4, <1>7, <2>1, <3>1, <3>2, <3>3 DEF a
  <2> QED BY <2>2, <2>3
<1>9. CASE CachePack
  <2>1. op.pack \in Pack BY <1>1, <1>9 DEF OpOK, CachePack
  <2>2. op' = [op EXCEPT !.pc = "ask", !.ask = AskFirst(op.kind), !.to = op.pack]
    BY <1>9 DEF CachePack
  <2>3. helper' = helper \/ helper' = [helper EXCEPT ![Last(packs)] = NoHelper]
    BY <1>9 DEF CachePack
  <2>4. op.pack \in Helper /\ AskFirst(op.kind) \in Kinds BY <1>3, <1>4, <2>1 DEF Helper
  <2> QED BY <1>4, <1>7, <2>1, <2>2, <2>3, <2>4
<1>10. CASE CheckTagType
  <2>1. /\ op.pc = "received" /\ op.kind = "tag" /\ op.ask = "object" /\ helper' = helper
    BY <1>10 DEF CheckTagType
  <2>2. op.got[1].id = op.id BY <1>1, <2>1 DEF OpOK, OpRec
  <2>3. Asks(op) BY <1>1, <2>1 DEF OpOK
  <2>4. CASE TypeOf[op.got[1].id] # "tag" BY <1>5, <1>6, <1>10, <2>1, <2>4 DEF CheckTagType, Tolerated
  <2>5. CASE TypeOf[op.got[1].id] = "tag"
    <3> DEFINE to == IF op.to \in Pack THEN op.to ELSE "tag"
    <3>1. op' = [op EXCEPT !.pc = "ask", !.ask = "tag", !.to = to] BY <1>10, <2>5 DEF CheckTagType
    <3>2. to \in Helper /\ (to \in Pack \/ to = "tag") BY DEF Helper
    <3>3. "tag" \in Kinds BY DEF Kinds
    <3> HIDE DEF to
    <3> QED BY <1>7, <2>1, <2>2, <2>5, <3>1, <3>2, <3>3
  <2> QED BY <2>4, <2>5
<1> QED BY <1>8, <1>9, <1>10

(* The request is sent.  A helper that has exited was killed, for nobody is   *)
(* asked again after an error.                                                *)
LEMMA SendInv ==
    ASSUME CallInv, SendRequest
    PROVE  CallInv'
<1>1. /\ op \in OpRec /\ OpOK(op) /\ op.pc = "ask" /\ indexes' = indexes /\ fault' = fault
      /\ fault \in BOOLEAN /\ indexes \in Seq(Pack) /\ DOMAIN helper = Helper
  BY DEF CallInv, OpOK, SendRequest
<1>2. Asks(op) /\ op.to \in Helper /\ op.kind \in Kinds /\ op.id \in Obj /\ op.ask \in Kinds
  BY <1>1 DEF OpOK, OpRec, Asks
<1>3. \A h \in Helper : Quiet(helper[h], fault) BY <1>1, HelperQuiet DEF CallInv
<1>4. CASE helper[op.to].state = "dead"
  <2>1. helper' = helper /\ op' = [op EXCEPT !.pc = "failed"] BY <1>4 DEF SendRequest, Fails
  <2>2. /\ op' \in OpRec /\ op'.pc = "failed" /\ op'.kind = op.kind /\ op'.id = op.id
        /\ op'.got = op.got /\ op'.ask = op.ask /\ op'.to = op.to
    BY <1>1, <2>1 DEF OpRec
  <2>3. OpOK(op') BY <1>1, <1>2, <2>2 DEF OpOK, Asks
  <2>4. fault BY <1>2, <1>3, <1>4 DEF Quiet
  <2>5. \A h \in Helper : HelperOK(h, helper'[h], op', fault')
    BY <1>1, <1>3, <2>1, <2>2 DEF HelperOK, Quiet
  <2> QED BY <1>1, <2>1, <2>2, <2>3, <2>4, <2>5 DEF CallInv
<1>5. CASE helper[op.to].state # "dead"
  <2> DEFINE q == <<Req(op)>>
             none == <<>>
             old == helper[op.to]
             r == [old EXCEPT !.state = "running", !.asked = q]
  <2>1. /\ helper' = [helper EXCEPT ![op.to] = r] /\ op' = [op EXCEPT !.pc = "wait", !.got = <<>>]
    BY <1>1, <1>5 DEF SendRequest, Req
  <2>2. /\ op' \in OpRec /\ op'.pc = "wait" /\ op'.kind = op.kind /\ op'.id = op.id
        /\ op'.got = <<>> /\ op'.ask = op.ask /\ op'.to = op.to
    <3>1. none \in Seq(Message) /\ op' = [op EXCEPT !.pc = "wait", !.got = none] BY <2>1
    <3> HIDE DEF none
    <3>2. /\ op' \in OpRec /\ op'.pc = "wait" /\ op'.kind = op.kind /\ op'.id = op.id
          /\ op'.got = none /\ op'.ask = op.ask /\ op'.to = op.to
      BY <1>1, <3>1 DEF OpRec
    <3> QED BY <3>2 DEF none
  <2>3. OpOK(op') BY <1>1, <1>2, <2>2 DEF OpOK, Asks
  <2>4. Req(op') = Req(op) /\ Req(op) \in Request BY <1>2, <2>2 DEF Req, Request
  <2>5. old \in HelperRec /\ old.out = <<>> BY <1>2, <1>3 DEF Quiet
  <2>6. r \in HelperRec /\ r.state = "running" /\ r.asked = <<Req(op)>> /\ r.out = <<>>
    <3>1. q \in Seq(Request) BY <2>4
    <3> HIDE DEF q, old
    <3>2. r \in HelperRec /\ r.state = "running" /\ r.asked = q /\ r.out = old.out
      BY <2>5, <3>1 DEF HelperRec
    <3> QED BY <2>5, <3>2 DEF q
  <2>7. DOMAIN helper' = Helper /\ helper'[op.to] = r BY <1>1, <1>2, <2>1
  <2>8. \A h \in Helper : h # op.to => helper'[h] = helper[h] BY <1>1, <2>1
  <2> HIDE DEF r
  <2>9. Pending(r, op') BY <2>2, <2>4, <2>6 DEF Pending
  <2>10. ASSUME NEW h \in Helper PROVE HelperOK(h, helper'[h], op', fault')
    <3>1. CASE h = op.to BY <2>2, <2>6, <2>7, <2>9, <3>1 DEF HelperOK
    <3>2. CASE h # op.to BY <1>1, <1>3, <2>2, <2>8, <3>2 DEF HelperOK, Quiet
    <3> QED BY <3>1, <3>2
  <2> QED BY <1>1, <2>2, <2>3, <2>7, <2>10 DEF CallInv
<1> QED BY <1>4, <1>5
(* The helper answers.                                                        *)
LEMMA ServeInv ==
    ASSUME CallInv, NEW h \in Helper, Serve(h)
    PROVE  CallInv'
<1> DEFINE r == helper[h]
           R == SendReply(op.ask, op.id)
<1>1. /\ op \in OpRec /\ OpOK(op) /\ op' = op /\ indexes' = indexes /\ fault' = fault
      /\ fault \in BOOLEAN /\ indexes \in Seq(Pack) /\ DOMAIN helper = Helper
      /\ HelperOK(h, r, op, fault)
  BY DEF CallInv, OpOK, Serve
<1>2. r.asked # <<>> BY DEF Serve
<1>3. op.pc = "wait" /\ h = op.to /\ Pending(r, op)
  BY <1>1, <1>2 DEF HelperOK, Answered, Refused
<1>4. /\ Asks(op) /\ op.ask \in Kinds /\ op.id \in Obj /\ (h \in Pack \/ (h = op.ask /\ op.ask # "traverse"))
  BY <1>1, <1>3 DEF OpOK, Asks
<1> DEFINE req == Req(op)
           reply == Reply(h, req)
           s == IF Parses(req) THEN "running" ELSE "dead"
           out == <<>> \o reply
           new == [state |-> s, asked |-> <<>>, out |-> out]
<1>5. Head(r.asked) = req /\ r.out = <<>> /\ op.got = <<>> BY <1>3 DEF Pending
<1>6. helper' = [helper EXCEPT ![h] = new] BY <1>1, <1>5 DEF Serve
<1>7. R \in Seq(Message) /\ Len(R) \in Nat \ {0} BY <1>4, ReplyShape
<1>8. /\ Parses(req) => reply = R
      /\ ~Parses(req) => /\ reply \in Seq(Message)
                         /\ \A j \in 1..Len(reply) : reply[j].type = "error"
  BY <1>4, ReplyIs DEF Req
<1>9. reply \in Seq(Message) BY <1>7, <1>8
<1> HIDE DEF reply, req
<1>10. out = reply BY <1>9, ConcatEmptySeq
<1> HIDE DEF out
<1>11. s \in {"running", "dead"} OBVIOUS
<1>12. new \in HelperRec /\ new.asked = <<>> /\ new.out = reply /\ new.state = s
  <2> HIDE DEF s
  <2> QED BY <1>9, <1>10, <1>11 DEF HelperRec
<1>13. helper'[h] = new /\ DOMAIN helper' = Helper /\ \A q \in Helper : q # h => helper'[q] = helper[q]
  BY <1>1, <1>6
<1> HIDE DEF new, R
<1>14. Answered(new, op, fault) \/ Refused(new, op)
  <2>1. CASE Parses(req)
    <3>1. Len(op.got) = 0 /\ new.out = R /\ new.state = "running" BY <1>5, <1>8, <1>12, <2>1
    <3>2. Len(op.got) < Len(R) /\ Len(op.got) + Len(R) = Len(R) BY <1>7, <3>1
    <3>3. \A j \in 1..Len(new.out) : new.out[j] = R[Len(op.got) + j] BY <3>1
    <3>4. Answered(new, op, fault) BY <1>7, <1>12, <2>1, <3>1, <3>2, <3>3 DEF Answered, R, req
    <3> QED BY <3>4
  <2>2. CASE ~Parses(req)
    <3>1. Refused(new, op) BY <1>5, <1>8, <1>12, <2>2 DEF Refused, req
    <3> QED BY <3>1
  <2> QED BY <2>1, <2>2
<1>15. HelperOK(h, new, op, fault) BY <1>3, <1>12, <1>14 DEF HelperOK
<1>16. \A q \in Helper : HelperOK(q, helper'[q], op', fault') BY <1>1, <1>13, <1>15 DEF CallInv
<1> QED BY <1>1, <1>13, <1>16 DEF CallInv

(* A prefix of a sequence.                                                    *)
LEMMA PrefixOf ==
    ASSUME NEW S, NEW s \in Seq(S), NEW n \in 0..Len(s)
    PROVE  /\ SubSeq(s, 1, n) \in Seq(S) /\ Len(SubSeq(s, 1, n)) = n /\ n <= Len(s)
           /\ \A j \in 1..n : SubSeq(s, 1, n)[j] = s[j]
           /\ s = <<>> => SubSeq(s, 1, n) = <<>>
<1>1. Len(s) \in Nat /\ n \in Nat /\ n <= Len(s) OBVIOUS
<1>2. \A j \in 1..n : s[j] \in S BY <1>1
<1>3. SubSeq(s, 1, n) \in Seq(S) /\ Len(SubSeq(s, 1, n)) = n BY <1>1, <1>2, SubSeqProperties
<1>4. \A j \in 1..n : SubSeq(s, 1, n)[j] = s[j] BY <1>1, <1>2, SubSeqProperties
<1>5. s = <<>> => SubSeq(s, 1, n) = <<>>
  <2>1. s = <<>> => n < 1 BY <1>1
  <2> QED BY <1>1, <2>1, SubSeqEmpty
<1> QED BY <1>1, <1>3, <1>4, <1>5

(* A helper is killed, perhaps with an answer half sent.                      *)
LEMMA KillHelperInv ==
    ASSUME CallInv, NEW h \in Helper, KillHelper(h)
    PROVE  CallInv'
<1> DEFINE r == helper[h]
<1>1. /\ op \in OpRec /\ OpOK(op) /\ op' = op /\ indexes' = indexes /\ fault' = TRUE
      /\ indexes \in Seq(Pack) /\ DOMAIN helper = Helper /\ HelperOK(h, r, op, fault)
  BY DEF CallInv, OpOK, KillHelper
<1>2. PICK n \in 0..Len(r.out) :
        helper' = [helper EXCEPT ![h] = [state |-> "dead", asked |-> <<>>,
                                         out |-> SubSeq(r.out, 1, n)]]
  BY DEF KillHelper
<1> DEFINE out == SubSeq(r.out, 1, n)
           new == [state |-> "dead", asked |-> <<>>, out |-> out]
<1>3. r \in HelperRec /\ r.out \in Seq(Message) BY <1>1 DEF HelperOK, HelperRec
<1>4. /\ out \in Seq(Message) /\ Len(out) = n /\ n <= Len(r.out) /\ n \in Nat /\ Len(r.out) \in Nat
      /\ \A j \in 1..n : out[j] = r.out[j]
      /\ r.out = <<>> => out = <<>>
  BY <1>3, PrefixOf
<1>5. /\ helper'[h] = new /\ DOMAIN helper' = Helper
      /\ \A q \in Helper : q # h => helper'[q] = helper[q]
  BY <1>1, <1>2
<1> HIDE DEF out
<1>6. new \in HelperRec /\ new.asked = <<>> /\ new.out = out BY <1>4 DEF HelperRec
<1> HIDE DEF new, r
<1>7. ASSUME op.pc = "wait", h = op.to PROVE Answered(new, op, TRUE) \/ Refused(new, op)
  <2> DEFINE R == SendReply(op.ask, op.id)
  <2>1. op.ask \in Kinds /\ op.id \in Obj BY <1>1, <1>7 DEF OpOK, Asks
  <2>2. R \in Seq(Message) /\ Len(R) \in Nat \ {0} BY <2>1, ReplyShape
  <2> HIDE DEF R
  <2>3. CASE Pending(r, op)
    <3>1. r.out = <<>> /\ op.got = <<>> BY <2>3 DEF Pending
    <3>2. out = <<>> /\ Len(out) = 0 /\ Len(op.got) = 0 BY <1>4, <3>1
    <3>3. CASE Parses(Req(op))
      <4>1. /\ Len(op.got) < Len(R) /\ Len(op.got) + Len(new.out) <= Len(R)
            /\ \A j \in 1..Len(new.out) : new.out[j] = R[Len(op.got) + j]
        BY <1>6, <2>2, <3>2
      <4> QED BY <1>6, <3>3, <4>1 DEF Answered, R
    <3>4. CASE ~Parses(Req(op))
      <4>1. \A j \in 1..Len(new.out) : new.out[j].type = "error" BY <1>6, <3>2
      <4> QED BY <1>6, <3>1, <3>4, <4>1 DEF Refused
    <3> QED BY <3>3, <3>4
  <2>4. CASE Answered(r, op, fault)
    <3>1. /\ Parses(Req(op)) /\ Len(op.got) < Len(R) /\ Len(op.got) + Len(r.out) <= Len(R)
          /\ \A j \in 1..Len(r.out) : r.out[j] = R[Len(op.got) + j]
      BY <2>4 DEF Answered, R
    <3>2. Len(op.got) \in Nat BY <1>1 DEF OpRec
    <3>3. Len(op.got) + Len(new.out) <= Len(R)
      <4> DEFINE a == Len(op.got)
                 b == Len(new.out)
                 c == Len(r.out)
                 d == Len(R)
      <4>1. b \in Nat /\ b <= c /\ c \in Nat BY <1>4, <1>6
      <4>2. a \in Nat /\ d \in Nat /\ a + c <= d BY <2>2, <3>1, <3>2
      <4> HIDE DEF a, b, c, d
      <4>3. a + b <= d BY <4>1, <4>2
      <4> QED BY <4>3 DEF a, b, d
    <3>4. ASSUME NEW j \in 1..Len(new.out) PROVE new.out[j] = R[Len(op.got) + j]
      <4>1. j \in 1..n /\ j \in 1..Len(r.out) BY <1>4, <1>6
      <4>2. new.out[j] = r.out[j] BY <1>4, <1>6, <4>1
      <4> QED BY <3>1, <4>1, <4>2
    <3> QED BY <1>6, <3>1, <3>3, <3>4 DEF Answered, R
  <2>5. CASE Refused(r, op)
    <3>1. \A j \in 1..Len(new.out) : new.out[j].type = "error" BY <1>4, <1>6, <2>5 DEF Refused
    <3> QED BY <1>6, <2>5, <3>1 DEF Refused
  <2> QED BY <1>1, <1>7, <2>3, <2>4, <2>5 DEF HelperOK
<1>8. ~(op.pc \in {"wait", "failed"} /\ h = op.to) => new.out = <<>>
  BY <1>1, <1>4, <1>6 DEF HelperOK
<1>9. HelperOK(h, new, op, TRUE) BY <1>6, <1>7, <1>8 DEF HelperOK
<1>10. ASSUME NEW q \in Helper, NEW x, HelperOK(q, x, op, fault) PROVE HelperOK(q, x, op, TRUE)
  BY <1>10 DEF HelperOK, Answered
<1>11. \A q \in Helper : HelperOK(q, helper'[q], op', fault')
  BY <1>1, <1>5, <1>9, <1>10 DEF CallInv
<1> QED BY <1>1, <1>5, <1>11 DEF CallInv
(* A message is received.  What comes is what is expected, unless the request *)
(* was refused or the helper was killed; the last message ends the answer.    *)
LEMMA RecvInv ==
    ASSUME CallInv, RecvImsg
    PROVE  CallInv'
<1> DEFINE r == helper[op.to]
           R == SendReply(op.ask, op.id)
<1>1. /\ op \in OpRec /\ OpOK(op) /\ indexes' = indexes /\ fault' = fault /\ op.pc = "wait"
      /\ fault \in BOOLEAN /\ indexes \in Seq(Pack) /\ DOMAIN helper = Helper /\ r.asked = <<>>
  BY DEF CallInv, OpOK, RecvImsg
<1>2. /\ Asks(op) /\ op.ask \in Kinds /\ op.id \in Obj /\ op.to \in Helper /\ op.kind \in Kinds
      /\ op.got \in Seq(Message) /\ Len(op.got) \in Nat
  BY <1>1 DEF OpOK, Asks, OpRec
<1>3. HelperOK(op.to, r, op, fault) /\ r \in HelperRec /\ r.out \in Seq(Message) /\ Len(r.out) \in Nat
  BY <1>2 DEF CallInv, HelperOK, HelperRec
<1>4. Answered(r, op, fault) \/ Refused(r, op)
  BY <1>1, <1>3 DEF HelperOK, Pending
<1>5. /\ R \in Seq(Message) /\ Len(R) \in Nat \ {0} /\ Len(Expected) = Len(R)
      /\ \A j \in 1..Len(R) : R[j].id = op.id /\ R[j].type = Expected[j]
      /\ Expected[1] # "error"
  BY <1>2, ReplyShape
<1> HIDE DEF R
<1>6. ASSUME NEW x \in HelperRec, x.asked = <<>>, DOMAIN helper' = Helper, helper'[op.to] = x,
             \A h \in Helper : h # op.to => helper'[h] = helper[h],
             op' = [op EXCEPT !.pc = "failed"], fault \/ ~Parses(Req(op))
      PROVE  CallInv'
  <2>1. /\ op' \in OpRec /\ op'.pc = "failed" /\ op'.kind = op.kind /\ op'.id = op.id
        /\ op'.got = op.got /\ op'.ask = op.ask /\ op'.to = op.to
    BY <1>1, <1>6 DEF OpRec
  <2>2. OpOK(op') BY <1>1, <1>2, <2>1 DEF OpOK, Asks
  <2>4. ASSUME NEW h \in Helper PROVE HelperOK(h, helper'[h], op', fault')
    <3>1. CASE h = op.to BY <1>6, <2>1, <3>1 DEF HelperOK
    <3>2. CASE h # op.to
      <4>1. HelperOK(h, helper[h], op, fault) BY DEF CallInv
      <4> QED BY <1>1, <1>6, <2>1, <3>2, <4>1 DEF HelperOK
    <3> QED BY <3>1, <3>2
  <2>5. fault' \/ ~Parses(Req(op')) BY <1>1, <1>6, <2>1 DEF Req
  <2> QED BY <1>1, <1>6, <2>2, <2>4, <2>5 DEF CallInv
<1>7. CASE r.out = <<>> /\ r.state = "dead" /\ Fails /\ helper' = helper
  <2>1. /\ DOMAIN helper' = Helper /\ helper'[op.to] = r
        /\ \A h \in Helper : h # op.to => helper'[h] = helper[h]
    BY <1>1, <1>7
  <2>2. fault \/ ~Parses(Req(op)) BY <1>4, <1>7 DEF Answered, Refused
  <2> HIDE DEF r
  <2> QED BY <1>1, <1>3, <1>6, <1>7, <2>1, <2>2 DEF Fails
<1>8. CASE r.out # <<>>
  <2> DEFINE x == [r EXCEPT !.out = Tail(r.out)]
             m == Head(r.out)
             g == Len(op.got)
  <2>1. /\ DOMAIN helper' = Helper /\ helper'[op.to] = x
        /\ \A h \in Helper : h # op.to => helper'[h] = helper[h]
    BY <1>1, <1>2, <1>8 DEF RecvImsg
  <2>2. /\ m = r.out[1] /\ m \in Message /\ Tail(r.out) \in Seq(Message)
        /\ Len(Tail(r.out)) = Len(r.out) - 1 /\ Len(r.out) >= 1
        /\ \A j \in 1..(Len(r.out) - 1) : Tail(r.out)[j] = r.out[j + 1]
    BY <1>3, <1>8, HeadTailProperties
  <2>3. x \in HelperRec /\ x.asked = <<>> /\ x.state = r.state /\ x.out = Tail(r.out)
    <3> DEFINE t == Tail(r.out)
    <3>1. t \in Seq(Message) BY <2>2
    <3> HIDE DEF t, r
    <3>2. [r EXCEPT !.out = t] \in HelperRec BY <1>3, <3>1 DEF HelperRec
    <3>3. /\ [r EXCEPT !.out = t].asked = r.asked /\ [r EXCEPT !.out = t].state = r.state
          /\ [r EXCEPT !.out = t].out = t
      BY <1>3 DEF HelperRec
    <3> QED BY <1>1, <3>2, <3>3 DEF t
  <2> HIDE DEF x
  <2>4. CASE m.type # Expected[g + 1]
    <3>1. op' = [op EXCEPT !.pc = "failed"] BY <1>8, <2>4 DEF RecvImsg, Fails
    <3>2. ~Answered(r, op, fault)
      <4>1. SUFFICES ASSUME Answered(r, op, fault) PROVE FALSE OBVIOUS
      <4>2. m = R[g + 1] BY <1>2, <2>2, <4>1 DEF Answered, R
      <4>3. g + 1 \in 1..Len(R) BY <1>2, <1>5, <4>1 DEF Answered, R
      <4> QED BY <1>5, <2>4, <4>2, <4>3
    <3>3. fault \/ ~Parses(Req(op)) BY <1>4, <3>2 DEF Refused
    <3> QED BY <1>6, <2>1, <2>3, <3>1, <3>3
  <2>5. CASE m.type = Expected[g + 1]
    <3> DEFINE pc == IF g + 1 = Len(Expected) THEN "received" ELSE "wait"
               got == Append(op.got, m)
    <3>1. op' = [op EXCEPT !.got = got, !.pc = pc] BY <1>1, <1>8, <2>5 DEF RecvImsg
    <3>2. Answered(r, op, fault)
      <4>1. SUFFICES ASSUME Refused(r, op) PROVE FALSE BY <1>4
      <4>2. m.type = "error" /\ g = 0 BY <2>2, <4>1 DEF Refused
      <4> QED BY <1>5, <2>5, <4>2
    <3>3. /\ Parses(Req(op)) /\ g < Len(R) /\ g + Len(r.out) <= Len(R)
          /\ \A j \in 1..Len(r.out) : r.out[j] = R[g + j]
          /\ ~fault => g + Len(r.out) = Len(R) /\ r.state # "dead"
      BY <3>2 DEF Answered, R
    <3>4. m.id = op.id
      <4>1. m = R[g + 1] /\ g + 1 \in 1..Len(R) BY <1>2, <1>5, <2>2, <3>3
      <4> QED BY <1>5, <4>1
    <3>5. /\ got \in Seq(Message) /\ Len(got) = g + 1 /\ got[g + 1] = m
          /\ \A j \in 1..g : got[j] = op.got[j]
      BY <1>2, <2>2, AppendProperties
    <3>6. pc \in {"received", "wait"} /\ (pc = "received" <=> g + 1 = Len(R)) BY <1>5
    <3> HIDE DEF pc, got
    <3>7. /\ op' \in OpRec /\ op'.pc = pc /\ op'.kind = op.kind /\ op'.id = op.id
          /\ op'.got = got /\ op'.ask = op.ask /\ op'.to = op.to
      BY <1>1, <3>1, <3>5, <3>6 DEF OpRec
    <3>8. \A j \in 1..Len(got) : got[j].id = op.id
      <4>1. \A j \in 1..g : op.got[j].id = op.id BY <1>1 DEF OpOK
      <4> QED BY <1>2, <3>4, <3>5, <4>1
    <3>9. OpOK(op') BY <1>1, <1>2, <3>5, <3>6, <3>7, <3>8 DEF OpOK, Asks
    <3>11. pc = "wait" => Answered(x, op', fault)
      <4> SUFFICES ASSUME pc = "wait" PROVE Answered(x, op', fault) OBVIOUS
      <4>1. g + 1 < Len(R) BY <1>2, <1>5, <3>3, <3>6
      <4>2. Len(got) + Len(x.out) = g + Len(r.out)
        <5> DEFINE a == Len(got)
                   b == Len(x.out)
                   c == Len(r.out)
        <5>1. g \in Nat /\ a = g + 1 /\ c \in Nat /\ b = c - 1 BY <1>2, <1>3, <2>2, <2>3, <3>5
        <5> HIDE DEF a, b, c, g
        <5>2. a + b = g + c BY <5>1
        <5> QED BY <5>2 DEF a, b, c
      <4>3. ASSUME NEW j \in 1..Len(x.out) PROVE x.out[j] = R[Len(got) + j]
        <5>1. j + 1 \in 1..Len(r.out) /\ j \in 1..(Len(r.out) - 1) BY <1>3, <2>2, <2>3
        <5>2. x.out[j] = R[g + (j + 1)] BY <2>2, <2>3, <3>3, <5>1
        <5>3. g + (j + 1) = Len(got) + j
          <6>1. g \in Nat /\ j \in Nat /\ Len(got) = g + 1 BY <1>2, <3>5, <5>1
          <6> HIDE DEF g
          <6> QED BY <6>1
        <5> QED BY <5>2, <5>3
      <4>4. Parses(Req(op')) /\ R = SendReply(op'.ask, op'.id) BY <3>3, <3>7 DEF Req, R
      <4>5. /\ Len(op'.got) < Len(R) /\ Len(op'.got) + Len(x.out) <= Len(R)
            /\ \A j \in 1..Len(x.out) : x.out[j] = R[Len(op'.got) + j]
            /\ ~fault => Len(op'.got) + Len(x.out) = Len(R) /\ x.state # "dead"
        BY <2>3, <3>3, <3>5, <3>7, <4>1, <4>2, <4>3
      <4> QED BY <2>3, <4>4, <4>5 DEF Answered
    <3>12. pc = "received" => x.out = <<>> /\ (x.state = "dead" => fault)
      <4> SUFFICES ASSUME pc = "received" PROVE x.out = <<>> /\ (x.state = "dead" => fault) OBVIOUS
      <4>1. Len(r.out) = 1
        <5> DEFINE c == Len(r.out)
                   d == Len(R)
        <5>1. g \in Nat /\ c \in Nat /\ c >= 1 /\ g + c <= d /\ g + 1 = d /\ d \in Nat
          BY <1>2, <1>3, <1>5, <2>2, <3>3, <3>6
        <5> HIDE DEF g, c, d
        <5>2. c = 1 BY <5>1
        <5> QED BY <5>2 DEF c
      <4>2. Len(x.out) = 0 /\ x.out \in Seq(Message) BY <2>2, <2>3, <4>1
      <4> QED BY <2>3, <3>3, <4>2, EmptySeq
    <3>13. ASSUME NEW h \in Helper PROVE HelperOK(h, helper'[h], op', fault')
      <4>1. CASE h = op.to
        BY <1>1, <2>1, <2>3, <3>6, <3>7, <3>11, <3>12, <4>1 DEF HelperOK
      <4>2. CASE h # op.to
        <5>1. HelperOK(h, helper[h], op, fault) BY DEF CallInv
        <5> QED BY <1>1, <2>1, <3>6, <3>7, <4>2, <5>1 DEF HelperOK
      <4> QED BY <4>1, <4>2
    <3> QED BY <1>1, <2>1, <3>6, <3>7, <3>9, <3>13 DEF CallInv
  <2> QED BY <2>4, <2>5
<1> QED BY <1>7, <1>8 DEF RecvImsg
-----------------------------------------------------------------------------
(* Every step keeps the state of the calls and helpers.                       *)
LEMMA CallStep ==
    ASSUME CallInv, [ObjectsNext]_objectsVars
    PROVE  CallInv'
<1>1. CASE UNCHANGED <<indexes, fault, op, helper>> BY <1>1 DEF CallInv
<1>2. ASSUME NEW kind \in Kinds, NEW o \in Obj, OpenUncached(kind, o) PROVE CallInv'
  BY <1>2, OpenInv
<1>3. CASE \E o \in Obj : \/ OpenObject(o) \/ OpenCommit(o) \/ OpenTree(o) \/ OpenTag(o)
                          \/ OpenBlob(o) \/ TraversePackedCommits(o)
  <2>1. PICK o \in Obj : \/ \E kind \in Kinds : OpenUncached(kind, o)
                         \/ \E kind \in Cached : OpenCached(kind, o)
    BY <1>3 DEF OpenObject, OpenCommit, OpenTree, OpenTag, OpenBlob, TraversePackedCommits, Kinds,
                Cached
  <2>2. ASSUME NEW kind, OpenCached(kind, o) PROVE CallInv' BY <1>1, <2>2 DEF OpenCached
  <2> QED BY <1>2, <2>1, <2>2
<1>4. CASE UNCHANGED objectsVars BY <1>1, <1>4 DEF objectsVars
<1>5. ASSUME NEW i, Close(i) PROVE CallInv' BY <1>1, <1>5 DEF Close
<1>6. ASSUME NEW p, InstallPackidx(p) PROVE CallInv' BY <1>1, <1>6 DEF InstallPackidx
<1>7. CASE Received
  <2>1. /\ op.pc = "received" /\ op' = NoOp /\ indexes' = indexes /\ fault' = fault
        /\ helper' = helper
    BY <1>7 DEF Received, Finish, Return
  <2> QED BY <2>1, IdleInv
<1>8. CASE SearchCache \/ \E p \in Pack : SearchDirectory(p) BY <1>8, SearchInv
<1>9. CASE OpenLoose \/ CachePack \/ CheckTagType BY <1>9, AskInv
<1>10. CASE SendRequest BY <1>10, SendInv
<1>11. CASE RecvImsg BY <1>11, RecvInv
<1>12. ASSUME NEW h \in Helper, Serve(h) \/ KillHelper(h) PROVE CallInv'
  BY <1>12, ServeInv, KillHelperInv
<1> QED
  BY <1>3, <1>4, <1>5, <1>6, <1>7, <1>8, <1>9, <1>10, <1>11, <1>12 DEF ObjectsNext

(* And that of the memory.                                                    *)
LEMMA MemStep ==
    ASSUME CallInv, MemOK(mem, held, cache), [ObjectsNext]_objectsVars
    PROVE  MemOK(mem', held', cache')
<1>0. /\ mem \in Seq(Instance) /\ held \in Seq(Nat) /\ Len(held) = Len(mem)
      /\ DOMAIN mem = 1..Len(mem)
  BY DEF MemOK
<1>1. CASE UNCHANGED <<mem, held, cache>> BY <1>1
<1>2. ASSUME NEW i \in 1..Len(mem), NEW n \in {-1, 1}, held[i] + n \in Nat, cache' = cache,
             mem' = [mem EXCEPT ![i].refcnt = mem[i].refcnt + n],
             held' = [held EXCEPT ![i] = held[i] + n]
      PROVE  MemOK(mem', held', cache')
  <2> DEFINE v == mem[i].refcnt + n
             g == held[i] + n
  <2>1. mem[i] \in Instance /\ held[i] \in Nat BY <1>0
  <2>2. mem[i].refcnt \in Int BY <2>1 DEF Instance
  <2>3. v \in Int /\ g \in Nat /\ v - mem[i].refcnt = g - held[i] BY <1>2, <2>1, <2>2
  <2>4. mem' = [mem EXCEPT ![i].refcnt = v] /\ held' = [held EXCEPT ![i] = g] BY <1>2
  <2> HIDE DEF v, g
  <2>5. MemOK([mem EXCEPT ![i].refcnt = v], [held EXCEPT ![i] = g], cache) BY <2>3, CountRef
  <2> QED BY <1>2, <2>4, <2>5
<1>3. ASSUME NEW kind \in Cached, NEW o, OpenCached(kind, o) PROVE MemOK(mem', held', cache')
  <2>1. PICK i \in cache[kind].items : /\ mem' = [mem EXCEPT ![i].refcnt = @ + 1]
                                       /\ held' = [held EXCEPT ![i] = @ + 1]
    BY <1>3 DEF OpenCached
  <2>2. i \in 1..Len(mem) BY DEF MemOK
  <2>3. held[i] + 1 \in Nat BY <1>0, <2>2
  <2>4. cache' = cache BY <1>3 DEF OpenCached
  <2> QED BY <1>0, <1>2, <2>1, <2>2, <2>3, <2>4
<1>4. ASSUME NEW i \in DOMAIN mem, Close(i) PROVE MemOK(mem', held', cache')
  <2>1. i \in 1..Len(mem) /\ held[i] \in Nat BY <1>0
  <2>2. held[i] + (-1) \in Nat BY <1>4, <2>1 DEF Close
  <2>3. /\ mem' = [mem EXCEPT ![i].refcnt = mem[i].refcnt - 1]
        /\ held' = [held EXCEPT ![i] = held[i] - 1] /\ cache' = cache
    BY <1>0, <1>4, <2>1 DEF Close
  <2>4. mem[i].refcnt \in Int
    <3>1. mem[i] \in Instance BY <1>0, <2>1
    <3> QED BY <3>1 DEF Instance
  <2>5. held[i] - 1 = held[i] + (-1) /\ mem[i].refcnt - 1 = mem[i].refcnt + (-1) BY <2>1, <2>4
  <2> QED BY <1>2, <2>1, <2>2, <2>3, <2>5
<1>5. CASE Received
  <2>1. op.pc = "received" /\ Finish(op.got[1].id) BY <1>5 DEF Received
  <2>2. op.got[1].id = op.id /\ op.kind \in Kinds /\ op.id \in Obj
    BY <2>1 DEF CallInv, OpOK, OpRec
  <2> QED BY <2>1, <2>2, FinishInv
<1>6. CASE \E o \in Obj : \/ OpenObject(o) \/ OpenCommit(o) \/ OpenTree(o) \/ OpenTag(o)
                          \/ OpenBlob(o) \/ TraversePackedCommits(o)
  <2>1. PICK o \in Obj : \/ \E kind \in Kinds : OpenUncached(kind, o)
                         \/ \E kind \in Cached : OpenCached(kind, o)
    BY <1>6 DEF OpenObject, OpenCommit, OpenTree, OpenTag, OpenBlob, TraversePackedCommits, Kinds,
                Cached
  <2>2. ASSUME NEW kind, OpenUncached(kind, o) PROVE MemOK(mem', held', cache')
    BY <1>1, <2>2 DEF OpenUncached
  <2> QED BY <1>3, <2>1, <2>2
<1>7. CASE SearchCache \/ \E p \in Pack : SearchDirectory(p) \/ InstallPackidx(p)
  BY <1>1, <1>7 DEF SearchCache, SearchDirectory, InstallPackidx
<1>8. CASE OpenLoose \/ CachePack \/ CheckTagType \/ SendRequest \/ RecvImsg
  BY <1>1, <1>8 DEF OpenLoose, CachePack, CheckTagType, SendRequest, RecvImsg
<1>9. ASSUME NEW h, Serve(h) \/ KillHelper(h) PROVE MemOK(mem', held', cache')
  BY <1>1, <1>9 DEF Serve, KillHelper
<1>10. CASE UNCHANGED objectsVars BY <1>1, <1>10 DEF objectsVars
<1> QED BY <1>4, <1>5, <1>6, <1>7, <1>8, <1>9, <1>10 DEF ObjectsNext

(* At first there are no helpers, and the caches are empty.                   *)
LEMMA ObjectsInitInv == ObjectsInit => ObjectsInv
<1> SUFFICES ASSUME ObjectsInit PROVE ObjectsInv OBVIOUS
<1>1. /\ indexes = <<>> /\ helper = [h \in Helper |-> NoHelper] /\ op = NoOp /\ fault = FALSE
      /\ cache = [k \in Cached |-> [items |-> {}, count |-> 0]] /\ mem = <<>> /\ held = <<>>
  BY DEF ObjectsInit, ObjectsStart
<1>2. NoOp \in OpRec /\ NoOp.pc = "idle" /\ NoOp.got = <<>> BY DEF NoOp, OpRec, Helper
<1>3. OpOK(op) BY <1>1, <1>2 DEF OpOK
<1>4. NoHelper \in HelperRec /\ NoHelper.asked = <<>> /\ NoHelper.out = <<>> /\ NoHelper.state = "none"
  BY DEF NoHelper, HelperRec
<1>5. \A h \in Helper : HelperOK(h, helper[h], op, fault) BY <1>1, <1>2, <1>4 DEF HelperOK
<1>6. DOMAIN helper = Helper /\ indexes \in Seq(Pack) BY <1>1
<1>7. CallInv BY <1>1, <1>2, <1>3, <1>5, <1>6 DEF CallInv
<1>8. MemOK(mem, held, cache)
  <2>1. mem \in Seq(Instance) /\ held \in Seq(Nat) /\ Len(mem) = 0 /\ Len(held) = 0 BY <1>1
  <2>2. cache \in [Cached -> [items : SUBSET Nat, count : Int]] /\ \A k \in Cached : cache[k].items = {}
    BY <1>1
  <2> QED BY <2>1, <2>2 DEF MemOK
<1> QED BY <1>7, <1>8 DEF ObjectsInv

(* The invariant is one.                                                      *)
LEMMA ObjectsStepInv ==
    ASSUME ObjectsInv, [ObjectsNext]_objectsVars
    PROVE  ObjectsInv'
  BY CallStep, MemStep DEF ObjectsInv

(* No instance of an object that the program or a cache refers to is freed: the counts
   that got_repo_cache_commit, got_object_cache_add, got_traverse_packed_commits and the
   close functions keep are never too small, for any cache size, and with ids added
   twice. *)
THEOREM ObjectsStayLive == ObjectsSpec => []HeldObjectsAreLive
<1>1. ObjectsInit => ObjectsInv BY ObjectsInitInv
<1>2. ObjectsInv /\ [ObjectsNext]_objectsVars => ObjectsInv' BY ObjectsStepInv
<1>3. ObjectsInv => HeldObjectsAreLive BY LiveFromMem DEF ObjectsInv
<1> QED BY <1>1, <1>2, <1>3, PTL DEF ObjectsSpec

(* Objects handed out are those asked for, and a read of an object of the right type
   fails only after a helper was killed, whatever was looked up before, closed, evicted
   or installed meanwhile: the conversations over the socket pairs never get out of step
   (got_object_open_as_commit and its kin, open_tag, the receivers in privsep.c and the
   helpers' main loops). *)
THEOREM ObjectsReadRight == ObjectsSpec => []ReadsReturnTheObject
<1>1. ObjectsInit => ObjectsInv BY ObjectsInitInv
<1>2. ObjectsInv /\ [ObjectsNext]_objectsVars => ObjectsInv' BY ObjectsStepInv
<1>3. ObjectsInv => ReadsReturnTheObject
  <2> SUFFICES ASSUME ObjectsInv PROVE ReadsReturnTheObject OBVIOUS
  <2>1. \A i \in DOMAIN mem : mem[i].content = mem[i].id BY LiveFromMem DEF ObjectsInv
  <2>2. ASSUME op.pc = "failed", ~fault, op.kind # "tag"
        PROVE  ~Parses([kind |-> op.kind, id |-> op.id])
    <3>1. ~Parses(Req(op)) /\ op.ask = op.kind BY <2>2 DEF ObjectsInv, CallInv, OpOK, Asks
    <3> QED BY <3>1 DEF Req
  <2>3. ASSUME op.pc = "failed", ~fault, op.kind = "tag" PROVE FALSE
    <3>1. ~Parses(Req(op)) /\ (op.ask = "object" \/ (op.ask = "tag" /\ TypeOf[op.id] = "tag"))
      BY <2>3 DEF ObjectsInv, CallInv, OpOK, Asks
    <3> QED BY <3>1 DEF Req, Parses, Type
  <2> QED BY <2>1, <2>2, <2>3 DEF ReadsReturnTheObject
<1> QED BY <1>1, <1>2, <1>3, PTL DEF ObjectsSpec
=============================================================================

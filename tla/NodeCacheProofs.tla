-------------------------- MODULE NodeCacheProofs --------------------------
(***************************************************************************)
(* Proofs about NodeCache, for every forest, policy and assignment of      *)
(* dependencies: that caches are never stale, as long as states are set    *)
(* between requests; that riders are processed once and shared nodes come  *)
(* to one result; and that caches keep no update from a parameter.         *)
(***************************************************************************)
EXTENDS NodeCache, TLAPS, FiniteSetTheorems

-----------------------------------------------------------------------------
(* What the operations on request identifiers do to every field, for       *)
(* identifiers of any length.                                              *)

(* setSubId gives the masked fields the value and keeps every other field. *)
THEOREM FieldOfSetSubId ==
    ASSUME NEW id, NEW mask \in SUBSET Fields, NEW value, NEW f \in Fields
    PROVE  Field(SetSubId(id, mask, value), f) = IF f \in mask THEN value ELSE Field(id, f)
<1> DEFINE D == DOMAIN Resized(id, mask)
<1>1. D = DOMAIN id \cup {g \in Fields : \E m \in mask : g <= m}
  BY DEF Resized
<1>2. CASE f \in mask
  <2>1. f <= f
    BY NBitsAssumption DEF Fields
  <2>2. f \in D
    BY <1>1, <1>2, <2>1
  <2> QED
    BY <1>2, <2>2 DEF Field, SetSubId
<1>3. CASE f \notin mask /\ f \in D
  BY <1>3 DEF Field, SetSubId
<1>4. CASE f \notin mask /\ f \notin D
  BY <1>1, <1>4 DEF Field, SetSubId
<1> QED
  BY <1>2, <1>3, <1>4

(* incrSubId adds one to the masked fields and keeps every other field. *)
THEOREM FieldOfIncrSubId ==
    ASSUME NEW id, NEW mask \in SUBSET Fields, NEW f \in Fields
    PROVE  Field(IncrSubId(id, mask), f) = IF f \in mask THEN Field(id, f) + 1 ELSE Field(id, f)
<1> DEFINE D == DOMAIN Resized(id, mask)
<1>1. D = DOMAIN id \cup {g \in Fields : \E m \in mask : g <= m}
  BY DEF Resized
<1>2. CASE f \in mask
  <2>1. f <= f
    BY NBitsAssumption DEF Fields
  <2>2. f \in D
    BY <1>1, <1>2, <2>1
  <2> HIDE DEF D
  <2>3. IncrSubId(id, mask)
          = [g \in D |-> IF g \in mask THEN Field(id, g) + 1 ELSE Field(id, g)]
    BY DEF IncrSubId, D
  <2>4. IncrSubId(id, mask)[f] = Field(id, f) + 1
    BY <1>2, <2>2, <2>3
  <2>5. f \in DOMAIN IncrSubId(id, mask)
    BY <2>2, <2>3
  <2>6. Field(IncrSubId(id, mask), f) = IncrSubId(id, mask)[f]
    BY <2>5, Zenon DEF Field
  <2> QED
    BY <1>2, <2>4, <2>6
<1>3. CASE f \notin mask /\ f \in D
  BY <1>3 DEF Field, IncrSubId
<1>4. CASE f \notin mask /\ f \notin D
  BY <1>1, <1>4 DEF Field, IncrSubId
<1> QED
  BY <1>2, <1>3, <1>4

(* maskSubId keeps the masked fields and clears the others, so that two    *)
(* identifiers that agree in the masked fields read the same afterwards.   *)
THEOREM FieldOfMaskSubId ==
    ASSUME NEW id, NEW mask \in SUBSET Fields, mask # {}, NEW f \in Fields
    PROVE  Field(MaskSubId(id, mask), f) = IF f \in mask THEN Field(id, f) ELSE 0
BY DEF Field, MaskSubId

(* The identifier that incrSubId makes differs from the old one in the     *)
(* masked fields, each of them, and in no other.                           *)
THEOREM IncrementIsTheDifference ==
    ASSUME NEW id, IsId(id), NEW mask \in SUBSET Fields
    PROVE  DiffMask(IncrSubId(id, mask), id) = mask
<1>1. ASSUME NEW f \in Fields
      PROVE  Field(IncrSubId(id, mask), f) # Field(id, f) <=> f \in mask
  <2>1. Field(id, f) \in Nat
    BY DEF IsId
  <2>2. Field(id, f) + 1 # Field(id, f)
    BY <2>1
  <2> QED
    BY <2>2, FieldOfIncrSubId
<1> QED
  BY <1>1 DEF DiffMask

(* For identifiers that are not empty the masked comparison and the mask   *)
(* of differences agree: the two ways in which the code asks the question. *)
THEOREM MaskedCompareIsNoDifference ==
    ASSUME NEW id1, NEW id2, id1 # <<>>, id2 # <<>>, NEW mask \in SUBSET Fields
    PROVE  MaskedCompare(id1, id2, mask) <=> DiffMask(id1, id2) \cap mask = {}
BY DEF MaskedCompare, DiffMask

-----------------------------------------------------------------------------

(* What is said of an answer a of node k to identifier id: it has parts    *)
(* from under k only, for the fields of id, and depends on their fields.   *)
Shape(k, a, id) ==
    /\ \A x \in a.parts : /\ x.node \in Below[k]
                          /\ x.seen = Seen(x.node, id)
                          /\ Deps[x.node] \cup {TypeField} \subseteq a.deps
    /\ a.code = "ok" /\ Field(id, TypeField) # PU => {x.node : x \in a.parts} = Below[k]
    /\ Field(id, TypeField) = PU => a.parts = {}

(* A marked node under k makes the answer depend on the state field. *)
Marks(k, deps, marked) == \A f \in Below[k] : marked[f] => StateField \in deps

(* An answer given during the present request. *)
AnsOK(k, a, marked) ==
    /\ Shape(k, a, request.id)
    /\ \A x \in a.parts : x.version = version[x.node]
    /\ a.code \notin {"abort", "wait"} /\ Field(request.id, TypeField) # PU
         => Marks(k, a.deps, marked)
    /\ request.update =>
         \A x \in a.parts : x.node \in Solvable => lastId[x.node] = request.id
    /\ a.code = "abort" => aborting

(* A cached part is of the present state, or a field that the entry        *)
(* depends on has moved on since.                                          *)
Suspect(n, x) ==
    \/ StateField \in CachedDeps(n) /\ Field(cache[n].id, StateField) < stateId
    \/ IterField \in CachedDeps(n) /\ Field(cache[n].id, IterField) < iteration

EntryOK(n) ==
    cache[n].valid =>
        /\ Shape(n, cache[n].answer, cache[n].id)
        /\ cache[n].answer.code \in {"ok", "fail", "missing"}
        /\ TypeField \in cache[n].answer.deps
        /\ Field(cache[n].id, StateField) <= stateId
        /\ Field(cache[n].id, IterField) <= iteration
        /\ \A x \in cache[n].answer.parts :
              x.version = version[x.node] \/ Suspect(n, x)
        /\ Field(cache[n].id, TypeField) # PU => Marks(n, CachedDeps(n), stateDep)
        /\ request # None /\ request.update /\ Field(cache[n].id, IterField) = iteration
             => \A x \in cache[n].answer.parts :
                   x.node \in Solvable => lastId[x.node] = request.id

CacheInv == \A n \in Nodes : EntryOK(n)

GotInv == \A p \in Nodes : \A k \in Kids[p] :
              Executing(p) /\ k \notin pending[p] => AnsOK(k, got[p][k], stateDep)

ExecInv ==
    \A n \in Nodes :
        /\ pending[n] \subseteq Kids[n]
        /\ Executing(n) => request # None /\ lastId[n] = request.id
        /\ ~Executing(n) => pending[n] = {}
        /\ caller[n] \in Nodes => n \in pending[caller[n]]
        /\ caller[n] = Client => n = request.root

RequestInv ==
    request # None =>
        /\ Field(request.id, TypeField) \in {EV, E1, PU}
        /\ Field(request.id, StateField) = stateId
        /\ Field(request.id, IterField) = iteration

IInv == TypeOK /\ CacheInv /\ GotInv /\ ExecInv /\ RequestInv

-----------------------------------------------------------------------------
(* Facts about the forest and the fields. *)

LEMMA FieldFacts ==
    /\ TypeField \in Fields /\ IterField \in Fields /\ StateField \in Fields
    /\ DomField \in Fields
    /\ TypeField # StateField /\ TypeField # IterField /\ StateField # IterField
    /\ DomField # TypeField /\ DomField # StateField /\ DomField # IterField
BY NBitsAssumption, DependencyAssumption DEF Fields, TypeField, IterField, StateField, DomField

LEMMA ForestFacts ==
    ASSUME NEW n \in Nodes
    PROVE  /\ n \in Below[n]
           /\ Below[n] \subseteq Nodes
           /\ Kids[n] \subseteq Nodes
           /\ \A k \in Kids[n] : Below[k] \subseteq Below[n]
           /\ \A m \in Below[n] : m = n \/ \E k \in Kids[n] : m \in Below[k]
           /\ n # None /\ n # Client
<1>1. Below[n] = {n} \cup UNION {Below[k] : k \in Kids[n]}
  BY ForestAssumption
<1>2. Below[n] \subseteq Nodes /\ Kids[n] \subseteq Nodes
  BY ForestAssumption
<1> QED
  BY <1>1, <1>2, ForestAssumption

(* The identifier that the client makes has the fields that it was given.  *)
LEMMA FieldsOfNewId ==
    ASSUME NEW type \in Nat, NEW iter \in Nat, NEW dom \in Nat, stateId \in Nat
    PROVE  LET id == NewId(type, iter, dom)
           IN  /\ Field(id, TypeField) = type
               /\ Field(id, IterField) = iter
               /\ Field(id, StateField) = stateId
               /\ IsId(id)
<1> DEFINE id1 == SetSubId(<<>>, {TypeField}, type)
           id2 == SetSubId(id1, {IterField}, iter)
           id3 == SetSubId(id2, {StateField}, stateId)
           id4 == SetSubId(id3, {DomField}, dom)
<1>1. \A f \in Fields : Field(id1, f) = IF f = TypeField THEN type ELSE 0
  <2>1. \A f \in Fields : Field(<<>>, f) = 0
    BY DEF Field
  <2> QED
    BY <2>1, FieldFacts, FieldOfSetSubId
<1> HIDE DEF id1
<1>2. \A f \in Fields : Field(id2, f) = IF f = IterField THEN iter ELSE Field(id1, f)
  BY FieldFacts, FieldOfSetSubId
<1> HIDE DEF id2
<1>3. \A f \in Fields : Field(id3, f) = IF f = StateField THEN stateId ELSE Field(id2, f)
  BY FieldFacts, FieldOfSetSubId
<1> HIDE DEF id3
<1>4. \A f \in Fields : Field(id4, f) = IF f = DomField THEN dom ELSE Field(id3, f)
  BY FieldFacts, FieldOfSetSubId
<1>5. id4 = NewId(type, iter, dom)
  BY DEF NewId, id1, id2, id3, id4
<1> HIDE DEF id4
<1>6. \A f \in Fields : Field(id4, f) \in Nat
  BY <1>1, <1>2, <1>3, <1>4
<1> QED
  BY <1>1, <1>2, <1>3, <1>4, <1>5, <1>6, FieldFacts DEF IsId

(* When the node that the client called has nothing pending, no other is   *)
(* executing: every caller is waited for by its own, up to the client.     *)
LEMMA NobodyElse ==
    ASSUME ExecInv, caller \in [Nodes -> Nodes \cup {Client, None}],
           NEW n \in Nodes, n = request.root, pending[n] = {}
    PROVE  \A m \in Nodes : Executing(m) => m = n
<1> DEFINE S == {m \in Nodes : Executing(m) /\ m # n}
<1> SUFFICES ASSUME S # {} PROVE FALSE
  OBVIOUS
<1>1. PICK m \in S : \A p \in S : m \notin Kids[p]
  BY ForestAssumption
<1>2. caller[m] # Client /\ caller[m] # None
  BY <1>1 DEF ExecInv, Executing
<1>3. caller[m] \in Nodes
  BY <1>1, <1>2
<1>4. m \in pending[caller[m]]
  BY <1>1, <1>3 DEF ExecInv
<1>5. Executing(caller[m]) /\ m \in Kids[caller[m]]
  BY <1>3, <1>4 DEF ExecInv
<1>6. caller[m] # n
  BY <1>4
<1> QED
  BY <1>1, <1>3, <1>5, <1>6

-----------------------------------------------------------------------------
(* What the steps do to the cache entries. *)

(* A step that stores no result of m leaves its entry, drops it, or adds   *)
(* to the fields that it depends on.                                       *)
EntryKept(m) ==
    cache'[m].valid =>
        /\ cache[m].valid
        /\ cache'[m].id = cache[m].id
        /\ cache'[m].answer.parts = cache[m].answer.parts
        /\ cache'[m].answer.code = cache[m].answer.code
        /\ cache[m].answer.deps \subseteq cache'[m].answer.deps
        /\ CachedDeps(m) \subseteq CachedDeps(m)'

(* What the steps of a request do to everything else that an entry's       *)
(* soundness depends on.                                                   *)
Onward ==
    /\ stateId' = stateId /\ iteration' = iteration
    /\ request' = request \/ request' = None
    /\ \A f \in Nodes : stateDep'[f] => stateDep[f]
    /\ \A f \in Nodes :
          \/ lastId'[f] = lastId[f]
          \/ request # None /\ lastId'[f] = request.id
    /\ \A f \in Nodes :
          \/ version'[f] = version[f]
          \/ f \in Solvable /\ request # None /\ request.update /\ lastId[f] # request.id

LEMMA EntryStaysOK ==
    ASSUME TypeOK, RequestInv, NEW m \in Nodes, EntryOK(m), EntryKept(m), Onward
    PROVE  EntryOK(m)'
<1> DEFINE e == cache[m]
<1> SUFFICES ASSUME cache'[m].valid PROVE EntryOK(m)'
  BY DEF EntryOK
<1>1. /\ e.valid
      /\ cache'[m].id = e.id
      /\ cache'[m].answer.parts = e.answer.parts
      /\ cache'[m].answer.code = e.answer.code
      /\ e.answer.deps \subseteq cache'[m].answer.deps
      /\ CachedDeps(m) \subseteq CachedDeps(m)'
  BY DEF EntryKept
<1>2. /\ Shape(m, e.answer, e.id)
      /\ e.answer.code \in {"ok", "fail", "missing"}
      /\ TypeField \in e.answer.deps
      /\ Field(e.id, StateField) <= stateId
      /\ Field(e.id, IterField) <= iteration
      /\ \A x \in e.answer.parts : x.version = version[x.node] \/ Suspect(m, x)
      /\ Field(e.id, TypeField) # PU => Marks(m, CachedDeps(m), stateDep)
      /\ request # None /\ request.update /\ Field(e.id, IterField) = iteration
           => \A x \in e.answer.parts : x.node \in Solvable => lastId[x.node] = request.id
  BY <1>1 DEF EntryOK
<1>3. Below[m] \subseteq Nodes
  BY ForestFacts
<1>4. Field(e.id, IterField) \in Nat /\ iteration \in Nat
  BY FieldFacts DEF TypeOK, IsId
<1>5. Shape(m, cache'[m].answer, cache'[m].id)
  BY <1>1, <1>2 DEF Shape
<1>6. /\ TypeField \in cache'[m].answer.deps
      /\ cache'[m].answer.code \in {"ok", "fail", "missing"}
  BY <1>1, <1>2
<1>7. /\ Field(cache'[m].id, StateField) <= stateId'
      /\ Field(cache'[m].id, IterField) <= iteration'
  BY <1>1, <1>2 DEF Onward
<1>8. ASSUME NEW x \in cache'[m].answer.parts
      PROVE  x.version = version'[x.node] \/ Suspect(m, x)'
  <2>1. x \in e.answer.parts /\ x.node \in Nodes
    BY <1>1, <1>2, <1>3 DEF Shape
  <2>2. Suspect(m, x) => Suspect(m, x)'
    BY <1>1 DEF Suspect, Onward
  <2>3. CASE version'[x.node] = version[x.node]
    BY <1>2, <2>1, <2>2, <2>3
  <2>4. CASE x.node \in Solvable /\ request # None /\ request.update /\ lastId[x.node] # request.id
    <3>1. Field(e.id, IterField) # iteration
      BY <1>2, <2>1, <2>4
    <3>2. Field(e.id, IterField) < iteration
      BY <1>2, <1>4, <3>1
    <3>3. IterField \in e.answer.deps
      BY <1>2, <2>1, <2>4, SolvableAssumption DEF Shape
    <3> QED
      BY <3>2, <3>3, <2>2 DEF Suspect, CachedDeps
  <2> QED
    BY <2>1, <2>3, <2>4 DEF Onward
<1>9. Field(cache'[m].id, TypeField) # PU => Marks(m, CachedDeps(m)', stateDep')
  BY <1>1, <1>2, <1>3 DEF Marks, Onward
<1>10. request' # None /\ request'.update /\ Field(cache'[m].id, IterField) = iteration'
         => \A x \in cache'[m].answer.parts :
               x.node \in Solvable => lastId'[x.node] = request'.id
  BY <1>1, <1>2, SolvableAssumption DEF Onward
<1> QED
  BY <1>5, <1>6, <1>7, <1>8, <1>9, <1>10 DEF EntryOK

(* cacheResult: the node's own entry is the answer or nothing; every other *)
(* is as it was or dropped; the mark of the node is gone.                  *)
LEMMA CacheResultEffect ==
    ASSUME TypeOK, NEW n \in Nodes, NEW r, NEW a, CacheResult(n, r, a)
    PROVE  /\ cache'[n].valid =>
                cache'[n] = [valid |-> TRUE, id |-> r.id, answer |-> Typed(a)]
           /\ \A m \in Nodes \ {n} : cache'[m].valid => cache'[m] = cache[m]
           /\ stateDep' = [stateDep EXCEPT ![n] = FALSE]
<1> DEFINE diff == DiffMask(r.id, r.next)
           keep == ShouldCache(n, Typed(a), diff)
           hold(k) == ~LongCache(n, Typed(a), diff) /\ got[n][k].deps \cap diff = {}
           after == [m \in Nodes |-> CASE m = n -> NoHints
                                       [] m \in Kids[n] -> Hinted(m, hold(m))
                                       [] OTHER -> hints[m]]
<1>1. cache' = [m \in Nodes |->
               CASE m = n ->
                      IF keep THEN [valid |-> TRUE, id |-> r.id, answer |-> Typed(a)]
                              ELSE [cache[m] EXCEPT !.valid = FALSE]
                 [] m \in Kids[n] /\ Releases(m, after[m]) ->
                      [cache[m] EXCEPT !.valid = FALSE]
                 [] OTHER -> cache[m]]
  BY Zenon DEF CacheResult
<1>2. n \notin Kids[n]
  BY ForestAssumption
<1> HIDE DEF keep, after
<1>3. \A m \in Nodes : [cache[m] EXCEPT !.valid = FALSE].valid # TRUE
  BY DEF TypeOK
<1>4. cache'[n] = IF keep THEN [valid |-> TRUE, id |-> r.id, answer |-> Typed(a)]
                          ELSE [cache[n] EXCEPT !.valid = FALSE]
  BY <1>1, <1>2
<1>5. ASSUME NEW m \in Nodes \ {n}
      PROVE  cache'[m] = cache[m] \/ cache'[m] = [cache[m] EXCEPT !.valid = FALSE]
  BY <1>1
<1>6. stateDep' = [stateDep EXCEPT ![n] = FALSE]
  BY DEF CacheResult
<1> QED
  BY <1>3, <1>4, <1>5, <1>6

-----------------------------------------------------------------------------
(* The answers that a node gives. *)

(* A hit: the fields that the entry depends on are those of the request,   *)
(* so no part is suspect; derivatives are stripped off where only the type *)
(* differs.                                                                *)
LEMMA HitIsOK ==
    ASSUME IInv, NEW n \in Nodes, request # None, Hit(n, request.id)
    PROVE  AnsOK(n, CachedAnswer(n, request.id), stateDep)
<1> DEFINE e == cache[n]
           id == request.id
           b == CachedAnswer(n, id)
<1>1. e.valid /\ (SameForUs(n, id) \/ SameButDerivatives(n, id))
  BY DEF Hit, Comparable
<1>2. /\ Shape(n, e.answer, e.id)
      /\ e.answer.code \in {"ok", "fail", "missing"}
      /\ TypeField \in e.answer.deps
      /\ Field(e.id, StateField) <= stateId
      /\ Field(e.id, IterField) <= iteration
      /\ \A x \in e.answer.parts : x.version = version[x.node] \/ Suspect(n, x)
      /\ Field(e.id, TypeField) # PU => Marks(n, CachedDeps(n), stateDep)
      /\ request.update /\ Field(e.id, IterField) = iteration
           => \A x \in e.answer.parts : x.node \in Solvable => lastId[x.node] = id
  BY <1>1 DEF IInv, CacheInv, EntryOK
<1>3. /\ Field(id, StateField) = stateId
      /\ Field(id, IterField) = iteration
      /\ Field(id, TypeField) \in {EV, E1, PU}
      /\ stateId \in Nat /\ iteration \in Nat
  BY DEF IInv, RequestInv, TypeOK
<1>4. IsAnswer(e.answer)
  BY DEF IInv, TypeOK
<1>5. e.answer.deps \subseteq CachedDeps(n) /\ CachedDeps(n) \subseteq Fields
  BY <1>4, FieldFacts DEF CachedDeps, IsAnswer
<1>6. b = [e.answer EXCEPT !.deps = CachedDeps(n),
                           !.parts = IF SameForUs(n, id) THEN @ ELSE Stripped(@, id)]
  BY DEF CachedAnswer
<1>7. /\ b.code = e.answer.code
      /\ b.deps = CachedDeps(n)
      /\ b.parts = IF SameForUs(n, id) THEN e.answer.parts ELSE Stripped(e.answer.parts, id)
  BY <1>4, <1>6 DEF IsAnswer
<1> HIDE DEF b
<1>8. \A f \in CachedDeps(n) : f = TypeField \/ Field(e.id, f) = Field(id, f)
  BY <1>1, <1>5 DEF SameForUs, SameButDerivatives, DiffMask
<1>9. ASSUME SameForUs(n, id) PROVE \A f \in CachedDeps(n) : Field(e.id, f) = Field(id, f)
  BY <1>5, <1>9 DEF SameForUs, DiffMask
<1>10. Field(e.id, TypeField) # PU \/ SameForUs(n, id)
  BY <1>1, <1>3 DEF SameButDerivatives, EvalMode, EV, E1, PU
<1>11. Field(id, TypeField) = PU => SameForUs(n, id)
  BY <1>1 DEF SameButDerivatives, EvalMode, EV, E1, PU
<1>12. TypeField \in CachedDeps(n)
  BY <1>2, <1>5
<1>13. ASSUME NEW x \in e.answer.parts
       PROVE  x.version = version[x.node]
  <2>1. StateField \in CachedDeps(n) => Field(e.id, StateField) = stateId
    BY <1>3, <1>8, FieldFacts
  <2>2. IterField \in CachedDeps(n) => Field(e.id, IterField) = iteration
    BY <1>3, <1>8, FieldFacts
  <2> QED
    BY <1>2, <1>3, <2>1, <2>2 DEF Suspect
<1>14. ASSUME NEW x \in e.answer.parts
       PROVE  /\ x.node \in Below[n] /\ x.node \in Nodes
              /\ DOMAIN x = {"node", "version", "seen"}
              /\ x.seen = Seen(x.node, e.id)
              /\ Deps[x.node] \cup {TypeField} \subseteq CachedDeps(n)
  BY <1>2, <1>4, <1>5 DEF Shape, IsAnswer
(* Each part of the answer comes from one of the entry, of the same node   *)
(* and version.                                                            *)
<1>15. ASSUME NEW y \in b.parts
       PROVE  \E x \in e.answer.parts : /\ y.node = x.node
                                        /\ y.version = x.version
                                        /\ y.seen = Seen(x.node, id)
  <2>1. CASE SameForUs(n, id)
    <3>1. y \in e.answer.parts
      BY <1>7, <2>1
    <3>2. \A f \in Deps[y.node] \cup {TypeField} : Field(e.id, f) = Field(id, f)
      BY <1>9, <1>14, <2>1, <3>1
    <3>3. Seen(y.node, e.id) = Seen(y.node, id)
      BY <3>2 DEF Seen
    <3> QED
      BY <1>14, <3>1, <3>3
  <2>2. CASE ~SameForUs(n, id)
    <3>1. PICK x \in e.answer.parts : y = [x EXCEPT !.seen[TypeField] = Field(id, TypeField)]
      BY <1>7, <2>2 DEF Stripped
    <3>2. /\ y.node = x.node /\ y.version = x.version
          /\ y.seen = [x.seen EXCEPT ![TypeField] = Field(id, TypeField)]
      BY <1>14, <3>1
    <3>3. \A f \in Deps[x.node] : f = TypeField \/ Field(e.id, f) = Field(id, f)
      BY <1>8, <1>14
    <3>4. [x.seen EXCEPT ![TypeField] = Field(id, TypeField)] = Seen(x.node, id)
      BY ZenonT(40), <1>14, <3>3 DEF Seen
    <3> QED
      BY <3>2, <3>4
  <2> QED
    BY <2>1, <2>2
<1>16. {y.node : y \in b.parts} = {x.node : x \in e.answer.parts}
  <2>1. CASE SameForUs(n, id)
    BY <1>7, <2>1
  <2>2. CASE ~SameForUs(n, id)
    <3>1. \A x \in e.answer.parts :
             [x EXCEPT !.seen[TypeField] = Field(id, TypeField)] \in b.parts
      BY <1>7, <2>2 DEF Stripped
    <3>2. \A x \in e.answer.parts :
             [x EXCEPT !.seen[TypeField] = Field(id, TypeField)].node = x.node
      BY <1>14
    <3> QED
      BY ZenonT(40), <1>15, <3>1, <3>2
  <2> QED
    BY <2>1, <2>2
<1>17. Shape(n, b, id)
  <2>1. \A y \in b.parts : /\ y.node \in Below[n]
                           /\ y.seen = Seen(y.node, id)
                           /\ Deps[y.node] \cup {TypeField} \subseteq b.deps
    BY <1>7, <1>14, <1>15
  <2>2. b.code = "ok" /\ Field(id, TypeField) # PU => {y.node : y \in b.parts} = Below[n]
    BY <1>2, <1>7, <1>9, <1>10, <1>12, <1>16 DEF Shape
  <2>3. Field(id, TypeField) = PU => b.parts = {}
    BY <1>2, <1>7, <1>9, <1>11, <1>12 DEF Shape
  <2> QED
    BY <2>1, <2>2, <2>3 DEF Shape
<1>18. \A y \in b.parts : y.version = version[y.node]
  BY <1>13, <1>15
<1>19. Field(id, TypeField) # PU => Marks(n, b.deps, stateDep)
  BY <1>2, <1>7, <1>9, <1>10, <1>12
<1>20. ASSUME request.update, NEW y \in b.parts, y.node \in Solvable
       PROVE  lastId[y.node] = id
  <2>1. PICK x \in e.answer.parts : x.node = y.node
    BY <1>15
  <2>2. IterField \in CachedDeps(n)
    BY <1>14, <1>20, <2>1, SolvableAssumption
  <2>3. Field(e.id, IterField) = iteration
    BY <1>3, <1>8, <2>2, FieldFacts
  <2> QED
    BY <1>2, <1>20, <2>1, <2>3
<1>21. b.code # "abort"
  BY <1>2, <1>7
<1> QED
  BY <1>17, <1>18, <1>19, <1>20, <1>21 DEF AnsOK, b

(* What the children of a node that has been polled have answered. *)
LEMMA KidsAnswered ==
    ASSUME IInv, NEW n \in Nodes, Polled(n)
    PROVE  /\ request # None
           /\ lastId[n] = request.id
           /\ \A k \in Kids[n] : AnsOK(k, got[n][k], stateDep) /\ IsAnswer(got[n][k])
<1>1. Executing(n) /\ pending[n] = {}
  BY DEF Polled
<1>2. request # None /\ lastId[n] = request.id
  BY <1>1 DEF IInv, ExecInv
<1>3. \A k \in Kids[n] : AnsOK(k, got[n][k], stateDep)
  BY <1>1 DEF IInv, GotInv
<1>4. \A k \in Kids[n] : IsAnswer(got[n][k])
  BY DEF IInv, TypeOK
<1> QED
  BY <1>2, <1>3, <1>4

(* The node that returns is no longer marked. *)
Unmarked(n) == [stateDep EXCEPT ![n] = FALSE]

(* An answer made from the children's alone, for a fail or missing data. *)
LEMMA ChildAnswerIsOK ==
    ASSUME IInv, NEW n \in Nodes, Polled(n), ~aborting, "wait" \notin KidCodes(n),
           NEW code \in {"fail", "missing"}
    PROVE  AnsOK(n, Typed(Answer(code, KidDeps(n), KidParts(n), Lost(n))), Unmarked(n))
<1> DEFINE id == request.id
           b == Typed(Answer(code, KidDeps(n), KidParts(n), Lost(n)))
<1>1. \A k \in Kids[n] : AnsOK(k, got[n][k], stateDep) /\ IsAnswer(got[n][k])
  BY KidsAnswered
<1>2. b.code = code /\ b.deps = KidDeps(n) \cup {TypeField} /\ b.parts = KidParts(n)
  BY DEF Typed, Answer
<1> HIDE DEF b
<1>3. \A k \in Kids[n] : /\ got[n][k].deps \subseteq b.deps
                         /\ Below[k] \subseteq Below[n]
                         /\ got[n][k].code \notin {"abort", "wait"}
  BY <1>1, <1>2, ForestFacts DEF KidDeps, KidAnswers, KidCodes, AnsOK
<1>4. ASSUME NEW x \in b.parts
      PROVE  \E k \in Kids[n] : x \in got[n][k].parts
  BY <1>2 DEF KidParts, KidAnswers
<1>5. Shape(n, b, id)
  <2>1. \A x \in b.parts : /\ x.node \in Below[n]
                           /\ x.seen = Seen(x.node, id)
                           /\ Deps[x.node] \cup {TypeField} \subseteq b.deps
    BY <1>1, <1>3, <1>4 DEF AnsOK, Shape
  <2>2. Field(id, TypeField) = PU => b.parts = {}
    BY <1>1, <1>4 DEF AnsOK, Shape
  <2> QED
    BY <1>2, <2>1, <2>2 DEF Shape
<1>6. \A x \in b.parts : x.version = version[x.node]
  BY <1>1, <1>4 DEF AnsOK
<1>7. ASSUME Field(id, TypeField) # PU
      PROVE  Marks(n, b.deps, Unmarked(n))
  <2> SUFFICES ASSUME NEW f \in Below[n], Unmarked(n)[f] PROVE StateField \in b.deps
    BY DEF Marks
  <2>1. f \in Nodes
    BY ForestFacts
  <2>2. f # n /\ stateDep[f]
    BY <2>1 DEF Unmarked, IInv, TypeOK
  <2>3. PICK k \in Kids[n] : f \in Below[k]
    BY <2>2, ForestFacts
  <2> QED
    BY <1>1, <1>3, <1>7, <2>2, <2>3 DEF AnsOK, Marks
<1>8. request.update => \A x \in b.parts : x.node \in Solvable => lastId[x.node] = id
  BY <1>1, <1>4 DEF AnsOK
<1>9. b.code # "abort"
  BY <1>2
<1> QED
  BY <1>5, <1>6, <1>7, <1>8, <1>9 DEF AnsOK, b

(* A result that the node computed from the children's. *)
ComputedParts(n) ==
    IF Field(request.id, TypeField) = PU THEN {}
    ELSE KidParts(n) \cup {Part(n, version[n], request.id)}

LEMMA ComputedAnswerIsOK ==
    ASSUME IInv, NEW n \in Nodes, Polled(n), ~aborting, KidCodes(n) \subseteq {"ok"},
           NEW code \in {"ok", "fail", "missing"}
    PROVE  AnsOK(n, Typed(Answer(code, KidDeps(n) \cup OwnDeps(n), ComputedParts(n), Lost(n))),
                 Unmarked(n))
<1> DEFINE id == request.id
           b == Typed(Answer(code, KidDeps(n) \cup OwnDeps(n), ComputedParts(n), Lost(n)))
           own == Part(n, version[n], id)
<1>1. \A k \in Kids[n] : AnsOK(k, got[n][k], stateDep) /\ IsAnswer(got[n][k])
  BY KidsAnswered
<1>2. /\ b.code = code
      /\ b.deps = KidDeps(n) \cup OwnDeps(n) \cup {TypeField}
      /\ b.parts = ComputedParts(n)
  BY DEF Typed, Answer
<1> HIDE DEF b
<1>3. ASSUME NEW k \in Kids[n]
      PROVE  /\ got[n][k].deps \subseteq b.deps
             /\ Below[k] \subseteq Below[n]
             /\ got[n][k].code = "ok"
  <2>1. got[n][k] \in KidAnswers(n)
    BY DEF KidAnswers
  <2>2. got[n][k].code = "ok"
    BY <2>1 DEF KidCodes
  <2>3. got[n][k].deps \subseteq b.deps
    BY <1>2, <2>1 DEF KidDeps
  <2> QED
    BY <2>2, <2>3, ForestFacts
<1>4. Field(id, TypeField) = PU => b.parts = {}
  BY <1>2 DEF ComputedParts
<1>5. ASSUME NEW x \in b.parts
      PROVE  x = own \/ \E k \in Kids[n] : x \in got[n][k].parts
  BY <1>2 DEF ComputedParts, KidParts, KidAnswers
<1>6. /\ own.node = n /\ own.version = version[n] /\ own.seen = Seen(n, id)
  BY DEF Part
<1>7. n \in Below[n] /\ Below[n] \subseteq Nodes
  BY ForestFacts
<1>8. ASSUME NEW x \in b.parts
      PROVE  /\ x.node \in Below[n]
             /\ x.seen = Seen(x.node, id)
             /\ Deps[x.node] \cup {TypeField} \subseteq b.deps
             /\ x.version = version[x.node]
             /\ request.update /\ x.node \in Solvable => lastId[x.node] = id
  <2>1. Field(id, TypeField) # PU
    BY <1>4, <1>8
  <2>2. CASE x = own
    <3>1. Deps[n] \subseteq b.deps
      BY <1>2, <2>1 DEF OwnDeps
    <3>2. lastId[n] = id
      BY KidsAnswered
    <3> QED
      BY <1>2, <1>6, <1>7, <2>2, <3>1, <3>2
  <2>3. CASE \E k \in Kids[n] : x \in got[n][k].parts
    BY <1>1, <1>3, <2>3 DEF AnsOK, Shape
  <2> QED
    BY <1>5, <2>2, <2>3
<1>9. ASSUME Field(id, TypeField) # PU
      PROVE  {x.node : x \in b.parts} = Below[n]
  <2>1. b.parts = KidParts(n) \cup {own}
    BY <1>2, <1>9 DEF ComputedParts
  <2>2. \A k \in Kids[n] : Below[k] = {x.node : x \in got[n][k].parts}
    BY <1>1, <1>3, <1>9 DEF AnsOK, Shape
  <2>3. \A k \in Kids[n] : got[n][k].parts \subseteq b.parts
    BY <2>1 DEF KidParts, KidAnswers
  <2>4. ASSUME NEW m \in Below[n]
        PROVE  \E x \in b.parts : x.node = m
    <3>1. CASE m = n
      BY <1>6, <2>1, <3>1
    <3>2. CASE \E k \in Kids[n] : m \in Below[k]
      BY <2>2, <2>3, <3>2
    <3> QED
      BY <3>1, <3>2, ForestFacts
  <2> QED
    BY <1>8, <2>4
<1>10. Shape(n, b, id)
  BY <1>4, <1>8, <1>9 DEF Shape
<1>11. ASSUME Field(id, TypeField) # PU
      PROVE  Marks(n, b.deps, Unmarked(n))
  <2> SUFFICES ASSUME NEW f \in Below[n], Unmarked(n)[f] PROVE StateField \in b.deps
    BY DEF Marks
  <2>1. f \in Nodes
    BY <1>7
  <2>2. f # n /\ stateDep[f]
    BY <2>1 DEF Unmarked, IInv, TypeOK
  <2>3. PICK k \in Kids[n] : f \in Below[k]
    BY <2>2, ForestFacts
  <2> QED
    BY <1>1, <1>3, <1>11, <2>2, <2>3 DEF AnsOK, Marks
<1>12. b.code # "abort"
  BY <1>2
<1> QED
  BY <1>8, <1>10, <1>11, <1>12 DEF AnsOK, b

-----------------------------------------------------------------------------
(* Types. *)

LEMMA ReturnTypes ==
    ASSUME TypeOK, NEW n \in Nodes, NEW c \in Nodes \cup {Client}, NEW a, IsAnswer(a),
           Return(n, c, a)
    PROVE  /\ DOMAIN got' = Nodes
           /\ \A m \in Nodes : /\ DOMAIN got'[m] = Kids[m]
                               /\ \A k \in Kids[m] : IsAnswer(got'[m][k])
           /\ pending' \in [Nodes -> SUBSET Nodes]
           /\ request' = request \/ request' = None
           /\ IsAnswer(answer')
           /\ aborting' \in BOOLEAN
<1>1. /\ DOMAIN got = Nodes
      /\ \A m \in Nodes : /\ DOMAIN got[m] = Kids[m]
                          /\ \A k \in Kids[m] : IsAnswer(got[m][k])
      /\ pending \in [Nodes -> SUBSET Nodes]
      /\ IsAnswer(answer)
      /\ aborting \in BOOLEAN
  BY DEF TypeOK
<1>2. IsAnswer(NoAnswer) /\ DOMAIN NoAnswers[n] = Kids[n]
      /\ \A k \in Kids[n] : NoAnswers[n][k] = NoAnswer
  BY DEF NoAnswer, NoAnswers, Answer, IsAnswer, Codes, OwnCodes
<1> DEFINE cleared == [got EXCEPT ![n] = NoAnswers[n]]
<1>3. /\ DOMAIN cleared = Nodes
      /\ \A m \in Nodes : /\ DOMAIN cleared[m] = Kids[m]
                          /\ \A k \in Kids[m] : IsAnswer(cleared[m][k])
  BY <1>1, <1>2
<1>4. CASE c = Client
  <2>1. answer' = a /\ request' = None /\ aborting' = FALSE
        /\ got' = cleared /\ pending' = [pending EXCEPT ![n] = {}]
    BY <1>4 DEF Return
  <2> QED
    BY <1>1, <1>3, <2>1
<1>5. CASE c # Client
  <2>1. /\ got' = [got EXCEPT ![n] = NoAnswers[n], ![c][n] = a]
        /\ pending' = [pending EXCEPT ![n] = {}, ![c] = @ \ {n}]
        /\ answer' = answer /\ request' = request /\ aborting' = aborting
    BY <1>5 DEF Return
  <2>2. got' = [cleared EXCEPT ![c][n] = a]
    BY <2>1
  <2> HIDE DEF cleared
  <2>3. /\ DOMAIN got' = Nodes
        /\ \A m \in Nodes : got'[m] = IF m = c THEN [cleared[c] EXCEPT ![n] = a]
                                               ELSE cleared[m]
    BY <1>3, <1>5, <2>2
  <2>4. \A m \in Nodes : /\ DOMAIN got'[m] = Kids[m]
                         /\ \A k \in Kids[m] : IsAnswer(got'[m][k])
    BY <1>3, <2>3
  <2>5. pending' \in [Nodes -> SUBSET Nodes]
    BY <1>1, <1>5, <2>1
  <2> QED
    BY <1>1, <2>1, <2>3, <2>4, <2>5
<1> QED
  BY <1>4, <1>5

LEMMA TypedIsAnswer ==
    ASSUME NEW a, IsAnswer(a)
    PROVE  IsAnswer(Typed(a))
BY FieldFacts DEF IsAnswer, Typed

LEMMA CacheResultTypes ==
    ASSUME TypeOK, NEW n \in Nodes, request # None, NEW a, IsAnswer(a),
           CacheResult(n, request, a)
    PROVE  /\ DOMAIN cache' = Nodes
           /\ \A m \in Nodes : /\ DOMAIN cache'[m] = {"valid", "id", "answer"}
                               /\ cache'[m].valid \in BOOLEAN
                               /\ IsId(cache'[m].id)
                               /\ IsAnswer(cache'[m].answer)
           /\ stateDep' \in [Nodes -> BOOLEAN]
           /\ ignoring' \in [Nodes -> BOOLEAN]
           /\ hints' \in [Nodes -> [nhint : Nat, nhold : Nat]]
           /\ computed' \in [Nodes -> Nat]
<1> DEFINE diff == DiffMask(request.id, request.next)
           keep == ShouldCache(n, Typed(a), diff)
           hold(k) == ~LongCache(n, Typed(a), diff) /\ got[n][k].deps \cap diff = {}
           after == [m \in Nodes |-> CASE m = n -> NoHints
                                       [] m \in Kids[n] -> Hinted(m, hold(m))
                                       [] OTHER -> hints[m]]
           dropped(m) == [cache[m] EXCEPT !.valid = FALSE]
           stored == [valid |-> TRUE, id |-> request.id, answer |-> Typed(a)]
<1>1. cache' = [m \in Nodes |->
               CASE m = n ->
                      IF keep THEN [valid |-> TRUE, id |-> request.id, answer |-> Typed(a)]
                              ELSE [cache[m] EXCEPT !.valid = FALSE]
                 [] m \in Kids[n] /\ Releases(m, after[m]) ->
                      [cache[m] EXCEPT !.valid = FALSE]
                 [] OTHER -> cache[m]]
  BY Zenon DEF CacheResult
<1>2. hints' = after
  BY Zenon DEF CacheResult
<1>3. /\ stateDep' = [stateDep EXCEPT ![n] = FALSE]
      /\ ignoring' = [ignoring EXCEPT ![n] = FALSE]
  BY DEF CacheResult
<1>4. IsAnswer(Typed(a))
  BY TypedIsAnswer
<1>5. IsId(request.id)
  BY DEF TypeOK
<1>6. \A m \in Nodes : \A h \in BOOLEAN : Hinted(m, h) \in [nhint : Nat, nhold : Nat]
  BY DEF Hinted, TypeOK
<1>7. NoHints \in [nhint : Nat, nhold : Nat]
  BY DEF NoHints
<1>8. hints \in [Nodes -> [nhint : Nat, nhold : Nat]]
  BY DEF TypeOK
<1>9. \A k \in Nodes : hold(k) \in BOOLEAN
  OBVIOUS
<1> HIDE DEF hold
<1>10. hints' \in [Nodes -> [nhint : Nat, nhold : Nat]]
  BY <1>2, <1>6, <1>7, <1>8, <1>9
<1> HIDE DEF keep, after
<1>11. \A m \in Nodes : cache'[m] \in {stored, dropped(m), cache[m]}
  BY <1>1
<1>12. DOMAIN cache' = Nodes
  BY <1>1
<1>13. ASSUME NEW m \in Nodes
       PROVE  /\ DOMAIN cache'[m] = {"valid", "id", "answer"}
              /\ cache'[m].valid \in BOOLEAN
              /\ IsId(cache'[m].id)
              /\ IsAnswer(cache'[m].answer)
  <2>1. /\ DOMAIN cache[m] = {"valid", "id", "answer"}
        /\ cache[m].valid \in BOOLEAN
        /\ IsId(cache[m].id)
        /\ IsAnswer(cache[m].answer)
    BY DEF TypeOK
  <2>2. /\ DOMAIN dropped(m) = {"valid", "id", "answer"}
        /\ dropped(m).valid \in BOOLEAN
        /\ IsId(dropped(m).id)
        /\ IsAnswer(dropped(m).answer)
    BY <2>1
  <2>3. /\ DOMAIN stored = {"valid", "id", "answer"}
        /\ stored.valid \in BOOLEAN
        /\ IsId(stored.id)
        /\ IsAnswer(stored.answer)
    BY <1>4, <1>5
  <2> QED
    BY <1>11, <2>1, <2>2, <2>3
<1>14. stateDep' \in [Nodes -> BOOLEAN] /\ ignoring' \in [Nodes -> BOOLEAN]
  BY <1>3 DEF TypeOK
<1>15. computed' \in [Nodes -> Nat]
  <2>1. computed' = [computed EXCEPT ![n] = @ + 1]
    BY DEF CacheResult
  <2> QED
    BY <2>1 DEF TypeOK
<1> QED
  BY <1>10, <1>12, <1>13, <1>14, <1>15

LEMMA KidAnswerTypes ==
    ASSUME TypeOK, NEW n \in Nodes
    PROVE  /\ KidDeps(n) \subseteq Fields
           /\ \A x \in KidParts(n) : /\ DOMAIN x = {"node", "version", "seen"}
                                     /\ x.node \in Nodes
                                     /\ x.version \in Nat
                                     /\ DOMAIN x.seen = Deps[x.node] \cup {TypeField}
           /\ Lost(n) \in BOOLEAN
<1>1. \A k \in Kids[n] : IsAnswer(got[n][k])
  BY DEF TypeOK
<1> QED
  BY <1>1 DEF KidDeps, KidParts, KidAnswers, Lost, IsAnswer

(* The variables that an execution leaves alone keep their types. *)
LEMMA TypesOfReturn ==
    ASSUME TypeOK, NEW n \in Nodes, NEW c \in Nodes \cup {Client}, NEW a, IsAnswer(a),
           Return(n, c, a),
           DOMAIN cache' = Nodes,
           \A m \in Nodes : /\ DOMAIN cache'[m] = {"valid", "id", "answer"}
                            /\ cache'[m].valid \in BOOLEAN
                            /\ IsId(cache'[m].id)
                            /\ IsAnswer(cache'[m].answer),
           stateDep' \in [Nodes -> BOOLEAN],
           ignoring' \in [Nodes -> BOOLEAN],
           hints' \in [Nodes -> [nhint : Nat, nhold : Nat]],
           DOMAIN lastId' = Nodes,
           caller' \in [Nodes -> Nodes \cup {Client, None}],
           ridden' \subseteq Solvable,
           computed' \in [Nodes -> Nat],
           UNCHANGED <<version, calls, solving, stateId, iteration, clearing, applied>>
    PROVE  TypeOK'
<1>1. /\ DOMAIN got' = Nodes
      /\ \A m \in Nodes : /\ DOMAIN got'[m] = Kids[m]
                          /\ \A k \in Kids[m] : IsAnswer(got'[m][k])
      /\ pending' \in [Nodes -> SUBSET Nodes]
      /\ request' = request \/ request' = None
      /\ IsAnswer(answer')
      /\ aborting' \in BOOLEAN
  BY ReturnTypes
<1>2. \A x : IsAnswer(x)' = IsAnswer(x)
  OBVIOUS
<1>3. request' # None => /\ DOMAIN request' = {"root", "id", "next", "update"}
                         /\ request'.root \in Nodes
                         /\ IsId(request'.id)
                         /\ IsId(request'.next)
                         /\ request'.update \in BOOLEAN
  BY <1>1 DEF TypeOK
<1>4. /\ version' \in [Nodes -> Nat] /\ clearing' \subseteq Nodes
      /\ calls' \in Nat /\ stateId' \in Nat /\ iteration' \in Nat
      /\ solving' \in BOOLEAN /\ applied' \in [Nodes -> Nat]
  BY DEF TypeOK
<1> QED
  BY <1>1, <1>3, <1>4 DEF TypeOK

(* The variables of a node that did not answer from a computation. *)
LEMMA TypesOfNodeVars ==
    ASSUME TypeOK, nodeVars' = nodeVars
    PROVE  /\ DOMAIN cache' = Nodes
           /\ \A m \in Nodes : /\ DOMAIN cache'[m] = {"valid", "id", "answer"}
                               /\ cache'[m].valid \in BOOLEAN
                               /\ IsId(cache'[m].id)
                               /\ IsAnswer(cache'[m].answer)
           /\ stateDep' \in [Nodes -> BOOLEAN]
           /\ ignoring' \in [Nodes -> BOOLEAN]
           /\ hints' \in [Nodes -> [nhint : Nat, nhold : Nat]]
           /\ DOMAIN lastId' = Nodes
BY DEF TypeOK, nodeVars

LEMMA CacheChangeTypes ==
    ASSUME TypeOK, NEW n \in Nodes,
           \/ cache' = [cache EXCEPT ![n].valid = FALSE]
           \/ cache' = [cache EXCEPT ![n].answer.deps = CachedDeps(n)]
    PROVE  /\ DOMAIN cache' = Nodes
           /\ \A m \in Nodes : /\ DOMAIN cache'[m] = {"valid", "id", "answer"}
                               /\ cache'[m].valid \in BOOLEAN
                               /\ IsId(cache'[m].id)
                               /\ IsAnswer(cache'[m].answer)
<1> DEFINE Good(e) == /\ DOMAIN e = {"valid", "id", "answer"}
                      /\ e.valid \in BOOLEAN
                      /\ IsId(e.id)
                      /\ IsAnswer(e.answer)
           e1 == [cache[n] EXCEPT !.valid = FALSE]
           e2 == [cache[n] EXCEPT !.answer = [@ EXCEPT !.deps = CachedDeps(n)]]
<1>1. DOMAIN cache = Nodes /\ \A m \in Nodes : Good(cache[m])
  BY DEF TypeOK
<1>2. Good(e1)
  BY <1>1
<1>3. IsAnswer([cache[n].answer EXCEPT !.deps = CachedDeps(n)])
  BY <1>1, FieldFacts DEF IsAnswer, CachedDeps
<1>4. Good(e2)
  BY <1>1, <1>3
<1>5. /\ DOMAIN cache' = Nodes
      /\ \A m \in Nodes : cache'[m] \in {cache[m], e1, e2} /\ (m # n => cache'[m] = cache[m])
  <2>1. CASE cache' = [cache EXCEPT ![n].valid = FALSE]
    BY <1>1, <2>1
  <2>2. CASE cache' = [cache EXCEPT ![n].answer.deps = CachedDeps(n)]
    BY <1>1, <2>2
  <2> QED
    BY <2>1, <2>2
<1>6. \A m \in Nodes : Good(cache'[m])
  <2> HIDE DEF Good, e1, e2
  <2> QED
    BY <1>1, <1>2, <1>4, <1>5
<1> QED
  BY <1>5, <1>6

LEMMA TypeStep ==
    ASSUME TypeOK, ExecInv, [Next]_vars
    PROVE  TypeOK'
<1> DEFINE CacheGood ==
               /\ DOMAIN cache' = Nodes
               /\ \A m \in Nodes : /\ DOMAIN cache'[m] = {"valid", "id", "answer"}
                                   /\ cache'[m].valid \in BOOLEAN
                                   /\ IsId(cache'[m].id)
                                   /\ IsAnswer(cache'[m].answer)
           NodeGood ==
               /\ stateDep' \in [Nodes -> BOOLEAN]
               /\ ignoring' \in [Nodes -> BOOLEAN]
               /\ hints' \in [Nodes -> [nhint : Nat, nhold : Nat]]
               /\ DOMAIN lastId' = Nodes
           PollGood ==
               /\ caller' \in [Nodes -> Nodes \cup {Client, None}]
               /\ ridden' \subseteq Solvable
               /\ computed' \in [Nodes -> Nat]
           Rest == UNCHANGED <<version, calls, solving, stateId, iteration, clearing, applied>>
<1>1. ASSUME NEW n \in Nodes, NEW c \in Nodes \cup {Client}, NEW a, IsAnswer(a),
             Return(n, c, a), CacheGood, NodeGood, PollGood, Rest
      PROVE  TypeOK'
  BY <1>1, TypesOfReturn
<1>2. ASSUME NEW code \in Codes, NEW deps \in SUBSET Fields, NEW lost \in BOOLEAN, NEW parts,
             \A x \in parts : /\ DOMAIN x = {"node", "version", "seen"}
                              /\ x.node \in Nodes
                              /\ x.version \in Nat
                              /\ DOMAIN x.seen = Deps[x.node] \cup {TypeField}
      PROVE  /\ IsAnswer(Answer(code, deps, parts, lost))
             /\ IsAnswer(Typed(Answer(code, deps, parts, lost)))
  <2>1. IsAnswer(Answer(code, deps, parts, lost))
    BY <1>2 DEF IsAnswer, Answer
  <2> QED
    BY <2>1, TypedIsAnswer
<1>3. \A code \in Codes, lost \in BOOLEAN : IsAnswer(Answer(code, {}, {}, lost))
                                            /\ IsAnswer(Typed(Answer(code, {}, {}, lost)))
  <2>1. SUFFICES ASSUME NEW code \in Codes, NEW lost \in BOOLEAN
                 PROVE  IsAnswer(Answer(code, {}, {}, lost))
                        /\ IsAnswer(Typed(Answer(code, {}, {}, lost)))
    OBVIOUS
  <2> QED
    BY <1>2
<1>4. /\ caller \in [Nodes -> Nodes \cup {Client, None}]
      /\ ridden \subseteq Solvable
      /\ computed \in [Nodes -> Nat]
      /\ DOMAIN lastId = Nodes
      /\ pending \in [Nodes -> SUBSET Nodes]
  BY DEF TypeOK
<1>5. ASSUME NEW n \in Nodes, NEW c \in Nodes \cup {Client}, EnterAborted(c, n) PROVE TypeOK'
  <2>1. Return(n, c, Answer("abort", {}, {}, FALSE)) /\ nodeVars' = nodeVars /\ Rest
        /\ caller' = caller /\ ridden' = ridden /\ computed' = computed
    BY <1>5 DEF EnterAborted, countVars
  <2>2. CacheGood /\ NodeGood
    BY <2>1, TypesOfNodeVars
  <2>3. IsAnswer(Answer("abort", {}, {}, FALSE))
    BY <1>3 DEF Codes, OwnCodes
  <2> QED
    BY <1>1, <1>4, <2>1, <2>2, <2>3
<1>6. ASSUME NEW n \in Nodes, NEW c \in Nodes \cup {Client}, EnterHit(c, n) PROVE TypeOK'
  <2>1. /\ cache' = [cache EXCEPT ![n].answer.deps = CachedDeps(n)]
        /\ hints' = IF IsNewRequest(n, request.id)
                    THEN [hints EXCEPT ![n] = NoHints] ELSE hints
        /\ Return(n, c, CachedAnswer(n, request.id))
        /\ Rest
        /\ caller' = caller /\ ridden' = ridden /\ computed' = computed
        /\ stateDep' = stateDep /\ ignoring' = ignoring /\ lastId' = lastId
    BY <1>6 DEF EnterHit, countVars
  <2>2. CacheGood
    BY <2>1, CacheChangeTypes
  <2>3. NodeGood
    BY <2>1 DEF TypeOK, NoHints
  <2>4. IsAnswer(CachedAnswer(n, request.id))
    <3>1. IsAnswer(cache[n].answer)
      BY DEF TypeOK
    <3>2. /\ DOMAIN CachedAnswer(n, request.id) = {"code", "deps", "parts", "lost"}
          /\ CachedAnswer(n, request.id).code = cache[n].answer.code
          /\ CachedAnswer(n, request.id).lost = cache[n].answer.lost
          /\ CachedAnswer(n, request.id).deps = CachedDeps(n)
          /\ CachedAnswer(n, request.id).parts =
                IF SameForUs(n, request.id) THEN cache[n].answer.parts
                ELSE Stripped(cache[n].answer.parts, request.id)
      BY <3>1 DEF CachedAnswer, IsAnswer
    <3>3. CachedDeps(n) \subseteq Fields
      BY <3>1, FieldFacts DEF IsAnswer, CachedDeps
    <3>4. ASSUME NEW x \in Stripped(cache[n].answer.parts, request.id)
          PROVE  /\ DOMAIN x = {"node", "version", "seen"}
                 /\ x.node \in Nodes
                 /\ x.version \in Nat
                 /\ DOMAIN x.seen = Deps[x.node] \cup {TypeField}
      <4>1. PICK y \in cache[n].answer.parts :
                x = [y EXCEPT !.seen[TypeField] = Field(request.id, TypeField)]
        BY DEF Stripped
      <4>2. /\ DOMAIN y = {"node", "version", "seen"}
            /\ y.node \in Nodes
            /\ y.version \in Nat
            /\ DOMAIN y.seen = Deps[y.node] \cup {TypeField}
        BY <3>1 DEF IsAnswer
      <4>3. /\ x.node = y.node /\ x.version = y.version
            /\ x.seen = [y.seen EXCEPT ![TypeField] = Field(request.id, TypeField)]
            /\ DOMAIN x = {"node", "version", "seen"}
        BY <4>1, <4>2
      <4> QED
        BY <4>2, <4>3
    <3>5. \A x \in CachedAnswer(n, request.id).parts :
              /\ DOMAIN x = {"node", "version", "seen"}
              /\ x.node \in Nodes
              /\ x.version \in Nat
              /\ DOMAIN x.seen = Deps[x.node] \cup {TypeField}
      BY <3>1, <3>2, <3>4 DEF IsAnswer
    <3> QED
      BY <3>1, <3>2, <3>3, <3>5 DEF IsAnswer
  <2> QED
    BY <1>1, <1>4, <2>1, <2>2, <2>3, <2>4
<1>7. ASSUME NEW n \in Nodes, NEW c \in Nodes \cup {Client}, EnterIgnoringUpdate(c, n)
      PROVE  TypeOK'
  <2>1. /\ cache' = [cache EXCEPT ![n].answer.deps = CachedDeps(n)]
        /\ ignoring' = [ignoring EXCEPT ![n] = TRUE]
        /\ Return(n, c, Answer("ok", {}, {}, cache[n].answer.lost))
        /\ Rest
        /\ caller' = caller /\ ridden' = ridden /\ computed' = computed
        /\ stateDep' = stateDep /\ hints' = hints /\ lastId' = lastId
    BY <1>7 DEF EnterIgnoringUpdate, countVars
  <2>2. CacheGood
    BY <2>1, CacheChangeTypes
  <2>3. NodeGood
    BY <2>1 DEF TypeOK
  <2>4. cache[n].answer.lost \in BOOLEAN
    BY DEF TypeOK, IsAnswer
  <2>5. IsAnswer(Answer("ok", {}, {}, cache[n].answer.lost))
    BY <1>3, <2>4 DEF Codes, OwnCodes
  <2> QED
    BY <1>1, <1>4, <2>1, <2>2, <2>3, <2>5
<1>8. ASSUME NEW n \in Nodes, NEW c \in Nodes \cup {Client}, EnterMiss(c, n) PROVE TypeOK'
  <2>1. /\ cache' = [cache EXCEPT ![n].valid = FALSE]
        /\ stateDep' = [stateDep EXCEPT ![n] = FALSE]
        /\ lastId' = [lastId EXCEPT ![n] = request.id]
        /\ caller' = [caller EXCEPT ![n] = c]
        /\ pending' = [pending EXCEPT ![n] = Kids[n]]
        /\ UNCHANGED <<ignoring, hints, got, clientVars, clearing, computed>>
    BY <1>8 DEF EnterMiss
  <2>2. CacheGood
    BY <2>1, CacheChangeTypes
  <2>3. /\ ridden' \subseteq Solvable
        /\ version' \in [Nodes -> Nat]
        /\ applied' \in [Nodes -> Nat]
    <3>1. \/ /\ n \in Solvable
             /\ ridden' = ridden \cup {n}
             /\ version' = [version EXCEPT ![n] = @ + 1]
             /\ applied' = [applied EXCEPT ![n] = @ + 1]
          \/ UNCHANGED <<ridden, version, applied>>
      BY <1>8, Zenon DEF EnterMiss, CarriesUpdate
    <3>2. version \in [Nodes -> Nat] /\ applied \in [Nodes -> Nat]
      BY DEF TypeOK
    <3> QED
      BY <1>4, <3>1, <3>2
  <2>4. NodeGood /\ caller' \in [Nodes -> Nodes \cup {Client, None}]
    BY <2>1 DEF TypeOK
  <2>5. pending' \in [Nodes -> SUBSET Nodes]
    BY <1>4, <2>1, ForestAssumption
  <2> HIDE DEF CacheGood, NodeGood
  <2>6. CacheGood /\ NodeGood
    BY <2>2, <2>4
  <2> USE DEF CacheGood, NodeGood
  <2>7. /\ got' = got /\ request' = request /\ calls' = calls /\ answer' = answer
        /\ solving' = solving
        /\ aborting' = aborting /\ stateId' = stateId /\ iteration' = iteration
        /\ clearing' = clearing /\ computed' = computed
    BY <2>1 DEF clientVars
  <2> QED
    BY <2>2, <2>3, <2>4, <2>5, <2>7 DEF TypeOK
<1>9. ASSUME NEW n \in Nodes, NEW c \in Nodes \cup {Client}, EnterRiderFails(c, n)
      PROVE  TypeOK'
  <2>1. /\ lastId' = [lastId EXCEPT ![n] = request.id]
        /\ CacheResult(n, request, Answer("fail", {}, {}, TRUE))
        /\ Return(n, c, Typed(Answer("fail", {}, {}, TRUE)))
        /\ Rest
        /\ caller' = caller /\ ridden' = ridden
    BY <1>9 DEF EnterRiderFails
  <2>2. request # None
    BY <1>9 DEF EnterRiderFails, Misses, Calls
  <2>3. IsAnswer(Answer("fail", {}, {}, TRUE)) /\ IsAnswer(Typed(Answer("fail", {}, {}, TRUE)))
    BY <1>3 DEF Codes, OwnCodes
  <2>4. CacheGood /\ NodeGood /\ computed' \in [Nodes -> Nat]
    BY <1>4, <2>1, <2>2, <2>3, CacheResultTypes
  <2> QED
    BY <1>1, <1>4, <2>1, <2>3, <2>4
<1>10. ASSUME NEW n \in Nodes, Polled(n), Leave(n)
       PROVE  /\ caller[n] \in Nodes \cup {Client}
              /\ caller' \in [Nodes -> Nodes \cup {Client, None}]
              /\ ridden' \subseteq Solvable
  BY <1>4, <1>10 DEF Polled, Executing, Leave
<1>11. ASSUME NEW n \in Nodes, NEW code \in Codes, FinishUncached(n, code) PROVE TypeOK'
  <2>1. /\ Return(n, caller[n], Answer(code, {}, {}, FALSE))
        /\ nodeVars' = nodeVars
        /\ Rest
        /\ computed' = computed
    BY <1>11 DEF FinishUncached, countVars
  <2>2. Polled(n) /\ Leave(n)
    BY <1>11 DEF FinishUncached
  <2>3. CacheGood /\ NodeGood
    BY <2>1, TypesOfNodeVars
  <2> QED
    BY <1>1, <1>3, <1>4, <1>10, <2>1, <2>2, <2>3
<1>12. ASSUME NEW n \in Nodes, FinishAsChild(n) PROVE TypeOK'
  <2> DEFINE a == Answer(IF "fail" \in KidCodes(n) THEN "fail" ELSE "missing",
                         KidDeps(n), KidParts(n), Lost(n))
  <2>1. /\ CacheResult(n, request, a)
        /\ Return(n, caller[n], Typed(a))
        /\ Rest /\ lastId' = lastId
    BY <1>12 DEF FinishAsChild
  <2>2. Polled(n) /\ Leave(n)
    BY <1>12 DEF FinishAsChild
  <2>3. IsAnswer(a) /\ IsAnswer(Typed(a))
    <3>1. (IF "fail" \in KidCodes(n) THEN "fail" ELSE "missing") \in Codes
      BY DEF Codes, OwnCodes
    <3> QED
      BY <3>1, <1>2, KidAnswerTypes
  <2> HIDE DEF a
  <2>4. request # None
    BY <2>2 DEF Polled, ExecInv
  <2>5. CacheGood /\ NodeGood /\ computed' \in [Nodes -> Nat]
    BY <1>4, <2>1, <2>3, <2>4, CacheResultTypes
  <2> QED
    BY <1>1, <1>4, <1>10, <2>1, <2>2, <2>3, <2>5
<1>13. ASSUME NEW n \in Nodes, NEW code \in OwnCodes, FinishComputed(n, code) PROVE TypeOK'
  <2>0. code \in Codes
    BY DEF Codes
  <2> DEFINE parts == IF Field(request.id, TypeField) = PU THEN {}
                      ELSE KidParts(n) \cup {Part(n, version[n], request.id)}
             a == Answer(code, KidDeps(n) \cup OwnDeps(n), parts, Lost(n))
  <2>1. /\ Rest /\ lastId' = lastId
        /\ Polled(n) /\ Leave(n)
    BY <1>13 DEF FinishComputed
  <2>3. CASE code = "wait"
    <3>1. /\ Return(n, caller[n], Answer("wait", {}, {}, FALSE))
          /\ nodeVars' = nodeVars /\ computed' = computed
      BY <1>13, <2>1, <2>3 DEF FinishComputed, nodeVars
    <3>2. CacheGood /\ NodeGood
      BY <3>1, TypesOfNodeVars
    <3> QED
      BY <1>1, <1>3, <1>4, <1>10, <2>0, <2>1, <2>3, <3>1, <3>2
  <2>4. CASE code # "wait"
    <3>1. CacheResult(n, request, a) /\ Return(n, caller[n], Typed(a))
      BY <1>13, <2>4 DEF FinishComputed
    <3>2. IsAnswer(a) /\ IsAnswer(Typed(a))
      <4>1. \A x \in parts : /\ DOMAIN x = {"node", "version", "seen"}
                             /\ x.node \in Nodes
                             /\ x.version \in Nat
                             /\ DOMAIN x.seen = Deps[x.node] \cup {TypeField}
        BY KidAnswerTypes DEF Part, Seen, TypeOK
      <4>2. OwnDeps(n) \subseteq Fields
        BY DependencyAssumption DEF OwnDeps
      <4>3. KidDeps(n) \cup OwnDeps(n) \in SUBSET Fields /\ Lost(n) \in BOOLEAN
        BY <4>2, KidAnswerTypes
      <4> HIDE DEF parts
      <4> QED
        BY <1>2, <2>0, <4>1, <4>3
    <3> HIDE DEF a
    <3>3. request # None
      BY <2>1 DEF Polled, ExecInv
    <3>4. CacheGood /\ NodeGood /\ computed' \in [Nodes -> Nat]
      BY <1>4, <2>1, <3>1, <3>2, <3>3, CacheResultTypes
    <3> QED
      BY <1>1, <1>10, <2>1, <3>1, <3>2, <3>4
  <2> QED
    BY <2>3, <2>4
<1>14. ASSUME NEW n \in Nodes, SetState(n) PROVE TypeOK'
  <2>1. /\ version' = [version EXCEPT ![n] = @ + 1]
        /\ stateDep' = [m \in Nodes |-> stateDep[m] \/ m \in Marked(n)]
        /\ stateId' = stateId + 1
        /\ UNCHANGED <<cache, ignoring, hints, lastId, pollVars, request, calls,
                       solving, answer, aborting, iteration, clearing, countVars>>
    BY <1>14 DEF SetState
  <2>2. /\ version' \in [Nodes -> Nat]
        /\ stateDep' \in [Nodes -> BOOLEAN]
        /\ stateId' \in Nat
    BY <2>1 DEF TypeOK
  <2> QED
    BY <2>1, <2>2 DEF TypeOK, pollVars, countVars
<1>15. ASSUME NEW n \in Nodes, NEW recursive \in BOOLEAN, ClearCommand(n, recursive) PROVE TypeOK'
  <2>1. clearing' \subseteq Nodes
    BY <1>15, ForestAssumption DEF ClearCommand
  <2> QED
    BY <1>15, <2>1 DEF ClearCommand, TypeOK, nodeVars, pollVars, clientVars, countVars
<1>16. ASSUME NEW n \in Nodes, ClearCache(n) PROVE TypeOK'
  <2>1. /\ cache' = [cache EXCEPT ![n].valid = FALSE]
        /\ clearing' \subseteq Nodes
        /\ computed' \in [Nodes -> Nat]
        /\ UNCHANGED <<stateDep, ignoring, hints, lastId, version, pollVars,
                       clientVars, applied>>
    BY <1>16 DEF ClearCache, TypeOK
  <2>2. CacheGood
    BY <2>1, CacheChangeTypes
  <2> QED
    BY <2>1, <2>2 DEF TypeOK, pollVars, clientVars
<1>17. ASSUME RaiseAbortFlag PROVE TypeOK'
  BY <1>17 DEF RaiseAbortFlag, TypeOK, nodeVars, pollVars, countVars
<1>18. ASSUME NEW root \in Roots, NEW type \in {EV, E1, PU}, NEW dom \in Domains,
              NEW update \in BOOLEAN, Issue(root, type, dom, update)
       PROVE  TypeOK'
  <2> DEFINE iter == IF update THEN iteration + 1 ELSE iteration
             id == NewId(type, iter, dom)
  <2>1. /\ calls' = calls + 1
        /\ solving' = (type = E1)
        /\ iteration' = iter
        /\ answer' = NoAnswer
        /\ applied' = [n \in Nodes |-> 0]
        /\ computed' = [n \in Nodes |-> 0]
        /\ UNCHANGED <<nodeVars, version, pollVars, aborting, stateId, clearing>>
    BY <1>18 DEF Issue
  <2>2. PICK diff \in NextDiffs :
           request' = [root |-> root, id |-> id, next |-> IncrSubId(id, diff),
                       update |-> update]
    BY <1>18 DEF Issue
  <2>3. type \in Nat /\ iter \in Nat /\ dom \in Nat /\ stateId \in Nat
    BY BoundsAssumption DEF TypeOK, EV, E1, PU
  <2>4. IsId(id)
    BY <2>3, FieldsOfNewId
  <2> HIDE DEF id
  <2>5. IsId(IncrSubId(id, diff))
    <3>1. diff \subseteq Fields
      BY BoundsAssumption
    <3>2. \A f \in Fields : Field(IncrSubId(id, diff), f) =
                             IF f \in diff THEN Field(id, f) + 1 ELSE Field(id, f)
      BY <3>1, FieldOfIncrSubId
    <3> QED
      BY <2>4, <3>2 DEF IsId
  <2>6. /\ DOMAIN request' = {"root", "id", "next", "update"}
        /\ request'.root \in Nodes
        /\ IsId(request'.id)
        /\ IsId(request'.next)
        /\ request'.update \in BOOLEAN
    BY <2>2, <2>4, <2>5, BoundsAssumption
  <2>7. IsAnswer(NoAnswer)
    BY DEF NoAnswer, Answer, IsAnswer
  <2>8. nodeVars' = nodeVars
    BY <2>1
  <2>9. CacheGood /\ NodeGood
    BY <2>8, TypesOfNodeVars
  <2>10. IsAnswer(answer') /\ calls' \in Nat /\ iteration' \in Nat /\ solving' \in BOOLEAN
    BY <2>1, <2>3, <2>7 DEF TypeOK
  <2>11. /\ version' = version /\ caller' = caller /\ pending' = pending /\ got' = got
         /\ ridden' = ridden /\ aborting' = aborting /\ stateId' = stateId
         /\ clearing' = clearing
    BY <2>1 DEF pollVars
  <2> QED
    BY <2>1, <2>6, <2>9, <2>10, <2>11 DEF TypeOK
<1>19. CASE UNCHANGED vars
  BY <1>19 DEF vars, nodeVars, pollVars, clientVars, countVars, TypeOK
<1> QED
  BY <1>5, <1>6, <1>7, <1>8, <1>9, <1>11, <1>12, <1>13, <1>14, <1>15, <1>16, <1>17, <1>18, <1>19
     DEF Next, Execute, Finish, Command

-----------------------------------------------------------------------------
(* Who waits for whom. *)

(* The steps that end an execution: n answers c, and n is not executing    *)
(* afterwards.                                                             *)
Returning(n, c, a) ==
    /\ request # None
    /\ pending[n] = {}
    /\ c \in Nodes => n \in pending[c]
    /\ c = Client => n = request.root
    /\ Return(n, c, a)
    /\ caller' = [caller EXCEPT ![n] = None]
    /\ \A m \in Nodes : lastId'[m] = lastId[m] \/ lastId'[m] = request.id

(* What each end of an execution leaves of the calls: either the request   *)
(* is answered and nothing executes any more, or n's caller has one answer *)
(* more.                                                                   *)
LEMMA ReturnEffect ==
    ASSUME TypeOK, ExecInv, NEW n \in Nodes, NEW c \in Nodes \cup {Client}, NEW a,
           Returning(n, c, a)
    PROVE  \/ /\ c = Client /\ n = request.root
              /\ request' = None /\ answer' = a
              /\ \A m \in Nodes : caller'[m] = None /\ pending'[m] = {}
           \/ /\ c \in Nodes /\ c # n /\ n \in Kids[c] /\ caller[c] # None
              /\ request' = request /\ aborting' = aborting
              /\ caller'[n] = None /\ pending'[n] = {}
              /\ caller'[c] = caller[c] /\ pending'[c] = pending[c] \ {n}
              /\ got'[c] = [got[c] EXCEPT ![n] = a]
              /\ \A m \in Nodes \ {n, c} : /\ caller'[m] = caller[m]
                                           /\ pending'[m] = pending[m]
                                           /\ got'[m] = got[m]
<1>1. /\ caller \in [Nodes -> Nodes \cup {Client, None}]
      /\ pending \in [Nodes -> SUBSET Nodes]
      /\ DOMAIN got = Nodes
      /\ \A m \in Nodes : DOMAIN got[m] = Kids[m]
  BY DEF TypeOK
<1>2. /\ request # None
      /\ pending[n] = {}
      /\ c \in Nodes => n \in pending[c]
      /\ c = Client => n = request.root
      /\ Return(n, c, a)
      /\ caller' = [caller EXCEPT ![n] = None]
  BY DEF Returning
<1>3. CASE c = Client
  <2>1. \A m \in Nodes : Executing(m) => m = n
    BY <1>1, <1>2, <1>3, NobodyElse
  <2>2. \A m \in Nodes : ~Executing(m) => pending[m] = {}
    BY DEF ExecInv
  <2>3. answer' = a /\ request' = None /\ pending' = [pending EXCEPT ![n] = {}]
    BY <1>2, <1>3 DEF Return
  <2>4. \A m \in Nodes : caller'[m] = None
    BY <1>1, <1>2, <2>1 DEF Executing
  <2>5. \A m \in Nodes : pending'[m] = {}
    BY <1>1, <1>2, <2>1, <2>2, <2>3
  <2> QED
    BY <1>2, <1>3, <2>3, <2>4, <2>5
<1>4. CASE c \in Nodes
  <2>1. c # Client
    BY <1>4, ForestAssumption
  <2>2. n \in pending[c] /\ c # n
    BY <1>2, <1>4
  <2>3. n \in Kids[c] /\ Executing(c)
    BY <1>4, <2>2 DEF ExecInv
  <2>4. /\ got' = [got EXCEPT ![n] = NoAnswers[n], ![c][n] = a]
        /\ pending' = [pending EXCEPT ![n] = {}, ![c] = @ \ {n}]
        /\ request' = request /\ aborting' = aborting
    BY <1>2, <2>1 DEF Return
  <2>5. /\ got'[c] = [got[c] EXCEPT ![n] = a]
        /\ \A m \in Nodes \ {n, c} : got'[m] = got[m]
    BY <1>1, <1>4, <2>2, <2>4
  <2>6. /\ pending'[n] = {} /\ pending'[c] = pending[c] \ {n}
        /\ \A m \in Nodes \ {n, c} : pending'[m] = pending[m]
    BY <1>1, <1>4, <2>2, <2>4
  <2>7. caller'[n] = None /\ \A m \in Nodes \ {n} : caller'[m] = caller[m]
    BY <1>1, <1>2
  <2> QED
    BY <1>4, <2>2, <2>3, <2>4, <2>5, <2>6, <2>7 DEF Executing
<1> QED
  BY <1>3, <1>4

LEMMA ReturnKeepsExecInv ==
    ASSUME TypeOK, ExecInv, NEW n \in Nodes, NEW c \in Nodes \cup {Client}, NEW a,
           Returning(n, c, a)
    PROVE  ExecInv'
<1> SUFFICES ASSUME NEW m \in Nodes
             PROVE  /\ pending'[m] \subseteq Kids[m]
                    /\ caller'[m] # None => request' # None /\ lastId'[m] = request'.id
                    /\ caller'[m] = None => pending'[m] = {}
                    /\ caller'[m] \in Nodes => m \in pending'[caller'[m]]
                    /\ caller'[m] = Client => m = request'.root
  BY DEF ExecInv, Executing
<1>1. /\ \A k \in Nodes :
           /\ pending[k] \subseteq Kids[k]
           /\ caller[k] # None => request # None /\ lastId[k] = request.id
           /\ caller[k] = None => pending[k] = {}
           /\ caller[k] \in Nodes => k \in pending[caller[k]]
           /\ caller[k] = Client => k = request.root
  BY DEF ExecInv, Executing
<1>2. Client # None /\ None \notin Nodes /\ Client \notin Nodes
  BY ForestAssumption
<1>3. \A k \in Nodes : lastId'[k] = lastId[k] \/ lastId'[k] = request.id
  BY DEF Returning
<1>4. pending[n] = {}
  BY DEF Returning
<1>5. CASE \A k \in Nodes : caller'[k] = None /\ pending'[k] = {}
  BY <1>2, <1>5
<1>6. CASE /\ c \in Nodes /\ c # n /\ n \in Kids[c] /\ caller[c] # None
           /\ request' = request
           /\ caller'[n] = None /\ pending'[n] = {}
           /\ caller'[c] = caller[c] /\ pending'[c] = pending[c] \ {n}
           /\ \A k \in Nodes \ {n, c} : /\ caller'[k] = caller[k]
                                        /\ pending'[k] = pending[k]
  <2>1. CASE m = n
    BY <1>2, <1>6, <2>1
  <2>2. CASE m # n
    <3>1. caller'[m] = caller[m]
      BY <1>6, <2>2
    <3>2. caller[m] \in Nodes => caller[m] # n
      BY <1>1, <1>4
    <3>3. \A k \in Nodes \ {n} : pending[k] \ {n} \subseteq pending'[k] /\ pending'[k] \subseteq pending[k]
      BY <1>6
    <3> QED
      BY <1>1, <1>2, <1>3, <1>6, <2>2, <3>1, <3>2, <3>3
  <2> QED
    BY <2>1, <2>2
<1>7. \/ \A k \in Nodes : caller'[k] = None /\ pending'[k] = {}
      \/ /\ c \in Nodes /\ c # n /\ n \in Kids[c] /\ caller[c] # None
         /\ request' = request
         /\ caller'[n] = None /\ pending'[n] = {}
         /\ caller'[c] = caller[c] /\ pending'[c] = pending[c] \ {n}
         /\ \A k \in Nodes \ {n, c} : /\ caller'[k] = caller[k]
                                      /\ pending'[k] = pending[k]
  <2> HIDE DEF Returning, ExecInv, TypeOK
  <2>1. \/ /\ c = Client /\ n = request.root
           /\ request' = None /\ answer' = a
           /\ \A k \in Nodes : caller'[k] = None /\ pending'[k] = {}
        \/ /\ c \in Nodes /\ c # n /\ n \in Kids[c] /\ caller[c] # None
           /\ request' = request /\ aborting' = aborting
           /\ caller'[n] = None /\ pending'[n] = {}
           /\ caller'[c] = caller[c] /\ pending'[c] = pending[c] \ {n}
           /\ got'[c] = [got[c] EXCEPT ![n] = a]
           /\ \A k \in Nodes \ {n, c} : /\ caller'[k] = caller[k]
                                        /\ pending'[k] = pending[k]
                                        /\ got'[k] = got[k]
    BY ReturnEffect
  <2> QED
    BY <2>1
<1> QED
  BY <1>5, <1>6, <1>7

(* The executions that end are the hits, the failures and the finishes.    *)
LEMMA EnterReturns ==
    ASSUME TypeOK, ExecInv, NEW n \in Nodes, NEW c \in Nodes \cup {Client}, NEW a,
           Calls(c, n), Return(n, c, a), caller' = caller,
           lastId' = lastId \/ lastId' = [lastId EXCEPT ![n] = request.id]
    PROVE  Returning(n, c, a)
<1>1. /\ request # None /\ caller[n] = None
      /\ c \in Nodes => n \in pending[c]
      /\ c = Client => n = request.root
  BY ForestAssumption DEF Calls, Executing
<1>2. pending[n] = {}
  BY <1>1 DEF ExecInv, Executing
<1>3. caller' = [caller EXCEPT ![n] = None]
  BY <1>1 DEF TypeOK
<1>4. \A m \in Nodes : lastId'[m] = lastId[m] \/ lastId'[m] = request.id
  BY DEF TypeOK
<1> QED
  BY <1>1, <1>2, <1>3, <1>4 DEF Returning

LEMMA FinishReturns ==
    ASSUME TypeOK, ExecInv, NEW n \in Nodes, NEW a, Polled(n), Leave(n),
           Return(n, caller[n], a), lastId' = lastId
    PROVE  Returning(n, caller[n], a) /\ caller[n] \in Nodes \cup {Client}
<1>1. Executing(n) /\ pending[n] = {}
  BY DEF Polled
<1>2. /\ request # None
      /\ caller[n] \in Nodes => n \in pending[caller[n]]
      /\ caller[n] = Client => n = request.root
  BY <1>1 DEF ExecInv
<1>3. caller[n] \in Nodes \cup {Client}
  BY <1>1 DEF Executing, TypeOK
<1> QED
  BY <1>1, <1>2, <1>3 DEF Returning, Leave

(* The answer that ends an execution, if the step ends one. *)
LEMMA EndsOfExecution ==
    ASSUME TypeOK, ExecInv, NEW n \in Nodes, Execute(n) \/ Finish(n)
    PROVE  \/ \E c \in Nodes \cup {Client} : EnterMiss(c, n)
           \/ \E c \in Nodes \cup {Client} : \E a : Returning(n, c, a)
<1>1. ASSUME NEW c \in Nodes \cup {Client},
             \/ EnterAborted(c, n)
             \/ EnterHit(c, n)
             \/ EnterIgnoringUpdate(c, n)
             \/ EnterRiderFails(c, n)
      PROVE  \E a : Returning(n, c, a)
  <2>1. /\ Calls(c, n) /\ caller' = caller
        /\ lastId' = lastId \/ lastId' = [lastId EXCEPT ![n] = request.id]
    BY <1>1 DEF EnterAborted, EnterHit, EnterIgnoringUpdate, EnterRiderFails, Misses, nodeVars
  <2>2. \E a : Return(n, c, a)
    BY <1>1, Zenon DEF EnterAborted, EnterHit, EnterIgnoringUpdate, EnterRiderFails
  <2> QED
    BY <2>1, <2>2, EnterReturns
<1>2. ASSUME NEW code \in Codes,
             FinishUncached(n, code) \/ FinishAsChild(n) \/ FinishComputed(n, code)
      PROVE  \E c \in Nodes \cup {Client} : \E a : Returning(n, c, a)
  <2>1. Polled(n) /\ Leave(n) /\ lastId' = lastId
    BY <1>2, Zenon DEF FinishUncached, FinishAsChild, FinishComputed, nodeVars
  <2>2. \E a : Return(n, caller[n], a)
    BY <1>2, Zenon DEF FinishUncached, FinishAsChild, FinishComputed
  <2> QED
    BY <2>1, <2>2, FinishReturns
<1>3. "ok" \in Codes /\ OwnCodes \subseteq Codes
  BY DEF Codes, OwnCodes
<1> QED
  BY <1>1, <1>2, <1>3 DEF Execute, Finish

LEMMA ExecStep ==
    ASSUME TypeOK, ExecInv, [Next]_vars
    PROVE  ExecInv'
<1>1. ASSUME NEW n \in Nodes, Execute(n) \/ Finish(n) PROVE ExecInv'
  <2>1. CASE \E c \in Nodes \cup {Client} : \E a : Returning(n, c, a)
    BY <2>1, ReturnKeepsExecInv
  <2>2. ASSUME NEW c \in Nodes \cup {Client}, EnterMiss(c, n) PROVE ExecInv'
    <3>1. /\ request # None /\ caller[n] = None
          /\ c \in Nodes => n \in pending[c]
          /\ c = Client => n = request.root
          /\ lastId' = [lastId EXCEPT ![n] = request.id]
          /\ caller' = [caller EXCEPT ![n] = c]
          /\ pending' = [pending EXCEPT ![n] = Kids[n]]
          /\ request' = request
      BY <2>2, ForestAssumption DEF EnterMiss, Misses, Calls, Executing, clientVars
    <3>2. /\ caller \in [Nodes -> Nodes \cup {Client, None}]
          /\ pending \in [Nodes -> SUBSET Nodes]
          /\ DOMAIN lastId = Nodes
      BY DEF TypeOK
    <3>3. /\ \A k \in Nodes :
             /\ pending[k] \subseteq Kids[k]
             /\ caller[k] # None => request # None /\ lastId[k] = request.id
             /\ caller[k] = None => pending[k] = {}
             /\ caller[k] \in Nodes => k \in pending[caller[k]]
             /\ caller[k] = Client => k = request.root
      BY DEF ExecInv, Executing
    <3>4. pending[n] = {} /\ c # n /\ c # None
      BY <3>1, <3>3, ForestAssumption
    <3>5. \A k \in Nodes : k # n => /\ caller'[k] = caller[k]
                                    /\ pending'[k] = pending[k]
                                    /\ lastId'[k] = lastId[k]
      BY <3>1, <3>2
    <3>6. caller'[n] = c /\ pending'[n] = Kids[n] /\ lastId'[n] = request.id
      BY <3>1, <3>2
    <3> SUFFICES ASSUME NEW m \in Nodes
                 PROVE  /\ pending'[m] \subseteq Kids[m]
                        /\ caller'[m] # None => request' # None /\ lastId'[m] = request'.id
                        /\ caller'[m] = None => pending'[m] = {}
                        /\ caller'[m] \in Nodes => m \in pending'[caller'[m]]
                        /\ caller'[m] = Client => m = request'.root
      BY DEF ExecInv, Executing
    <3>7. CASE m = n
      BY <3>1, <3>4, <3>5, <3>6, <3>7
    <3>8. CASE m # n
      BY <3>1, <3>3, <3>4, <3>5, <3>8
    <3> QED
      BY <3>7, <3>8
  <2> QED
    BY <1>1, <2>1, <2>2, EndsOfExecution
<1>2. ASSUME NEW n \in Nodes, Command(n) PROVE ExecInv'
  <2>1. pending' = pending /\ caller' = caller /\ request' = request /\ lastId' = lastId
    BY <1>2 DEF Command, SetState, ClearCommand, ClearCache, pollVars, clientVars, nodeVars
  <2> QED
    BY <2>1 DEF ExecInv, Executing
<1>3. ASSUME RaiseAbortFlag PROVE ExecInv'
  <2>1. pending' = pending /\ caller' = caller /\ request' = request /\ lastId' = lastId
    BY <1>3 DEF RaiseAbortFlag, pollVars, nodeVars
  <2> QED
    BY <2>1 DEF ExecInv, Executing
<1>4. ASSUME NEW root \in Roots, NEW type \in {EV, E1, PU}, NEW dom \in Domains,
             NEW update \in BOOLEAN, Issue(root, type, dom, update)
      PROVE  ExecInv'
  <2>1. request = None /\ pending' = pending /\ caller' = caller
    BY <1>4 DEF Issue, pollVars
  <2>2. \A m \in Nodes : caller[m] = None /\ pending[m] \subseteq Kids[m] /\ pending[m] = {}
    BY <2>1 DEF ExecInv, Executing
  <2> QED
    BY <2>1, <2>2, ForestAssumption DEF ExecInv, Executing
<1>5. CASE UNCHANGED vars
  BY <1>5 DEF vars, nodeVars, pollVars, clientVars, ExecInv, Executing
<1> QED
  BY <1>1, <1>2, <1>3, <1>4, <1>5 DEF Next

-----------------------------------------------------------------------------
(* What the steps of a request keep, as long as no state is set meanwhile. *)

(* An answer given earlier in the request stands. *)
LEMMA AnswerStands ==
    ASSUME TypeOK, RequestInv, NEW k \in Nodes, NEW a, AnsOK(k, a, stateDep),
           request # None, request' = request, Onward, aborting => aborting'
    PROVE  AnsOK(k, a, stateDep)'
<1>1. Below[k] \subseteq Nodes
  BY ForestFacts
<1>2. Shape(k, a, request.id)
  BY DEF AnsOK
<1>3. ASSUME NEW x \in a.parts
      PROVE  /\ x.version = version'[x.node]
             /\ request.update /\ x.node \in Solvable => lastId'[x.node] = request.id
  BY <1>1, <1>2 DEF AnsOK, Onward, Shape
<1>4. a.code \notin {"abort", "wait"} /\ Field(request.id, TypeField) # PU
        => Marks(k, a.deps, stateDep')
  BY <1>1 DEF AnsOK, Marks, Onward
<1>5. a.code = "abort" => aborting'
  BY DEF AnsOK
<1> QED
  BY <1>2, <1>3, <1>4, <1>5 DEF AnsOK

(* An answer that has been stored makes an entry that is sound. *)
LEMMA StoredIsOK ==
    ASSUME TypeOK, RequestInv, request # None, NEW n \in Nodes, NEW b,
           AnsOK(n, b, stateDep'), b.code \in {"ok", "fail", "missing"}, TypeField \in b.deps,
           cache'[n] = [valid |-> TRUE, id |-> request.id, answer |-> b],
           version' = version, stateId' = stateId, iteration' = iteration,
           request' = request \/ request' = None,
           \A m \in Nodes : lastId'[m] = lastId[m] \/ lastId'[m] = request.id
    PROVE  EntryOK(n)'
<1>1. /\ cache'[n].id = request.id
      /\ cache'[n].answer = b
  OBVIOUS
<1>2. /\ Field(request.id, StateField) = stateId
      /\ Field(request.id, IterField) = iteration
      /\ stateId \in Nat /\ iteration \in Nat
  BY DEF RequestInv, TypeOK
<1>3. b.deps \subseteq CachedDeps(n)'
  BY <1>1 DEF CachedDeps
<1>4. Shape(n, b, request.id) /\ \A x \in b.parts : x.version = version[x.node]
  BY DEF AnsOK
<1>5. Field(request.id, TypeField) # PU => Marks(n, CachedDeps(n)', stateDep')
  BY <1>3 DEF AnsOK, Marks
<1>6. request.update => \A x \in b.parts : x.node \in Solvable => lastId'[x.node] = request.id
  <2>1. \A x \in b.parts : x.node \in Nodes
    BY <1>4, ForestFacts DEF Shape
  <2> QED
    BY <2>1 DEF AnsOK
<1>7. \A x \in b.parts : x.version = version'[x.node]
  BY <1>4
<1>8. Field(request.id, StateField) <= stateId' /\ Field(request.id, IterField) <= iteration'
  BY <1>2
<1>9. request' # None /\ request'.update
        => \A x \in b.parts : x.node \in Solvable => lastId'[x.node] = request'.id
  BY <1>6
<1> QED
  BY <1>1, <1>4, <1>5, <1>7, <1>8, <1>9 DEF EntryOK

(* The end of an execution with a sound answer keeps the invariant. *)
LEMMA ReturnKeeps ==
    ASSUME IInv, NEW n \in Nodes, NEW c \in Nodes \cup {Client}, NEW a,
           Returning(n, c, a), AnsOK(n, a, stateDep'),
           version' = version, stateId' = stateId, iteration' = iteration,
           \A f \in Nodes : stateDep'[f] => stateDep[f]
    PROVE  /\ Onward
           /\ GotInv' /\ RequestInv'
           /\ Answered => AnsOK(request.root, answer', stateDep')
<1>1. TypeOK /\ ExecInv /\ RequestInv /\ GotInv /\ request # None
  BY DEF IInv, Returning
<1>2. request' = request \/ request' = None
  BY <1>1 DEF Returning, Return
<1>3. Onward
  BY <1>1, <1>2 DEF Onward, Returning
<1>4. RequestInv'
  BY <1>1, <1>2 DEF RequestInv
<1>5. CASE /\ n = request.root /\ request' = None /\ answer' = a
           /\ \A m \in Nodes : caller'[m] = None /\ pending'[m] = {}
  BY <1>3, <1>4, <1>5 DEF GotInv, Executing
<1>6. CASE /\ c \in Nodes /\ c # n /\ n \in Kids[c] /\ caller[c] # None
           /\ request' = request /\ aborting' = aborting
           /\ caller'[n] = None /\ pending'[n] = {}
           /\ caller'[c] = caller[c] /\ pending'[c] = pending[c] \ {n}
           /\ got'[c] = [got[c] EXCEPT ![n] = a]
           /\ \A m \in Nodes \ {n, c} : /\ caller'[m] = caller[m]
                                        /\ pending'[m] = pending[m]
                                        /\ got'[m] = got[m]
  <2>1. \A k \in Nodes : \A b : AnsOK(k, b, stateDep) => AnsOK(k, b, stateDep)'
    BY <1>1, <1>3, <1>6, AnswerStands
  <2>2. AnsOK(n, a, stateDep)'
    <3>1. AnsOK(n, a, stateDep') /\ Below[n] \subseteq Nodes
      BY ForestFacts
    <3>2. \A m \in Nodes : lastId'[m] = lastId[m] \/ lastId'[m] = request.id
      BY DEF Returning
    <3> QED
      BY <1>6, <3>1, <3>2 DEF AnsOK, Shape
  <2>3. ASSUME NEW p \in Nodes, NEW k \in Kids[p], Executing(p)', k \notin pending'[p]
        PROVE  AnsOK(k, got[p][k], stateDep)'
    <3>1. k \in Nodes /\ p # n
      BY <1>6, <2>3, ForestFacts DEF Executing
    <3>2. CASE p = c /\ k = n
      <4>1. got'[c][n] = a
        BY <1>1, <1>6 DEF TypeOK
      <4> QED
        BY <2>2, <3>2, <4>1
    <3>3. CASE ~(p = c /\ k = n)
      <4>1. Executing(p) /\ k \notin pending[p]
        BY <1>6, <2>3, <3>1, <3>3 DEF Executing
      <4>2. got'[p][k] = got[p][k]
        BY <1>1, <1>6, <3>1, <3>3 DEF TypeOK
      <4>3. AnsOK(k, got[p][k], stateDep)
        BY <1>1, <4>1 DEF GotInv
      <4> HIDE DEF AnsOK
      <4>4. \A b : b = got[p][k] => AnsOK(k, b, stateDep)'
        BY <2>1, <3>1, <4>3
      <4> QED
        BY <4>2, <4>4
    <3> QED
      BY <3>2, <3>3
  <2>4. GotInv'
    BY <2>3 DEF GotInv
  <2> QED
    BY <1>3, <1>4, <1>6, <2>4 DEF Answered
<1> QED
  <2> HIDE DEF AnsOK, IInv, Onward, GotInv, RequestInv, Returning
  <2>1. \/ /\ c = Client /\ n = request.root
           /\ request' = None /\ answer' = a
           /\ \A m \in Nodes : caller'[m] = None /\ pending'[m] = {}
        \/ /\ c \in Nodes /\ c # n /\ n \in Kids[c] /\ caller[c] # None
           /\ request' = request /\ aborting' = aborting
           /\ caller'[n] = None /\ pending'[n] = {}
           /\ caller'[c] = caller[c] /\ pending'[c] = pending[c] \ {n}
           /\ got'[c] = [got[c] EXCEPT ![n] = a]
           /\ \A m \in Nodes \ {n, c} : /\ caller'[m] = caller[m]
                                        /\ pending'[m] = pending[m]
                                        /\ got'[m] = got[m]
    BY <1>1, ReturnEffect
  <2> QED
    BY <1>5, <1>6, <2>1

(* The invariant apart from its types and the calls. *)
Sound == CacheInv /\ GotInv /\ RequestInv

AnsweredSoundly == Answered => AnsOK(request.root, answer', stateDep')

LEMMA CacheResultKeeps ==
    ASSUME IInv, NEW n \in Nodes, NEW c \in Nodes \cup {Client}, NEW a,
           CacheResult(n, request, a), Returning(n, c, Typed(a)),
           AnsOK(n, Typed(a), Unmarked(n)), Typed(a).code \in {"ok", "fail", "missing"},
           TypeField \in Typed(a).deps,
           version' = version, stateId' = stateId, iteration' = iteration
    PROVE  Sound' /\ AnsweredSoundly
<1> DEFINE b == Typed(a)
<1> HIDE DEF b
<1>1. TypeOK /\ RequestInv /\ CacheInv /\ request # None
  BY DEF IInv, Returning
<1>2. /\ cache'[n].valid => cache'[n] = [valid |-> TRUE, id |-> request.id, answer |-> b]
      /\ \A m \in Nodes \ {n} : cache'[m].valid => cache'[m] = cache[m]
      /\ stateDep' = Unmarked(n)
  BY <1>1, CacheResultEffect DEF Unmarked, b
<1>3. \A f \in Nodes : stateDep'[f] => stateDep[f]
  BY <1>1, <1>2 DEF Unmarked, TypeOK
<1>4. AnsOK(n, b, stateDep')
  BY <1>2 DEF b
<1>5. Onward /\ GotInv' /\ RequestInv' /\ AnsweredSoundly
  BY <1>3, <1>4, ReturnKeeps DEF AnsweredSoundly, b
<1>6. ASSUME NEW m \in Nodes PROVE EntryOK(m)'
  <2>1. CASE m = n /\ cache'[n].valid
    <3>1. /\ request' = request \/ request' = None
          /\ \A k \in Nodes : lastId'[k] = lastId[k] \/ lastId'[k] = request.id
      BY DEF Returning, Return
    <3>2. cache'[n] = [valid |-> TRUE, id |-> request.id, answer |-> b]
      BY <1>2, <2>1
    <3>3. b.code \in {"ok", "fail", "missing"} /\ TypeField \in b.deps
      BY DEF b
    <3>4. EntryOK(n)'
      BY <1>1, <1>4, <3>1, <3>2, <3>3, StoredIsOK
    <3> QED
      BY <2>1, <3>4
  <2>2. CASE ~cache'[m].valid
    BY <2>2 DEF EntryOK
  <2>3. CASE m # n
    <3>1. stateDep'[m] = stateDep[m]
      BY <1>1, <1>2, <2>3 DEF Unmarked, TypeOK
    <3>2. EntryKept(m)
      BY <1>2, <2>3, <3>1 DEF EntryKept, CachedDeps
    <3> QED
      BY <1>1, <1>5, <3>2, EntryStaysOK DEF CacheInv
  <2> QED
    BY <2>1, <2>2, <2>3
<1> QED
  BY <1>5, <1>6 DEF Sound, CacheInv

LEMMA TypedAnswer ==
    ASSUME NEW code, NEW deps, NEW parts, NEW lost
    PROVE  /\ Typed(Answer(code, deps, parts, lost)).code = code
           /\ Typed(Answer(code, deps, parts, lost)).deps = deps \cup {TypeField}
           /\ Typed(Answer(code, deps, parts, lost)).parts = parts
           /\ Typed(Answer(code, deps, parts, lost)).lost = lost
BY DEF Typed, Answer

(* An end of execution that stores nothing: the entries are as they were,  *)
(* or depend on more.                                                      *)
LEMMA UncachedKeeps ==
    ASSUME IInv, NEW n \in Nodes, NEW c \in Nodes \cup {Client}, NEW a,
           cache' = cache \/ cache' = [cache EXCEPT ![n].answer.deps = CachedDeps(n)],
           Returning(n, c, a), AnsOK(n, a, stateDep), stateDep' = stateDep,
           version' = version, stateId' = stateId, iteration' = iteration
    PROVE  Sound' /\ AnsweredSoundly
<1>1. TypeOK /\ RequestInv /\ CacheInv
  BY DEF IInv
<1>2. AnsOK(n, a, stateDep')
  OBVIOUS
<1>3. Onward /\ GotInv' /\ RequestInv' /\ AnsweredSoundly
  BY <1>2, ReturnKeeps DEF AnsweredSoundly
<1>4. ASSUME NEW m \in Nodes PROVE EntryKept(m)
  <2>1. DOMAIN cache[m] = {"valid", "id", "answer"}
        /\ DOMAIN cache[m].answer = {"code", "deps", "parts", "lost"} /\ DOMAIN cache = Nodes
    BY <1>1 DEF TypeOK, IsAnswer
  <2>2. CASE cache'[m] = cache[m]
    BY <2>2 DEF EntryKept, CachedDeps
  <2>3. CASE m = n /\ cache'[n] = [cache[n] EXCEPT !.answer = [@ EXCEPT !.deps = CachedDeps(n)]]
    <3>1. /\ cache'[n].valid = cache[n].valid
          /\ cache'[n].id = cache[n].id
          /\ cache'[n].answer = [cache[n].answer EXCEPT !.deps = CachedDeps(n)]
      BY <2>1, <2>3
    <3>2. /\ cache'[n].answer.parts = cache[n].answer.parts
          /\ cache'[n].answer.code = cache[n].answer.code
          /\ cache'[n].answer.deps = CachedDeps(n)
      BY <2>1, <2>3, <3>1
    <3> QED
      BY <2>3, <3>1, <3>2 DEF EntryKept, CachedDeps
  <2> QED
    BY <2>1, <2>2, <2>3
<1>5. \A m \in Nodes : EntryOK(m)'
  BY <1>1, <1>3, <1>4, EntryStaysOK DEF CacheInv
<1> QED
  BY <1>3, <1>5 DEF Sound, CacheInv

(* An answer without parts, of any code that promises nothing. *)
LEMMA EmptyAnswerIsOK ==
    ASSUME NEW n \in Nodes, NEW a, NEW marked, a.parts = {},
           \/ a.code = "wait"
           \/ a.code = "abort" /\ aborting
           \/ a.code = "ok" /\ Field(request.id, TypeField) = PU
           \/ a.code = "fail" /\ \A f \in Below[n] : ~marked[f]
    PROVE  AnsOK(n, a, marked)
BY DEF AnsOK, Shape, Marks

LEMMA EnterStep ==
    ASSUME IInv, NEW n \in Nodes, NEW c \in Nodes \cup {Client},
           \/ EnterAborted(c, n)
           \/ EnterHit(c, n)
           \/ EnterIgnoringUpdate(c, n)
           \/ EnterRiderFails(c, n)
    PROVE  Sound' /\ AnsweredSoundly
<1>1. TypeOK /\ ExecInv
  BY DEF IInv
<1>2. /\ Calls(c, n) /\ caller' = caller /\ request # None
      /\ lastId' = lastId \/ lastId' = [lastId EXCEPT ![n] = request.id]
      /\ version' = version /\ stateId' = stateId /\ iteration' = iteration
  BY DEF EnterAborted, EnterHit, EnterIgnoringUpdate, EnterRiderFails, Misses, nodeVars, Calls
<1>3. \A a : Return(n, c, a) => Returning(n, c, a)
  BY <1>1, <1>2, EnterReturns
<1>4. CASE EnterAborted(c, n)
  <2> DEFINE a == Answer("abort", {}, {}, FALSE)
  <2>1. aborting /\ Return(n, c, a) /\ cache' = cache /\ stateDep' = stateDep
    BY <1>4 DEF EnterAborted, nodeVars
  <2>2. a.parts = {} /\ a.code = "abort"
    BY DEF Answer
  <2> HIDE DEF a
  <2>3. AnsOK(n, a, stateDep)
    BY <2>1, <2>2, EmptyAnswerIsOK
  <2> QED
    BY <1>2, <1>3, <2>1, <2>3, UncachedKeeps
<1>5. CASE EnterHit(c, n)
  <2>1. /\ Return(n, c, CachedAnswer(n, request.id)) /\ Hit(n, request.id)
        /\ cache' = [cache EXCEPT ![n].answer.deps = CachedDeps(n)] /\ stateDep' = stateDep
    BY <1>5 DEF EnterHit
  <2>2. AnsOK(n, CachedAnswer(n, request.id), stateDep)
    BY <1>2, <2>1, HitIsOK
  <2> QED
    BY <1>2, <1>3, <2>1, <2>2, UncachedKeeps
<1>6. CASE EnterIgnoringUpdate(c, n)
  <2> DEFINE a == Answer("ok", {}, {}, cache[n].answer.lost)
  <2>1. /\ Return(n, c, a) /\ UpdateIgnored(n, request.id)
        /\ cache' = [cache EXCEPT ![n].answer.deps = CachedDeps(n)] /\ stateDep' = stateDep
    BY <1>6 DEF EnterIgnoringUpdate
  <2>2. a.parts = {} /\ a.code = "ok"
    BY DEF Answer
  <2> HIDE DEF a
  <2>3. AnsOK(n, a, stateDep)
    BY <2>1, <2>2, EmptyAnswerIsOK DEF UpdateIgnored
  <2> QED
    BY <1>2, <1>3, <2>1, <2>3, UncachedKeeps
<1>7. CASE EnterRiderFails(c, n)
  <2> DEFINE a == Answer("fail", {}, {}, TRUE)
  <2>1. CacheResult(n, request, a) /\ Return(n, c, Typed(a)) /\ n \in Solvable
    BY <1>7 DEF EnterRiderFails, CarriesUpdate
  <2>2. Typed(a).parts = {} /\ Typed(a).code = "fail" /\ TypeField \in Typed(a).deps
    BY DEF Typed, Answer
  <2>3. \A f \in Below[n] : ~Unmarked(n)[f]
    <3>1. Below[n] = {n}
      BY <2>1, ForestFacts, SolvableAssumption
    <3> QED
      BY <1>1, <3>1 DEF Unmarked, TypeOK
  <2>4. AnsOK(n, Typed(a), Unmarked(n))
    BY <2>2, <2>3, EmptyAnswerIsOK
  <2> HIDE DEF a
  <2> QED
    BY <1>2, <1>3, <2>1, <2>2, <2>4, CacheResultKeeps
<1> QED
  BY <1>4, <1>5, <1>6, <1>7

LEMMA FinishStep ==
    ASSUME IInv, NEW n \in Nodes, NEW code,
           \/ FinishUncached(n, code)
           \/ FinishAsChild(n)
           \/ FinishComputed(n, code) /\ code \in OwnCodes
    PROVE  Sound' /\ AnsweredSoundly
<1>1. TypeOK /\ ExecInv
  BY DEF IInv
<1>2. /\ Polled(n) /\ Leave(n) /\ lastId' = lastId
      /\ version' = version /\ stateId' = stateId /\ iteration' = iteration
  BY Zenon DEF FinishUncached, FinishAsChild, FinishComputed, nodeVars
<1>3. \A a : Return(n, caller[n], a)
               => Returning(n, caller[n], a) /\ caller[n] \in Nodes \cup {Client}
  BY <1>1, <1>2, FinishReturns
<1>4. CASE FinishUncached(n, code)
  <2> DEFINE a == Answer(code, {}, {}, FALSE)
  <2>1. /\ (aborting /\ code = "abort") \/ code = "wait"
        /\ Return(n, caller[n], a) /\ cache' = cache /\ stateDep' = stateDep
    BY <1>4 DEF FinishUncached, nodeVars
  <2>2. a.parts = {} /\ a.code = code
    BY DEF Answer
  <2> HIDE DEF a
  <2>3. AnsOK(n, a, stateDep)
    BY <2>1, <2>2, EmptyAnswerIsOK
  <2> QED
    BY <1>2, <1>3, <2>1, <2>3, UncachedKeeps
<1>5. CASE FinishAsChild(n)
  <2> DEFINE cc == IF "fail" \in KidCodes(n) THEN "fail" ELSE "missing"
             a == Answer(cc, KidDeps(n), KidParts(n), Lost(n))
  <2>1. /\ ~aborting /\ "wait" \notin KidCodes(n)
        /\ CacheResult(n, request, a) /\ Return(n, caller[n], Typed(a))
    BY <1>5 DEF FinishAsChild
  <2>2. cc \in {"fail", "missing"}
    OBVIOUS
  <2> HIDE DEF cc
  <2>3. AnsOK(n, Typed(a), Unmarked(n))
    BY <1>2, <2>1, <2>2, ChildAnswerIsOK
  <2>4. Typed(a).code = cc /\ TypeField \in Typed(a).deps
    BY TypedAnswer
  <2> HIDE DEF a
  <2> QED
    BY <1>2, <1>3, <2>1, <2>2, <2>3, <2>4, CacheResultKeeps
<1>6. CASE FinishComputed(n, code) /\ code = "wait"
  <2> DEFINE a == Answer("wait", {}, {}, FALSE)
  <2>1. Return(n, caller[n], a) /\ cache' = cache /\ stateDep' = stateDep
    BY <1>6 DEF FinishComputed
  <2>2. a.parts = {} /\ a.code = "wait"
    BY DEF Answer
  <2> HIDE DEF a
  <2>3. AnsOK(n, a, stateDep)
    BY <2>2, EmptyAnswerIsOK
  <2> QED
    BY <1>2, <1>3, <2>1, <2>3, UncachedKeeps
<1>7. CASE FinishComputed(n, code) /\ code \in OwnCodes \ {"wait"}
  <2> DEFINE a == Answer(code, KidDeps(n) \cup OwnDeps(n), ComputedParts(n), Lost(n))
  <2>1. /\ ~aborting /\ KidCodes(n) \subseteq {"ok"}
        /\ CacheResult(n, request, a) /\ Return(n, caller[n], Typed(a))
    BY <1>7 DEF FinishComputed, ComputedParts
  <2>2. code \in {"ok", "fail", "missing"}
    BY <1>7 DEF OwnCodes
  <2>3. AnsOK(n, Typed(a), Unmarked(n))
    BY <1>2, <2>1, <2>2, ComputedAnswerIsOK
  <2>4. Typed(a).code = code /\ TypeField \in Typed(a).deps
    BY TypedAnswer
  <2> HIDE DEF a
  <2> QED
    BY <1>2, <1>3, <2>1, <2>2, <2>3, <2>4, CacheResultKeeps
<1> QED
  BY <1>4, <1>5, <1>6, <1>7

(* A node that begins a poll drops its entry; if it processed an update,   *)
(* every entry with its old part is of an earlier iteration, and says so.  *)
LEMMA MissStep ==
    ASSUME IInv, NEW n \in Nodes, NEW c \in Nodes \cup {Client}, EnterMiss(c, n)
    PROVE  Sound' /\ AnsweredSoundly
<1>1. /\ Misses(c, n) /\ request # None
      /\ cache' = [cache EXCEPT ![n].valid = FALSE]
      /\ stateDep' = [stateDep EXCEPT ![n] = FALSE]
      /\ lastId' = [lastId EXCEPT ![n] = request.id]
      /\ caller' = [caller EXCEPT ![n] = c]
      /\ pending' = [pending EXCEPT ![n] = Kids[n]]
      /\ got' = got /\ request' = request /\ aborting' = aborting
      /\ stateId' = stateId /\ iteration' = iteration
  BY DEF EnterMiss, Misses, Calls, clientVars
<1>2. TypeOK /\ CacheInv /\ GotInv /\ RequestInv
  BY DEF IInv
<1>3. request.id # <<>>
  <2>1. Field(<<>>, TypeField) = 0
    BY DEF Field
  <2> QED
    BY <1>1, <1>2, <2>1 DEF RequestInv, EV, E1, PU
<1>4. version' = version \/ /\ version' = [version EXCEPT ![n] = @ + 1]
                            /\ n \in Solvable /\ request.update /\ lastId[n] # request.id
  BY <1>3, Zenon DEF EnterMiss, CarriesUpdate, IsNewRequest
<1>5. Onward
  <2>1. \A f \in Nodes : stateDep'[f] => stateDep[f]
    BY <1>1, <1>2 DEF TypeOK
  <2>2. \A f \in Nodes : lastId'[f] = lastId[f] \/ lastId'[f] = request.id
    BY <1>1, <1>2 DEF TypeOK
  <2>3. \A f \in Nodes :
          \/ version'[f] = version[f]
          \/ f \in Solvable /\ request.update /\ lastId[f] # request.id
    BY <1>2, <1>4 DEF TypeOK
  <2> QED
    BY <1>1, <2>1, <2>2, <2>3 DEF Onward
<1>6. ASSUME NEW m \in Nodes PROVE EntryKept(m)
  <2>1. CASE m = n
    <3>1. ~cache'[n].valid
      BY <1>1, <1>2 DEF TypeOK
    <3> QED
      BY <2>1, <3>1 DEF EntryKept
  <2>2. CASE m # n
    <3>1. cache'[m] = cache[m] /\ stateDep'[m] = stateDep[m]
      BY <1>1, <1>2, <2>2 DEF TypeOK
    <3> QED
      BY <3>1 DEF EntryKept, CachedDeps
  <2> QED
    BY <2>1, <2>2
<1>7. CacheInv'
  BY <1>2, <1>5, <1>6, EntryStaysOK DEF CacheInv
<1>8. ASSUME NEW p \in Nodes, NEW k \in Kids[p], Executing(p)', k \notin pending'[p]
      PROVE  AnsOK(k, got[p][k], stateDep)'
  <2>1. p # n /\ k \in Nodes
    BY <1>1, <1>2, <1>8, ForestFacts DEF TypeOK
  <2>2. Executing(p) /\ k \notin pending[p]
    BY <1>1, <1>2, <1>8, <2>1 DEF Executing, TypeOK
  <2>3. AnsOK(k, got[p][k], stateDep)
    BY <1>2, <2>2 DEF GotInv
  <2> HIDE DEF AnsOK
  <2>4. \A b : b = got[p][k] => AnsOK(k, b, stateDep)'
    BY <1>1, <1>2, <1>5, <2>1, <2>3, AnswerStands
  <2> QED
    BY <1>1, <2>4
<1>9. GotInv'
  BY <1>8 DEF GotInv
<1>10. RequestInv'
  BY <1>1, <1>2 DEF RequestInv
<1> QED
  BY <1>1, <1>7, <1>9, <1>10 DEF Sound, AnsweredSoundly, Answered

(* Commands that leave states alone. *)
LEMMA OtherCommandStep ==
    ASSUME IInv,
           \/ \E n \in Nodes : ClearCache(n)
           \/ \E n \in Nodes, recursive \in BOOLEAN : ClearCommand(n, recursive)
           \/ RaiseAbortFlag
           \/ UNCHANGED vars
    PROVE  Sound' /\ AnsweredSoundly
<1>1. TypeOK /\ CacheInv /\ GotInv /\ RequestInv
  BY DEF IInv
<1>2. /\ \/ cache' = cache
         \/ \E n \in Nodes : cache' = [cache EXCEPT ![n].valid = FALSE]
      /\ stateDep' = stateDep /\ lastId' = lastId /\ version' = version
      /\ caller' = caller /\ pending' = pending /\ got' = got
      /\ request' = request /\ stateId' = stateId /\ iteration' = iteration
      /\ aborting => aborting'
  BY DEF ClearCache, ClearCommand, RaiseAbortFlag, vars, nodeVars, pollVars, clientVars
<1>3. Onward
  BY <1>2 DEF Onward
<1>4. \A m \in Nodes : cache'[m].valid => cache'[m] = cache[m]
  BY <1>1, <1>2 DEF TypeOK
<1>5. \A m \in Nodes : EntryKept(m)
  BY <1>2, <1>4 DEF EntryKept, CachedDeps
<1>6. CacheInv'
  BY <1>1, <1>3, <1>5, EntryStaysOK DEF CacheInv
<1>7. GotInv'
  <2> HIDE DEF AnsOK
  <2>1. \A k \in Nodes : \A b : request # None /\ AnsOK(k, b, stateDep) => AnsOK(k, b, stateDep)'
    BY <1>1, <1>2, <1>3, AnswerStands
  <2> SUFFICES ASSUME NEW p \in Nodes, NEW k \in Kids[p], Executing(p)', k \notin pending'[p]
               PROVE  AnsOK(k, got[p][k], stateDep)'
    BY DEF GotInv
  <2>2. AnsOK(k, got[p][k], stateDep) /\ request # None /\ k \in Nodes
    BY <1>1, <1>2, ForestFacts DEF GotInv, Executing, IInv, ExecInv
  <2>3. \A b : b = got[p][k] => AnsOK(k, b, stateDep)'
    BY <2>1, <2>2
  <2> QED
    BY <1>2, <2>3
<1>8. RequestInv'
  BY <1>1, <1>2 DEF RequestInv
<1> QED
  BY <1>2, <1>6, <1>7, <1>8 DEF Sound, AnsweredSoundly, Answered

(* propagateStateDependency reaches every node above the one that was set  *)
(* whose entry does not depend on states yet.                              *)
LEMMA MarkingReaches ==
    ASSUME NEW n \in Nodes, NEW m \in Nodes, NEW f \in Below[m], f \in Marked(n),
           \A g \in Below[m] : ~stateDep[g]
    PROVE  m \in Marked(n)
<1> DEFINE S == {g \in Below[m] : f \in Below[g] /\ g \notin Marked(n)}
<1>1. m \in Below[m] /\ Below[m] \subseteq Nodes
  BY ForestFacts
<1> SUFFICES ASSUME S # {} PROVE FALSE
  BY <1>1
<1>2. S \in SUBSET Nodes
  BY <1>1
<1>3. PICK g \in S : Kids[g] \cap S = {}
  BY <1>2, ForestAssumption
<1>4. g \in Nodes /\ g # f /\ f \in Below[g]
  BY <1>1, <1>3
<1>5. PICK k \in Kids[g] : f \in Below[k]
  BY <1>4, ForestFacts
<1>6. k \in Nodes /\ k \in Below[g]
  BY <1>4, ForestFacts
<1>7. k \in Below[m]
  BY <1>3, <1>4, <1>6, ForestAssumption
<1>8. k \in Marked(n)
  BY <1>3, <1>5, <1>7
<1>9. \A T \in SUBSET Nodes : Marking(n, T) => k \in T
  BY <1>8 DEF Marked
<1>10. \A T \in SUBSET Nodes : Marking(n, T) => g \in T
  BY <1>3, <1>4, <1>5, <1>6, <1>9 DEF Marking
<1> QED
  BY <1>3, <1>4, <1>10 DEF Marked

LEMMA SetStateStep ==
    ASSUME IInv, ~CommandsRace, NEW n \in Nodes, SetState(n)
    PROVE  Sound' /\ AnsweredSoundly
<1>1. /\ request = None /\ request' = request
      /\ version' = [version EXCEPT ![n] = @ + 1]
      /\ stateDep' = [m \in Nodes |-> stateDep[m] \/ m \in Marked(n)]
      /\ stateId' = stateId + 1
      /\ cache' = cache /\ iteration' = iteration /\ caller' = caller
  BY DEF SetState, pollVars
<1>2. TypeOK /\ CacheInv /\ ExecInv
  BY DEF IInv
<1>3. ASSUME NEW m \in Nodes, cache[m].valid PROVE EntryOK(m)'
  <2> DEFINE e == cache[m]
  <2>1. /\ Shape(m, e.answer, e.id)
        /\ e.answer.code \in {"ok", "fail", "missing"}
        /\ TypeField \in e.answer.deps
        /\ Field(e.id, StateField) <= stateId
        /\ Field(e.id, IterField) <= iteration
        /\ \A x \in e.answer.parts : x.version = version[x.node] \/ Suspect(m, x)
        /\ Field(e.id, TypeField) # PU => Marks(m, CachedDeps(m), stateDep)
    BY <1>2, <1>3 DEF CacheInv, EntryOK
  <2>2. Field(e.id, StateField) < stateId'
    BY <1>1, <1>2, <2>1, FieldFacts DEF TypeOK, IsId
  <2>3. CachedDeps(m) \subseteq CachedDeps(m)'
    BY <1>1 DEF CachedDeps
  <2>4. ASSUME NEW f \in Below[m], f \in Marked(n) \/ f = n \/ stateDep'[f],
               Field(e.id, TypeField) # PU
        PROVE  StateField \in CachedDeps(m)'
    <3>1. f \in Nodes /\ Below[m] \subseteq Nodes
      BY ForestFacts
    <3>2. CASE \E g \in Below[m] : stateDep[g]
      BY <2>1, <2>3, <2>4, <3>2 DEF Marks
    <3>3. CASE \A g \in Below[m] : ~stateDep[g]
      <4>1. f \in Marked(n)
        BY <1>1, <2>4, <3>1, <3>3 DEF Marked, Marking
      <4>2. m \in Marked(n)
        BY <3>3, <4>1, MarkingReaches
      <4> QED
        BY <1>1, <4>2 DEF CachedDeps
    <3> QED
      BY <3>2, <3>3
  <2>5. Field(e.id, TypeField) # PU => Marks(m, CachedDeps(m)', stateDep')
    BY <2>4 DEF Marks
  <2>6. ASSUME NEW x \in e.answer.parts
        PROVE  x.version = version'[x.node] \/ Suspect(m, x)'
    <3>1. x.node \in Below[m] /\ x.node \in Nodes /\ Field(e.id, TypeField) # PU
      BY <2>1, ForestFacts DEF Shape
    <3>2. CASE x.node = n
      <4>1. StateField \in CachedDeps(m)'
        BY <2>4, <3>1, <3>2
      <4> QED
        BY <1>1, <2>2, <4>1 DEF Suspect
    <3>3. CASE x.node # n
      <4>1. version'[x.node] = version[x.node]
        BY <1>1, <1>2, <3>1, <3>3 DEF TypeOK
      <4>2. Suspect(m, x) => Suspect(m, x)'
        BY <1>1, <2>2, <2>3 DEF Suspect
      <4> QED
        BY <2>1, <4>1, <4>2
    <3> QED
      BY <3>2, <3>3
  <2>7. Field(e.id, StateField) <= stateId'
    BY <1>1, <1>2, <2>1, FieldFacts DEF TypeOK, IsId
  <2> QED
    BY <1>1, <2>1, <2>5, <2>6, <2>7 DEF EntryOK
<1>4. CacheInv'
  BY <1>1, <1>3 DEF CacheInv, EntryOK
<1>5. GotInv'
  BY <1>1, <1>2 DEF GotInv, Executing, ExecInv
<1>6. RequestInv'
  BY <1>1 DEF RequestInv
<1> QED
  BY <1>1, <1>4, <1>5, <1>6 DEF Sound, AnsweredSoundly, Answered

LEMMA IssueStep ==
    ASSUME IInv, NEW root \in Roots, NEW type \in {EV, E1, PU}, NEW dom \in Domains,
           NEW update \in BOOLEAN, Issue(root, type, dom, update)
    PROVE  Sound' /\ AnsweredSoundly
<1> DEFINE iter == IF update THEN iteration + 1 ELSE iteration
           id == NewId(type, iter, dom)
<1>1. /\ request = None
      /\ iteration' = iter
      /\ nodeVars' = nodeVars /\ version' = version /\ pollVars' = pollVars
      /\ stateId' = stateId
  BY DEF Issue
<1>2. PICK diff \in NextDiffs :
         request' = [root |-> root, id |-> id, next |-> IncrSubId(id, diff), update |-> update]
  BY DEF Issue
<1>3. TypeOK /\ CacheInv /\ ExecInv
  BY DEF IInv
<1>4. type \in Nat /\ iter \in Nat /\ dom \in Nat /\ stateId \in Nat /\ iteration \in Nat
  BY <1>3, BoundsAssumption DEF TypeOK, EV, E1, PU
<1>5. Field(id, TypeField) = type /\ Field(id, IterField) = iter /\ Field(id, StateField) = stateId
  BY <1>4, FieldsOfNewId
<1> HIDE DEF id
<1>6. RequestInv'
  BY <1>1, <1>2, <1>5 DEF RequestInv
<1>7. cache' = cache /\ stateDep' = stateDep /\ lastId' = lastId /\ caller' = caller
  BY <1>1 DEF nodeVars, pollVars
<1>8. ASSUME NEW m \in Nodes, cache[m].valid PROVE EntryOK(m)'
  <2> DEFINE e == cache[m]
  <2>1. /\ Shape(m, e.answer, e.id)
        /\ e.answer.code \in {"ok", "fail", "missing"}
        /\ TypeField \in e.answer.deps
        /\ Field(e.id, StateField) <= stateId
        /\ Field(e.id, IterField) <= iteration
        /\ \A x \in e.answer.parts : x.version = version[x.node] \/ Suspect(m, x)
        /\ Field(e.id, TypeField) # PU => Marks(m, CachedDeps(m), stateDep)
    BY <1>3, <1>8 DEF CacheInv, EntryOK
  <2>2. Field(e.id, IterField) \in Nat
    BY <1>3, FieldFacts DEF TypeOK, IsId
  <2>3. CachedDeps(m)' = CachedDeps(m)
    BY <1>7 DEF CachedDeps
  <2>4. \A x \in e.answer.parts : Suspect(m, x) => Suspect(m, x)'
    BY <1>1, <1>4, <1>7, <2>2, <2>3 DEF Suspect
  <2>5. request'.update => Field(e.id, IterField) < iteration'
    BY <1>1, <1>2, <1>4, <2>1, <2>2
  <2>6. Field(e.id, IterField) <= iteration'
    BY <1>1, <1>4, <2>1, <2>2
  <2> QED
    BY <1>1, <1>7, <2>1, <2>2, <2>3, <2>4, <2>5, <2>6 DEF EntryOK
<1>9. CacheInv'
  BY <1>7, <1>8 DEF CacheInv, EntryOK
<1>10. GotInv'
  BY <1>1, <1>3, <1>7 DEF GotInv, Executing, ExecInv
<1> QED
  BY <1>1, <1>6, <1>9, <1>10 DEF Sound, AnsweredSoundly, Answered

LEMMA InvInit == Init => IInv
<1> SUFFICES ASSUME Init PROVE IInv
  OBVIOUS
<1>1. IsAnswer(NoAnswer) /\ IsId(<<>>)
  BY DEF NoAnswer, Answer, IsAnswer, IsId, Field
<1>2. TypeOK
  BY <1>1 DEF Init, TypeOK, NoHints, NoAnswers
<1>3. CacheInv /\ GotInv /\ RequestInv
  BY DEF Init, CacheInv, EntryOK, GotInv, RequestInv, Executing
<1>4. ExecInv
  BY ForestAssumption DEF Init, ExecInv, Executing
<1> QED
  BY <1>2, <1>3, <1>4 DEF IInv

LEMMA InvNext ==
    ASSUME IInv, ~CommandsRace, [Next]_vars
    PROVE  IInv' /\ AnsweredSoundly
<1>1. TypeOK /\ ExecInv
  BY DEF IInv
<1>2. TypeOK' /\ ExecInv'
  BY <1>1, TypeStep, ExecStep
<1>3. Sound' /\ AnsweredSoundly
  <2>1. ASSUME NEW n \in Nodes, Execute(n) PROVE Sound' /\ AnsweredSoundly
    BY <2>1, EnterStep, MissStep DEF Execute
  <2>2. ASSUME NEW n \in Nodes, Finish(n) PROVE Sound' /\ AnsweredSoundly
    BY <2>2, FinishStep DEF Finish
  <2>3. ASSUME NEW n \in Nodes, Command(n) PROVE Sound' /\ AnsweredSoundly
    BY <2>3, SetStateStep, OtherCommandStep DEF Command
  <2>4. ASSUME RaiseAbortFlag \/ UNCHANGED vars PROVE Sound' /\ AnsweredSoundly
    BY <2>4, OtherCommandStep
  <2> QED
    BY <2>1, <2>2, <2>3, <2>4, IssueStep DEF Next
<1> QED
  BY <1>2, <1>3 DEF IInv, Sound

(* The variables of the forest have their types, whatever commands do.     *)
THEOREM TypeCorrect == Spec => []TypeOK
<1>1. Init => TypeOK /\ ExecInv
  BY InvInit DEF IInv
<1>2. TypeOK /\ ExecInv /\ [Next]_vars => TypeOK' /\ ExecInv'
  BY TypeStep, ExecStep
<1> QED
  BY <1>1, <1>2, PTL DEF Spec

(* What every cache and every answer under way are known to be, as long as *)
(* states are set between requests.                                        *)
THEOREM CachesAreSound == ASSUME ~CommandsRace PROVE Spec => []IInv
<1>1. IInv /\ [Next]_vars => IInv'
  BY InvNext
<1> QED
  BY <1>1, InvInit, PTL DEF Spec

(* No request is ever answered with a stale result: whatever the policies, *)
(* the dependencies, the interleaving of children, the aborts and the      *)
(* clears (getCachedResult, cacheResult, propagateStateDependency).        *)
THEOREM NoStaleAnswers == ASSUME ~CommandsRace PROVE Spec => AnswersAreFresh
<1> DEFINE Freshly == Answered /\ Field(request.id, StateField) = stateId =>
                        /\ Fresh(answer', request.id)
                        /\ answer'.code = "ok" /\ Field(request.id, TypeField) # PU =>
                              {x.node : x \in answer'.parts} = Below[request.root]
<1>1. AnsweredSoundly => Freshly
  BY DEF AnsweredSoundly, AnsOK, Shape, Fresh
<1>2. IInv /\ [Next]_vars => [Freshly]_vars
  BY <1>1, InvNext
<1> QED
  BY <1>2, CachesAreSound, PTL DEF Spec, AnswersAreFresh

(* Once per parameter and request: a parameter that has processed the      *)
(* rider knows the request.                                                *)
OnceInv ==
    /\ request # None => Field(request.id, TypeField) \in {EV, E1, PU}
    /\ \A n \in Nodes : /\ applied[n] <= 1
                        /\ request # None /\ applied[n] = 1 => lastId[n] = request.id

(* The steps that process no rider. *)
NoRider ==
    /\ request' = request \/ request' = None
    /\ applied' = applied
    /\ \A m \in Nodes : \/ lastId'[m] = lastId[m]
                        \/ request # None /\ lastId'[m] = request.id

LEMMA OnceStep ==
    ASSUME TypeOK, ExecInv, OnceInv, [Next]_vars
    PROVE  OnceInv'
<1>1. NoRider => OnceInv'
  BY DEF OnceInv, NoRider
<1>2. ASSUME NEW n \in Nodes, Execute(n) \/ Finish(n) PROVE OnceInv'
  <2>1. ASSUME NEW c \in Nodes \cup {Client}, EnterMiss(c, n) PROVE OnceInv'
    <3>1. /\ request # None /\ request' = request /\ lastId' = [lastId EXCEPT ![n] = request.id]
      BY <2>1 DEF EnterMiss, Misses, Calls, clientVars
    <3>2. CASE CarriesUpdate(n)
      <4>1. applied' = [applied EXCEPT ![n] = @ + 1]
        BY <2>1, <3>2 DEF EnterMiss
      <4>2. request.id # <<>>
        <5>1. Field(<<>>, TypeField) = 0
          BY DEF Field
        <5> QED
          BY <3>1, <5>1 DEF OnceInv, EV, E1, PU
      <4>3. applied[n] = 0
        BY <3>1, <3>2, <4>2 DEF OnceInv, CarriesUpdate, IsNewRequest, TypeOK
      <4>4. \A m \in Nodes : /\ lastId'[m] = IF m = n THEN request.id ELSE lastId[m]
                             /\ applied'[m] = IF m = n THEN 1 ELSE applied[m]
        BY <3>1, <4>1, <4>3 DEF TypeOK
      <4> QED
        BY <3>1, <4>4 DEF OnceInv
    <3>3. CASE ~CarriesUpdate(n)
      <4>1. applied' = applied
        BY <2>1, <3>3 DEF EnterMiss
      <4>2. \A m \in Nodes : lastId'[m] = lastId[m] \/ lastId'[m] = request.id
        BY <3>1 DEF TypeOK
      <4>3. NoRider
        BY <3>1, <4>1, <4>2 DEF NoRider
      <4> QED
        BY <1>1, <4>3
    <3> QED
      BY <3>2, <3>3
  <2>2. ASSUME NEW c \in Nodes \cup {Client}, NEW a, Returning(n, c, a), applied' = applied
        PROVE  OnceInv'
    <3>1. request' = request \/ request' = None
      BY <2>2 DEF Returning, Return
    <3>2. NoRider
      BY <2>2, <3>1 DEF Returning, NoRider
    <3> QED
      BY <1>1, <3>2
  <2>3. applied' = applied \/ \E c \in Nodes \cup {Client} : EnterMiss(c, n)
    BY <1>2, Zenon DEF Execute, Finish, EnterAborted, EnterHit, EnterIgnoringUpdate,
          EnterRiderFails, FinishUncached, FinishAsChild, FinishComputed, countVars
  <2>4. \/ \E c \in Nodes \cup {Client} : EnterMiss(c, n)
        \/ \E c \in Nodes \cup {Client} : \E a : Returning(n, c, a)
    BY <1>2, EndsOfExecution
  <2> QED
    BY <2>1, <2>2, <2>3, <2>4
<1>3. ASSUME NEW n \in Nodes, Command(n) PROVE OnceInv'
  <2>1. request' = request /\ applied' = applied /\ lastId' = lastId
    BY <1>3 DEF Command, SetState, ClearCommand, ClearCache, nodeVars, clientVars, countVars
  <2> QED
    BY <1>1, <2>1 DEF NoRider
<1>4. ASSUME RaiseAbortFlag \/ UNCHANGED vars PROVE OnceInv'
  <2>1. request' = request /\ applied' = applied /\ lastId' = lastId
    BY <1>4 DEF RaiseAbortFlag, vars, nodeVars, clientVars, countVars
  <2> QED
    BY <1>1, <2>1 DEF NoRider
<1>5. ASSUME NEW root \in Roots, NEW type \in {EV, E1, PU}, NEW dom \in Domains,
             NEW update \in BOOLEAN, Issue(root, type, dom, update)
      PROVE  OnceInv'
  <2> DEFINE iter == IF update THEN iteration + 1 ELSE iteration
             id == NewId(type, iter, dom)
  <2>1. applied' = [n \in Nodes |-> 0] /\ request'.id = id
    BY <1>5 DEF Issue
  <2>2. type \in Nat /\ iter \in Nat /\ dom \in Nat /\ stateId \in Nat
    BY BoundsAssumption DEF TypeOK, EV, E1, PU
  <2>3. Field(id, TypeField) = type
    BY <2>2, FieldsOfNewId
  <2> HIDE DEF id
  <2> QED
    BY <2>1, <2>3 DEF OnceInv
<1> QED
  BY <1>2, <1>3, <1>4, <1>5 DEF Next

(* An update reaches each parameter's rider at most once, however many     *)
(* paths lead to it and whatever commands come meanwhile (execute's test   *)
(* for a new request).                                                     *)
THEOREM RidersAreProcessedOnce == Spec => []UpdatedOnce
<1>1. Init => TypeOK /\ ExecInv /\ OnceInv
  BY InvInit DEF IInv, Init, OnceInv
<1>2. TypeOK /\ ExecInv /\ OnceInv /\ [Next]_vars => TypeOK' /\ ExecInv' /\ OnceInv'
  BY TypeStep, ExecStep, OnceStep
<1>3. OnceInv => UpdatedOnce
  BY DEF OnceInv, UpdatedOnce
<1> QED
  BY <1>1, <1>2, <1>3, PTL DEF Spec

-----------------------------------------------------------------------------
(* That a shared node comes to one result per request.                     *)

(* The uses of a forest in which nobody evaluates twice: shared nodes keep *)
(* results, no result is a wait, and only leaves have their caches cleared.*)
Steadfast ==
    /\ \A n \in Nodes : NumParents(n) > 1 => Policy[n] # NEVER
    /\ \A n \in Nodes, c \in 1..MaxCalls : "wait" \notin Outcomes[n][c]
    /\ \A n \in Clearable : Kids[n] = {}

(* Parent p needs no more of n in this request: it has come to its result, *)
(* or has the answer of n already.                                         *)
Had(p, n) == computed[p] = 1 \/ (Executing(p) /\ n \notin pending[p])

Over(n) == \A p \in Parents(n) : Had(p, n)

Kept(n) == NumParents(n) > 1 /\ cache[n].valid /\ cache[n].id = request.id

(* The parents that have come to a result, and so have given their hint.   *)
Hinters(n) == {p \in Parents(n) : computed[p] = 1}

(* A node that has come to its result is done with: it can answer from its *)
(* cache, and only parents that are done have given a hint, or all of them *)
(* are.                                                                    *)
DoneWith(n) ==
    computed[n] = 1 =>
        /\ ~Executing(n)
        /\ n # request.root
        /\ Kept(n) \/ Over(n)
        /\ NumParents(n) > 1 => hints[n].nhint <= Cardinality(Hinters(n))

NoWaits == \A n \in Nodes : /\ cache[n].answer.code # "wait"
                            /\ \A k \in Kids[n] : got[n][k].code # "wait"

ComputeInv ==
    /\ \A n \in Nodes : computed[n] <= 1
    /\ request # None => calls \in 1..MaxCalls
    /\ \A n \in clearing : Kids[n] = {}
    /\ NoWaits
    /\ request # None /\ ~aborting => \A n \in Nodes : DoneWith(n)

LEMMA ParentsAreFinite ==
    ASSUME NEW n \in Nodes
    PROVE  /\ IsFiniteSet(Parents(n)) /\ NumParents(n) \in Nat
           /\ Hinters(n) \subseteq Parents(n) /\ IsFiniteSet(Hinters(n))
           /\ Cardinality(Hinters(n)) \in Nat
<1>1. Parents(n) \subseteq Nodes /\ Hinters(n) \subseteq Parents(n)
  BY DEF Parents, Hinters
<1>2. IsFiniteSet(Parents(n)) /\ IsFiniteSet(Hinters(n))
  BY <1>1, FiniteAssumption, FS_Subset
<1> QED
  BY <1>1, <1>2, FS_CardinalityType DEF NumParents

(* No node that executes has the root of the request for a child.          *)
LEMMA RootHasNoCaller ==
    ASSUME TypeOK, ExecInv, NEW p \in Nodes, Executing(p)
    PROVE  request.root \notin Kids[p]
<1> DEFINE S == {m \in Nodes : Executing(m)}
<1>1. PICK m \in S : \A q \in S : m \notin Kids[q]
  BY ForestAssumption
<1>2. caller[m] \in Nodes \cup {Client}
  BY <1>1 DEF TypeOK, Executing
<1>3. ASSUME caller[m] \in Nodes PROVE FALSE
  <2>1. m \in pending[caller[m]]
    BY <1>1, <1>3 DEF ExecInv
  <2>2. Executing(caller[m]) /\ m \in Kids[caller[m]]
    BY <1>3, <2>1 DEF ExecInv
  <2> QED
    BY <1>1, <1>3, <2>2
<1>4. m = request.root
  BY <1>1, <1>2, <1>3 DEF ExecInv
<1> QED
  BY <1>1, <1>4

(* A node that is kept for this request answers from its cache.            *)
LEMMA KeptIsServed ==
    ASSUME OnceInv, request # None, NEW n \in Nodes, Kept(n)
    PROVE  Hit(n, request.id) \/ UpdateIgnored(n, request.id)
<1>1. request.id # <<>>
  BY DEF OnceInv, EV, E1, PU, Field
<1>2. DiffMask(request.id, cache[n].id) = {}
  BY DEF Kept, DiffMask
<1> QED
  BY <1>1, <1>2 DEF Kept, Hit, Comparable, SameForUs

(* A node misses its cache before it comes to its first result only.       *)
LEMMA MissIsFirst ==
    ASSUME TypeOK, ExecInv, OnceInv, ComputeInv,
           NEW n \in Nodes, NEW c \in Nodes \cup {Client}, Misses(c, n)
    PROVE  computed[n] = 0
<1>1. request # None /\ ~aborting
  BY DEF Misses, Calls
<1>2. computed[n] \in Nat /\ computed[n] <= 1
  BY DEF TypeOK, ComputeInv
<1> SUFFICES ASSUME computed[n] = 1 PROVE FALSE
  BY <1>2
<1>3. n # request.root /\ (Kept(n) \/ Over(n))
  BY <1>1 DEF ComputeInv, DoneWith
<1>4. ~Kept(n)
  BY <1>1, KeptIsServed DEF Misses
<1>5. c \in Nodes /\ n \in pending[c]
  BY <1>3 DEF Misses, Calls
<1>6. Executing(c) /\ n \in Kids[c]
  BY <1>5 DEF ExecInv
<1>7. Had(c, n)
  BY <1>3, <1>4, <1>5, <1>6 DEF Over, Parents
<1>8. computed[c] = 1
  BY <1>5, <1>7 DEF Had
<1> QED
  BY <1>1, <1>5, <1>6, <1>8 DEF ComputeInv, DoneWith

(* What parents had they still have, when an execution ends.               *)
LEMMA HadStands ==
    ASSUME TypeOK, ExecInv, NEW n \in Nodes, NEW c \in Nodes, NEW a, Returning(n, c, a),
           Executing(n) => computed'[n] = 1,
           \A m \in Nodes : computed[m] = 1 => computed'[m] = 1
    PROVE  /\ \A p, m \in Nodes : Had(p, m) => Had(p, m)'
           /\ Had(c, n)'
           /\ \A m \in Nodes : ~Executing(m) => ~Executing(m)'
           /\ request' = request /\ aborting' = aborting
           /\ n \in Kids[c] /\ Executing(c)
           /\ ~Executing(n)'
<1>1. c # Client
  BY ForestAssumption
<1>2. /\ c # n /\ n \in Kids[c] /\ caller[c] # None
      /\ request' = request /\ aborting' = aborting
      /\ caller'[n] = None /\ pending'[n] = {}
      /\ caller'[c] = caller[c] /\ pending'[c] = pending[c] \ {n}
      /\ \A m \in Nodes \ {n, c} : /\ caller'[m] = caller[m]
                                   /\ pending'[m] = pending[m]
  <2>1. \/ /\ c = Client /\ n = request.root
           /\ request' = None /\ answer' = a
           /\ \A m \in Nodes : caller'[m] = None /\ pending'[m] = {}
        \/ /\ c \in Nodes /\ c # n /\ n \in Kids[c] /\ caller[c] # None
           /\ request' = request /\ aborting' = aborting
           /\ caller'[n] = None /\ pending'[n] = {}
           /\ caller'[c] = caller[c] /\ pending'[c] = pending[c] \ {n}
           /\ got'[c] = [got[c] EXCEPT ![n] = a]
           /\ \A m \in Nodes \ {n, c} : /\ caller'[m] = caller[m]
                                        /\ pending'[m] = pending[m]
                                        /\ got'[m] = got[m]
    BY ReturnEffect
  <2> QED
    BY <1>1, <2>1
<1>3. ASSUME NEW p \in Nodes, NEW m \in Nodes, Had(p, m) PROVE Had(p, m)'
  <2>1. CASE computed[p] = 1
    BY <2>1 DEF Had
  <2>2. CASE caller[p] # None /\ m \notin pending[p]
    <3>1. CASE p = n
      BY <2>2, <3>1 DEF Had, Executing
    <3>2. CASE p # n
      BY <1>2, <2>2, <3>2 DEF Had, Executing
    <3> QED
      BY <3>1, <3>2
  <2> QED
    BY <1>3, <2>1, <2>2 DEF Had, Executing
<1>4. Had(c, n)'
  BY <1>2 DEF Had, Executing
<1> QED
  BY <1>2, <1>3, <1>4 DEF Executing

(* An answer without a new result: a hit, or an update that is ignored.    *)
LEMMA ServedKeepsDone ==
    ASSUME TypeOK, ExecInv, NEW n \in Nodes, NEW c \in Nodes, NEW a, Returning(n, c, a),
           ~Executing(n), computed' = computed,
           \A m \in Nodes : cache'[m].valid = cache[m].valid /\ cache'[m].id = cache[m].id,
           \A m \in Nodes : hints'[m].nhint = hints[m].nhint \/ hints'[m].nhint = 0,
           NEW m \in Nodes, DoneWith(m)
    PROVE  DoneWith(m)'
<1>1. /\ \A p, k \in Nodes : Had(p, k) => Had(p, k)'
      /\ \A k \in Nodes : ~Executing(k) => ~Executing(k)'
      /\ request' = request
  BY HadStands
<1> SUFFICES ASSUME computed'[m] = 1
             PROVE  /\ ~Executing(m)'
                    /\ m # request'.root
                    /\ Kept(m)' \/ Over(m)'
                    /\ NumParents(m) > 1 => hints'[m].nhint <= Cardinality(Hinters(m)')
  BY DEF DoneWith
<1>2. /\ ~Executing(m)
      /\ m # request.root
      /\ Kept(m) \/ Over(m)
      /\ NumParents(m) > 1 => hints[m].nhint <= Cardinality(Hinters(m))
  BY DEF DoneWith
<1>3. Kept(m) => Kept(m)'
  BY <1>1 DEF Kept
<1>4. Over(m) => Over(m)'
  BY <1>1 DEF Over, Parents
<1>5. Hinters(m)' = Hinters(m)
  BY DEF Hinters
<1>6. 0 <= Cardinality(Hinters(m))
  BY ParentsAreFinite
<1> QED
  BY <1>1, <1>2, <1>3, <1>4, <1>5, <1>6

(* What cacheResult does to the counts.                                    *)
LEMMA CacheResultCounts ==
    ASSUME TypeOK, NEW n \in Nodes, NEW r, NEW a, CacheResult(n, r, a)
    PROVE  /\ computed' = [computed EXCEPT ![n] = @ + 1]
           /\ hints'[n].nhint = 0
           /\ Policy[n] # NEVER /\ NumParents(n) > 1 =>
                 cache'[n].valid /\ cache'[n].id = r.id
           /\ \A m \in Kids[n] :
                 /\ hints'[m].nhint = hints[m].nhint + 1
                 /\ cache'[m] = cache[m] \/ hints'[m].nhint >= NumParents(m)
           /\ \A m \in Nodes : m # n /\ m \notin Kids[n] =>
                 hints'[m] = hints[m] /\ cache'[m] = cache[m]
           /\ cache'[n].answer = Typed(a) \/ cache'[n].answer = cache[n].answer
           /\ \A m \in Nodes : m # n => cache'[m].answer = cache[m].answer
<1> DEFINE diff == DiffMask(r.id, r.next)
           keep == ShouldCache(n, Typed(a), diff)
           hold(k) == ~LongCache(n, Typed(a), diff) /\ got[n][k].deps \cap diff = {}
           after == [m \in Nodes |-> CASE m = n -> NoHints
                                       [] m \in Kids[n] -> Hinted(m, hold(m))
                                       [] OTHER -> hints[m]]
           stored == [valid |-> TRUE, id |-> r.id, answer |-> Typed(a)]
<1>1. cache' = [m \in Nodes |->
               CASE m = n -> IF keep THEN stored ELSE [cache[m] EXCEPT !.valid = FALSE]
                 [] m \in Kids[n] /\ Releases(m, after[m]) ->
                      [cache[m] EXCEPT !.valid = FALSE]
                 [] OTHER -> cache[m]]
  BY Zenon DEF CacheResult
<1>2. hints' = after
  BY Zenon DEF CacheResult
<1>3. computed' = [computed EXCEPT ![n] = @ + 1]
  BY DEF CacheResult
<1>4. n \notin Kids[n] /\ Kids[n] \subseteq Nodes
  BY ForestAssumption
<1>5. Policy[n] # NEVER /\ NumParents(n) > 1 => keep
  BY DEF ShouldCache
<1>6. \A m \in Nodes : DOMAIN cache[m] = {"valid", "id", "answer"}
  BY DEF TypeOK
<1>7. \A m \in Nodes, h \in BOOLEAN : Hinted(m, h).nhint = hints[m].nhint + 1
  BY DEF Hinted
<1>8. \A m \in Nodes : hold(m) \in BOOLEAN
  OBVIOUS
<1>9. \A m \in Nodes : Releases(m, after[m]) => after[m].nhint >= NumParents(m)
  BY DEF Releases
<1> HIDE DEF keep, hold
<1>10. /\ after[n] = NoHints
       /\ \A m \in Kids[n] : after[m].nhint = hints[m].nhint + 1
       /\ \A m \in Nodes : m # n /\ m \notin Kids[n] => after[m] = hints[m]
  BY <1>4, <1>7, <1>8
<1> HIDE DEF after
<1>11. cache'[n] = IF keep THEN stored ELSE [cache[n] EXCEPT !.valid = FALSE]
  BY <1>1, <1>4
<1>12. ASSUME NEW m \in Nodes, m # n
       PROVE  \/ cache'[m] = cache[m]
              \/ /\ m \in Kids[n] /\ Releases(m, after[m])
                 /\ cache'[m] = [cache[m] EXCEPT !.valid = FALSE]
  BY <1>1, <1>12
<1>13. \A m \in Nodes : [cache[m] EXCEPT !.valid = FALSE].answer = cache[m].answer
  BY <1>6
<1>14. cache'[n].answer = Typed(a) \/ cache'[n].answer = cache[n].answer
  BY <1>11, <1>13
<1>15. keep => cache'[n].valid /\ cache'[n].id = r.id
  BY <1>11
<1>16. \A m \in Nodes : m # n => cache'[m].answer = cache[m].answer
  BY <1>12, <1>13
<1>17. \A m \in Kids[n] : cache'[m] = cache[m] \/ after[m].nhint >= NumParents(m)
  BY <1>4, <1>9, <1>12
<1>18. \A m \in Nodes : m # n /\ m \notin Kids[n] => cache'[m] = cache[m]
  BY <1>12
<1> QED
  BY <1>2, <1>3, <1>5, <1>10, <1>14, <1>15, <1>16, <1>17, <1>18 DEF NoHints

(* An execution that ends with a new result.                               *)
LEMMA ResultKeepsDone ==
    ASSUME Steadfast, TypeOK, ExecInv, NEW n \in Nodes, NEW c \in Nodes, NEW a,
           Returning(n, c, a), NEW b, CacheResult(n, request, b), computed[n] = 0,
           NEW m \in Nodes, DoneWith(m)
    PROVE  DoneWith(m)'
<1>1. /\ computed' = [computed EXCEPT ![n] = @ + 1]
      /\ hints'[n].nhint = 0
      /\ Policy[n] # NEVER /\ NumParents(n) > 1 =>
            cache'[n].valid /\ cache'[n].id = request.id
      /\ \A k \in Kids[n] :
            /\ hints'[k].nhint = hints[k].nhint + 1
            /\ cache'[k] = cache[k] \/ hints'[k].nhint >= NumParents(k)
      /\ \A k \in Nodes : k # n /\ k \notin Kids[n] =>
            hints'[k] = hints[k] /\ cache'[k] = cache[k]
  BY CacheResultCounts
<1>2. computed'[n] = 1 /\ \A k \in Nodes : k # n => computed'[k] = computed[k]
  BY <1>1 DEF TypeOK
<1>3. /\ \A p, k \in Nodes : Had(p, k) => Had(p, k)'
      /\ Had(c, n)'
      /\ \A k \in Nodes : ~Executing(k) => ~Executing(k)'
      /\ request' = request
      /\ n \in Kids[c] /\ Executing(c)
      /\ ~Executing(n)'
  <2>1. \A k \in Nodes : computed[k] = 1 => computed'[k] = 1
    BY <1>2
  <2> QED
    BY <1>2, <2>1, HadStands
<1>4. n \notin Kids[n] /\ Kids[n] \subseteq Nodes
  BY ForestAssumption
<1>5. /\ IsFiniteSet(Parents(m)) /\ NumParents(m) \in Nat
      /\ Hinters(m) \subseteq Parents(m) /\ IsFiniteSet(Hinters(m))
      /\ Cardinality(Hinters(m)) \in Nat
  BY ParentsAreFinite
<1> SUFFICES ASSUME computed'[m] = 1
             PROVE  /\ ~Executing(m)'
                    /\ m # request'.root
                    /\ Kept(m)' \/ Over(m)'
                    /\ NumParents(m) > 1 => hints'[m].nhint <= Cardinality(Hinters(m)')
  BY DEF DoneWith
<1>6. CASE m = n
  <2>1. m # request'.root
    BY <1>3, <1>6, RootHasNoCaller
  <2>2. c \in Parents(n)
    BY <1>3 DEF Parents
  <2>3. CASE NumParents(n) > 1
    <3>1. Policy[n] # NEVER
      BY <2>3 DEF Steadfast
    <3>2. Kept(n)'
      BY <1>1, <1>3, <2>3, <3>1 DEF Kept
    <3>3. Hinters(m)' \subseteq Parents(m)
      BY DEF Hinters
    <3>4. Cardinality(Hinters(m)') \in Nat
      BY <1>5, <3>3, FS_Subset, FS_CardinalityType
    <3>5. hints'[m].nhint <= Cardinality(Hinters(m)')
      BY <1>1, <1>6, <3>4
    <3> QED
      BY <1>3, <1>6, <2>1, <3>2, <3>5
  <2>4. CASE ~(NumParents(n) > 1)
    <3>1. Parents(n) = {c}
      <4>1. {c} \subseteq Parents(n) /\ Cardinality({c}) = 1
        BY <2>2, FS_Singleton
      <4>2. Cardinality(Parents(n)) <= 1
        BY <1>5, <1>6, <2>4 DEF NumParents
      <4>3. Cardinality({c}) <= Cardinality(Parents(n))
        BY <1>5, <1>6, <4>1, FS_Subset
      <4> QED
        BY <1>5, <1>6, <4>1, <4>2, <4>3, FS_Subset DEF NumParents
    <3>2. Over(n)'
      BY <1>3, <3>1 DEF Over, Parents
    <3> QED
      BY <1>3, <1>6, <2>1, <2>4, <3>2
  <2> QED
    BY <2>3, <2>4
<1>7. CASE m # n
  <2>1. /\ ~Executing(m)
        /\ m # request.root
        /\ Kept(m) \/ Over(m)
        /\ NumParents(m) > 1 => hints[m].nhint <= Cardinality(Hinters(m))
    BY <1>2, <1>7 DEF DoneWith
  <2>2. Over(m) => Over(m)'
    BY <1>3 DEF Over, Parents
  <2>3. CASE m \notin Kids[n]
    <3>1. Hinters(m)' = Hinters(m)
      BY <1>2, <2>3 DEF Hinters, Parents
    <3>2. hints'[m] = hints[m] /\ cache'[m] = cache[m]
      BY <1>1, <1>7, <2>3
    <3>3. Kept(m) => Kept(m)'
      BY <1>3, <3>2 DEF Kept
    <3> QED
      BY <1>3, <2>1, <2>2, <3>1, <3>2, <3>3
  <2>4. CASE m \in Kids[n]
    <3>1. Hinters(m)' = Hinters(m) \cup {n} /\ n \notin Hinters(m)
      BY <1>2, <2>4 DEF Hinters, Parents
    <3>2. Cardinality(Hinters(m)') = Cardinality(Hinters(m)) + 1
      BY ZenonT(40), <1>5, <3>1, FS_AddElement
    <3>3. hints'[m].nhint = hints[m].nhint + 1 /\ hints[m].nhint \in Nat
      BY <1>1, <2>4 DEF TypeOK
    <3>4. NumParents(m) > 1 => hints'[m].nhint <= Cardinality(Hinters(m)')
      BY <1>5, <2>1, <3>2, <3>3
    <3>5. Kept(m) => Kept(m)' \/ Over(m)'
      <4>1. CASE cache'[m] = cache[m]
        BY <1>3, <4>1 DEF Kept
      <4>2. CASE Kept(m) /\ hints'[m].nhint >= NumParents(m)
        <5>1. Hinters(m)' \subseteq Parents(m)
          BY DEF Hinters
        <5>2. Cardinality(Hinters(m)') >= Cardinality(Parents(m))
          BY <1>5, <3>2, <3>3, <3>4, <4>2 DEF Kept, NumParents
        <5>3. Hinters(m)' = Parents(m)
          <6>1. IsFiniteSet(Hinters(m)') /\ Cardinality(Hinters(m)') \in Nat
            BY <1>5, <5>1, FS_Subset, FS_CardinalityType
          <6>2. Cardinality(Hinters(m)') <= Cardinality(Parents(m))
            BY <1>5, <5>1, FS_Subset
          <6>3. Cardinality(Hinters(m)') = Cardinality(Parents(m))
            BY <1>5, <5>2, <6>1, <6>2 DEF NumParents
          <6> QED
            BY <1>5, <5>1, <6>3, FS_Subset
        <5>4. Over(m)'
          BY <5>3 DEF Over, Had, Hinters, Parents
        <5> QED
          BY <5>4
      <4> QED
        BY <1>1, <2>4, <4>1, <4>2
    <3> QED
      BY <1>3, <2>1, <2>2, <3>4, <3>5
  <2> QED
    BY <2>3, <2>4
<1> QED
  BY <1>6, <1>7

(* The start of an execution that has not come to a result.                *)
LEMMA MissKeepsDone ==
    ASSUME TypeOK, ExecInv, NEW n \in Nodes, NEW c \in Nodes \cup {Client},
           EnterMiss(c, n), computed[n] = 0, NEW m \in Nodes, DoneWith(m)
    PROVE  DoneWith(m)'
<1>1. /\ caller[n] = None /\ computed' = computed /\ request' = request /\ hints' = hints
      /\ cache' = [cache EXCEPT ![n].valid = FALSE]
      /\ caller' = [caller EXCEPT ![n] = c]
      /\ pending' = [pending EXCEPT ![n] = Kids[n]]
  BY DEF EnterMiss, Misses, Calls, Executing, clientVars
<1>2. \A k \in Nodes : k # n => /\ cache'[k] = cache[k]
                                /\ caller'[k] = caller[k]
                                /\ pending'[k] = pending[k]
  BY <1>1 DEF TypeOK
<1>3. ASSUME NEW p \in Nodes, Had(p, m) PROVE Had(p, m)'
  <2>1. CASE p = n
    BY <1>1, <1>3, <2>1 DEF Had, Executing
  <2>2. CASE p # n
    BY <1>1, <1>2, <1>3, <2>2 DEF Had, Executing
  <2> QED
    BY <2>1, <2>2
<1>4. Over(m) => Over(m)'
  BY <1>3 DEF Over, Parents
<1>5. Hinters(m)' = Hinters(m)
  BY <1>1 DEF Hinters
<1>6. m # n => (Kept(m) => Kept(m)')
  BY <1>1, <1>2 DEF Kept
<1>7. m # n => (~Executing(m) => ~Executing(m)')
  BY <1>2 DEF Executing
<1>8. computed[m] = 1 => m # n
  OBVIOUS
<1> QED
  BY <1>1, <1>4, <1>5, <1>6, <1>7, <1>8 DEF DoneWith

(* Answers that are no waits bring none.                                   *)
LEMMA NoWaitReturned ==
    ASSUME TypeOK, NoWaits, NEW n \in Nodes, NEW c \in Nodes \cup {Client}, NEW a,
           Return(n, c, a), c \in Nodes => n \in Kids[c], a.code # "wait",
           \A m \in Nodes : cache'[m].answer.code # "wait"
    PROVE  NoWaits'
<1>1. /\ DOMAIN got = Nodes
      /\ \A m \in Nodes : DOMAIN got[m] = Kids[m]
      /\ \A m \in Nodes : \A k \in Kids[m] : got[m][k].code # "wait"
  BY DEF TypeOK, NoWaits
<1>2. \A m \in Nodes : \A k \in Kids[m] : NoAnswers[m][k].code = "none"
  BY DEF NoAnswers, NoAnswer, Answer
<1>3. DOMAIN NoAnswers[n] = Kids[n]
  BY DEF NoAnswers
<1>4. CASE c = Client
  <2>1. got' = [got EXCEPT ![n] = NoAnswers[n]]
    BY <1>4 DEF Return
  <2> QED
    BY <1>1, <1>2, <2>1 DEF NoWaits
<1>5. CASE c \in Nodes
  <2>1. got' = [got EXCEPT ![n] = NoAnswers[n], ![c][n] = a]
    BY <1>5, ForestAssumption DEF Return
  <2>2. c # n
    BY <1>5, ForestAssumption
  <2>3. /\ got'[n] = NoAnswers[n] /\ got'[c] = [got[c] EXCEPT ![n] = a]
        /\ \A m \in Nodes : m # n /\ m # c => got'[m] = got[m]
    BY <1>1, <1>5, <2>1, <2>2
  <2>4. ASSUME NEW m \in Nodes, NEW k \in Kids[m] PROVE got'[m][k].code # "wait"
    BY <1>1, <1>2, <1>5, <2>3
  <2> QED
    BY <2>4 DEF NoWaits
<1> QED
  BY <1>4, <1>5

(* What is said of the counts, at the end of an execution.                 *)
CountsKept ==
    /\ \A n \in Nodes : computed'[n] <= 1
    /\ NoWaits'
    /\ UNCHANGED <<calls, clearing>>
    /\ request' = request \/ request' = None
    /\ request' # None /\ ~aborting' => \A n \in Nodes : DoneWith(n)'

LEMMA EnterCounts ==
    ASSUME Steadfast, TypeOK, ExecInv, OnceInv, ComputeInv,
           NEW n \in Nodes, NEW c \in Nodes \cup {Client},
           \/ EnterAborted(c, n)
           \/ EnterHit(c, n)
           \/ EnterIgnoringUpdate(c, n)
           \/ EnterRiderFails(c, n)
    PROVE  CountsKept
<1>1. /\ Calls(c, n) /\ caller' = caller
      /\ lastId' = lastId \/ lastId' = [lastId EXCEPT ![n] = request.id]
      /\ UNCHANGED <<calls, clearing>>
  BY DEF EnterAborted, EnterHit, EnterIgnoringUpdate, EnterRiderFails, Misses, nodeVars
<1>2. /\ request # None /\ ~Executing(n)
      /\ c \in Nodes => n \in pending[c] /\ n \in Kids[c]
  BY <1>1, ForestAssumption DEF Calls, ExecInv
<1>3. \A m \in Nodes : computed[m] <= 1 /\ computed[m] \in Nat
  BY DEF ComputeInv, TypeOK
<1>4. ASSUME NEW a, Return(n, c, a)
      PROVE  Returning(n, c, a) /\ (request' = request \/ request' = None)
             /\ (c \notin Nodes => request' = None) /\ (c \in Nodes => aborting' = aborting)
  <2>1. Returning(n, c, a)
    BY <1>1, <1>4, EnterReturns
  <2>2. Client \notin Nodes
    BY ForestAssumption
  <2>3. /\ c = Client => request' = None
        /\ c # Client => request' = request /\ aborting' = aborting
    BY <1>4 DEF Return
  <2> QED
    BY <2>1, <2>2, <2>3
<1>5. \A m \in Nodes : /\ DOMAIN cache[m] = {"valid", "id", "answer"}
                       /\ DOMAIN cache[m].answer = {"code", "deps", "parts", "lost"}
  BY DEF TypeOK, IsAnswer
<1>6. NoWaits
  BY DEF ComputeInv
<1>7. CASE EnterAborted(c, n)
  <2>1. /\ Return(n, c, Answer("abort", {}, {}, FALSE))
        /\ cache' = cache /\ computed' = computed /\ aborting
    BY <1>7 DEF EnterAborted, nodeVars, countVars
  <2>2. NoWaits'
    BY <1>2, <1>6, <2>1, NoWaitReturned DEF Answer, NoWaits
  <2>3. ~(request' # None /\ ~aborting')
    BY <1>4, <2>1
  <2> QED
    BY <1>1, <1>3, <1>4, <2>1, <2>2, <2>3 DEF CountsKept
<1>8. ASSUME NEW a, Return(n, c, a), a.code # "wait", computed' = computed, ~aborting,
             cache' = [cache EXCEPT ![n].answer.deps = CachedDeps(n)],
             \A m \in Nodes : hints'[m].nhint = hints[m].nhint \/ hints'[m].nhint = 0
      PROVE  CountsKept
  <2>1. \A m \in Nodes : /\ cache'[m].valid = cache[m].valid
                         /\ cache'[m].id = cache[m].id
                         /\ cache'[m].answer.code = cache[m].answer.code
    <3>1. DOMAIN cache = Nodes
      BY DEF TypeOK
    <3> QED
      BY <1>5, <1>8, <3>1
  <2>2. NoWaits'
    BY <1>2, <1>6, <1>8, <2>1, NoWaitReturned DEF NoWaits
  <2>3. ASSUME request' # None, NEW m \in Nodes PROVE DoneWith(m)'
    <3>1. c \in Nodes /\ Returning(n, c, a)
      BY <1>4, <1>8, <2>3
    <3>2. DoneWith(m)
      BY <1>2, <1>8 DEF ComputeInv
    <3> QED
      BY <1>2, <1>8, <2>1, <3>1, <3>2, ServedKeepsDone
  <2> QED
    BY <1>1, <1>3, <1>4, <1>8, <2>2, <2>3 DEF CountsKept
<1>9. CASE EnterHit(c, n)
  <2>1. /\ Return(n, c, CachedAnswer(n, request.id)) /\ computed' = computed /\ ~aborting
        /\ cache' = [cache EXCEPT ![n].answer.deps = CachedDeps(n)]
        /\ hints' = hints \/ hints' = [hints EXCEPT ![n] = NoHints]
    BY <1>9 DEF EnterHit, countVars
  <2>2. CachedAnswer(n, request.id).code # "wait"
    BY <1>5, <1>6 DEF CachedAnswer, NoWaits
  <2>3. \A m \in Nodes : hints'[m].nhint = hints[m].nhint \/ hints'[m].nhint = 0
    BY <2>1 DEF TypeOK, NoHints
  <2> QED
    BY <1>8, <2>1, <2>2, <2>3
<1>10. CASE EnterIgnoringUpdate(c, n)
  <2>1. /\ Return(n, c, Answer("ok", {}, {}, cache[n].answer.lost))
        /\ computed' = computed /\ ~aborting
        /\ cache' = [cache EXCEPT ![n].answer.deps = CachedDeps(n)]
        /\ hints' = hints
    BY <1>10 DEF EnterIgnoringUpdate, countVars
  <2>2. Answer("ok", {}, {}, cache[n].answer.lost).code # "wait"
    BY DEF Answer
  <2> QED
    BY <1>8, <2>1, <2>2
<1>11. CASE EnterRiderFails(c, n)
  <2> DEFINE b == Answer("fail", {}, {}, TRUE)
  <2>1. CacheResult(n, request, b) /\ Return(n, c, Typed(b)) /\ Misses(c, n) /\ ~aborting
    BY <1>11 DEF EnterRiderFails, Misses
  <2>2. computed[n] = 0
    BY <2>1, MissIsFirst
  <2>3. /\ computed' = [computed EXCEPT ![n] = @ + 1]
        /\ cache'[n].answer = Typed(b) \/ cache'[n].answer = cache[n].answer
        /\ \A m \in Nodes : m # n => cache'[m].answer = cache[m].answer
    BY ZenonT(40), <2>1, CacheResultCounts
  <2>4. \A m \in Nodes : computed'[m] <= 1
    BY <1>3, <2>2, <2>3 DEF TypeOK
  <2>5. Typed(b).code # "wait"
    BY DEF Typed, Answer
  <2>6. NoWaits'
    BY <1>2, <1>6, <2>1, <2>3, <2>5, NoWaitReturned DEF NoWaits
  <2>7. ASSUME request' # None, NEW m \in Nodes PROVE DoneWith(m)'
    <3>1. c \in Nodes /\ Returning(n, c, Typed(b))
      BY <1>4, <2>1, <2>7
    <3>2. DoneWith(m)
      BY <1>2, <2>1 DEF ComputeInv
    <3> QED
      BY <2>1, <2>2, <3>1, <3>2, ResultKeepsDone
  <2> QED
    BY <1>1, <1>4, <2>1, <2>4, <2>6, <2>7 DEF CountsKept
<1> QED
  BY <1>7, <1>9, <1>10, <1>11

LEMMA FinishCounts ==
    ASSUME Steadfast, TypeOK, ExecInv, ComputeInv, NEW n \in Nodes, Finish(n)
    PROVE  CountsKept
<1>1. PICK code \in Codes : FinishUncached(n, code) \/ FinishAsChild(n)
                              \/ (code \in OwnCodes /\ FinishComputed(n, code))
  BY DEF Finish, Codes, OwnCodes
<1>2. /\ Polled(n) /\ Leave(n) /\ lastId' = lastId
      /\ UNCHANGED <<calls, clearing>>
  BY <1>1, Zenon DEF FinishUncached, FinishAsChild, FinishComputed, nodeVars
<1>3. Executing(n) /\ request # None
  BY <1>2 DEF Polled, ExecInv
<1> DEFINE c == caller[n]
<1>4. c \in Nodes \cup {Client} /\ (c \in Nodes => n \in Kids[c])
  BY <1>3 DEF Executing, TypeOK, ExecInv
<1>5. ASSUME NEW a, Return(n, c, a)
      PROVE  Returning(n, c, a) /\ (request' = request \/ request' = None)
             /\ (c \notin Nodes => request' = None) /\ (c \in Nodes => aborting' = aborting)
  <2>1. Returning(n, c, a)
    BY <1>2, <1>5, FinishReturns
  <2>2. Client \notin Nodes
    BY ForestAssumption
  <2>3. /\ c = Client => request' = None
        /\ c # Client => request' = request /\ aborting' = aborting
    BY <1>5 DEF Return
  <2> QED
    BY <1>4, <2>1, <2>2, <2>3
<1> HIDE DEF c
<1>6. \A m \in Nodes : computed[m] <= 1 /\ computed[m] \in Nat
  BY DEF ComputeInv, TypeOK
<1>7. NoWaits
  BY DEF ComputeInv
<1>8. "wait" \notin KidCodes(n)
  BY <1>7 DEF KidCodes, KidAnswers, NoWaits
<1>9. CASE FinishUncached(n, code)
  <2>1. /\ Return(n, c, Answer("abort", {}, {}, FALSE))
        /\ cache' = cache /\ computed' = computed /\ aborting
    BY <1>8, <1>9 DEF FinishUncached, nodeVars, countVars, c
  <2>2. NoWaits'
    BY <1>4, <1>7, <2>1, NoWaitReturned DEF Answer, NoWaits
  <2>3. ~(request' # None /\ ~aborting')
    BY <1>5, <2>1
  <2> QED
    BY <1>2, <1>5, <1>6, <2>1, <2>2, <2>3 DEF CountsKept
<1>10. ASSUME NEW b, CacheResult(n, request, b), Return(n, c, Typed(b)), ~aborting,
              Typed(b).code # "wait"
       PROVE  CountsKept
  <2>1. \A m \in Nodes : DoneWith(m)
    BY <1>3, <1>10 DEF ComputeInv
  <2>2. computed[n] = 0
    BY <1>3, <1>6, <2>1 DEF DoneWith
  <2>3. /\ computed' = [computed EXCEPT ![n] = @ + 1]
        /\ cache'[n].answer = Typed(b) \/ cache'[n].answer = cache[n].answer
        /\ \A m \in Nodes : m # n => cache'[m].answer = cache[m].answer
    BY <1>10, CacheResultCounts
  <2>4. \A m \in Nodes : computed'[m] <= 1
    BY <1>6, <2>2, <2>3 DEF TypeOK
  <2>5. NoWaits'
    BY <1>4, <1>7, <1>10, <2>3, NoWaitReturned DEF NoWaits
  <2>6. ASSUME request' # None, NEW m \in Nodes PROVE DoneWith(m)'
    <3>1. c \in Nodes /\ Returning(n, c, Typed(b))
      BY <1>5, <1>10, <2>6
    <3> QED
      BY <1>10, <2>1, <2>2, <3>1, ResultKeepsDone
  <2> QED
    BY <1>2, <1>5, <1>10, <2>4, <2>5, <2>6 DEF CountsKept
<1>11. \A x : \A ds, ps, ls : Typed(Answer(x, ds, ps, ls)).code = x
  BY DEF Typed, Answer
<1>12. CASE FinishAsChild(n)
  <2> DEFINE x == IF "fail" \in KidCodes(n) THEN "fail" ELSE "missing"
             b == Answer(x, KidDeps(n), KidParts(n), Lost(n))
  <2>1. CacheResult(n, request, b) /\ Return(n, c, Typed(b)) /\ ~aborting
    BY <1>12 DEF FinishAsChild, c
  <2>2. Typed(b).code = x /\ x # "wait"
    BY <1>11
  <2> HIDE DEF b
  <2> QED
    BY <1>10, <2>1, <2>2
<1>13. CASE code \in OwnCodes /\ FinishComputed(n, code)
  <2> DEFINE parts == IF Field(request.id, TypeField) = PU THEN {}
                      ELSE KidParts(n) \cup {Part(n, version[n], request.id)}
             b == Answer(code, KidDeps(n) \cup OwnDeps(n), parts, Lost(n))
  <2>1. code \in (IF Field(request.id, TypeField) = PU THEN {"ok"} ELSE Outcomes[n][calls])
    BY <1>13 DEF FinishComputed
  <2>2. code # "wait"
    BY <1>3, <2>1 DEF Steadfast, ComputeInv
  <2>3. CacheResult(n, request, b) /\ Return(n, c, Typed(b)) /\ ~aborting
    BY <1>13, <2>2 DEF FinishComputed, c
  <2> HIDE DEF parts
  <2>4. Typed(b).code = code
    BY <1>11
  <2> HIDE DEF b
  <2> QED
    BY <1>10, <2>2, <2>3, <2>4
<1> QED
  BY <1>1, <1>9, <1>12, <1>13

LEMMA ComputeStep ==
    ASSUME Steadfast, TypeOK, ExecInv, OnceInv, ComputeInv, [Next]_vars
    PROVE  ComputeInv'
<1>1. \A m \in Nodes : computed[m] <= 1 /\ computed[m] \in Nat
  BY DEF ComputeInv, TypeOK
<1>2. CountsKept => ComputeInv'
  BY DEF CountsKept, ComputeInv
<1>3. ASSUME NEW n \in Nodes, NEW c \in Nodes \cup {Client}, EnterMiss(c, n) PROVE CountsKept
  <2>1. Misses(c, n)
    BY <1>3 DEF EnterMiss
  <2>2. computed[n] = 0
    BY <2>1, MissIsFirst
  <2>3. /\ request # None /\ ~aborting
        /\ UNCHANGED <<calls, clearing, computed, request, got, aborting>>
        /\ cache' = [cache EXCEPT ![n].valid = FALSE]
    BY <1>3, <2>1 DEF EnterMiss, Misses, Calls, clientVars
  <2>4. \A m \in Nodes : cache'[m].answer = cache[m].answer
    BY <2>3 DEF TypeOK
  <2>5. \A m \in Nodes : DoneWith(m)'
    BY <1>3, <2>2, <2>3, MissKeepsDone DEF ComputeInv
  <2> QED
    BY <1>1, <2>3, <2>4, <2>5 DEF CountsKept, ComputeInv, NoWaits
<1>4. ASSUME NEW n \in Nodes, Execute(n) \/ Finish(n) PROVE ComputeInv'
  BY <1>2, <1>3, <1>4, EnterCounts, FinishCounts DEF Execute
<1>5. ASSUME UNCHANGED <<cache, caller, pending, got, request, calls, hints>>,
             clearing' = clearing \/ \A m \in clearing' : Kids[m] = {},
             computed' = computed, aborting' = aborting \/ aborting'
      PROVE  ComputeInv'
  <2>1. \A m \in Nodes : DoneWith(m) => DoneWith(m)'
    BY <1>5 DEF DoneWith, Kept, Over, Had, Hinters, Executing
  <2> QED
    BY <1>5, <2>1 DEF ComputeInv, NoWaits
<1>6. ASSUME NEW n \in Nodes, Command(n) PROVE ComputeInv'
  <2>1. CASE SetState(n)
    BY <1>5, <2>1 DEF SetState, pollVars, countVars
  <2>2. ASSUME n \in Clearable, NEW recursive \in BOOLEAN, ClearCommand(n, recursive)
        PROVE  ComputeInv'
    <3>1. Kids[n] = {}
      BY <2>2 DEF Steadfast
    <3>2. Below[n] = {n}
      BY <3>1, ForestAssumption
    <3>3. \A m \in clearing' : Kids[m] = {}
      BY <2>2, <3>1, <3>2 DEF ClearCommand
    <3> QED
      BY <1>5, <2>2, <3>3 DEF ClearCommand, nodeVars, pollVars, clientVars, countVars
  <2>3. CASE ClearCache(n)
    <3>1. /\ n \in clearing /\ clearing' = clearing \ {n}
          /\ cache' = [cache EXCEPT ![n].valid = FALSE]
          /\ computed' = [computed EXCEPT ![n] = 0]
          /\ UNCHANGED <<caller, pending, got, request, calls, hints, aborting>>
      BY <2>3 DEF ClearCache, pollVars, clientVars
    <3>2. Kids[n] = {}
      BY <3>1 DEF ComputeInv
    <3>3. computed'[n] = 0 /\ \A m \in Nodes : m # n => computed'[m] = computed[m]
      BY <3>1 DEF TypeOK
    <3>4. /\ \A m \in Nodes : cache'[m].answer = cache[m].answer
          /\ \A m \in Nodes : m # n => cache'[m] = cache[m]
      BY <3>1 DEF TypeOK
    <3>5. ASSUME NEW m \in Nodes, DoneWith(m) PROVE DoneWith(m)'
      <4>1. \A p \in Parents(m) : p # n /\ computed'[p] = computed[p]
        BY <3>2, <3>3 DEF Parents
      <4>2. Over(m) => Over(m)'
        BY <3>1, <4>1 DEF Over, Had, Executing, Parents
      <4>3. Hinters(m)' = Hinters(m)
        BY <4>1 DEF Hinters, Parents
      <4>4. m # n => (Kept(m) => Kept(m)')
        BY <3>1, <3>4 DEF Kept
      <4>5. ~Executing(m) => ~Executing(m)'
        BY <3>1 DEF Executing
      <4> QED
        BY <3>1, <3>3, <3>5, <4>2, <4>3, <4>4, <4>5 DEF DoneWith
    <3>6. \A m \in Nodes : computed'[m] <= 1
      BY <1>1, <3>3
    <3>7. NoWaits'
      BY <3>1, <3>4 DEF ComputeInv, NoWaits
    <3> QED
      BY <3>1, <3>5, <3>6, <3>7 DEF ComputeInv
  <2> QED
    BY <1>6, <2>1, <2>2, <2>3 DEF Command
<1>7. ASSUME RaiseAbortFlag \/ UNCHANGED vars PROVE ComputeInv'
  BY <1>5, <1>7 DEF RaiseAbortFlag, vars, nodeVars, pollVars, clientVars, countVars
<1>8. ASSUME NEW root \in Roots, NEW type \in {EV, E1, PU}, NEW dom \in Domains,
             NEW update \in BOOLEAN, Issue(root, type, dom, update)
      PROVE  ComputeInv'
  <2>1. /\ computed' = [m \in Nodes |-> 0] /\ calls < MaxCalls /\ calls' = calls + 1
        /\ UNCHANGED <<cache, got, clearing>>
    BY <1>8 DEF Issue, nodeVars, pollVars
  <2>2. calls' \in 1..MaxCalls
    BY <2>1, BoundsAssumption DEF TypeOK
  <2> QED
    BY <2>1, <2>2 DEF ComputeInv, NoWaits, DoneWith
<1> QED
  BY <1>4, <1>6, <1>7, <1>8 DEF Next

(* A node whose result several parents use comes to it once in a request,  *)
(* and never loses it to the hints of some before the others have asked    *)
(* (cacheResult, holdCache): whatever its policy, with failures, aborts    *)
(* and updates at any moment.                                              *)
THEOREM SharedNodesComputeOnce == ASSUME Steadfast PROVE Spec => []SharedNodeComputesOnce
<1>1. Init => TypeOK /\ ExecInv /\ OnceInv /\ ComputeInv
  <2>1. Init => TypeOK /\ ExecInv /\ OnceInv
    BY InvInit DEF IInv, Init, OnceInv
  <2>2. Init => ComputeInv
    BY DEF Init, ComputeInv, NoWaits, NoAnswers, NoAnswer, Answer
  <2> QED
    BY <2>1, <2>2
<1>2. TypeOK /\ ExecInv /\ OnceInv /\ ComputeInv /\ [Next]_vars
        => TypeOK' /\ ExecInv' /\ OnceInv' /\ ComputeInv'
  BY TypeStep, ExecStep, OnceStep, ComputeStep
<1>3. ComputeInv => SharedNodeComputesOnce
  BY DEF ComputeInv, SharedNodeComputesOnce
<1> QED
  BY <1>1, <1>2, <1>3, PTL DEF Spec

-----------------------------------------------------------------------------
(* That an update reaches every parameter: no cache on the way keeps its   *)
(* rider back.                                                             *)

(* A client with one root: an update without evaluation goes to the root   *)
(* of the request for derivatives that it follows, as a solver's does.     *)
OneRoot == \A r, s \in Roots : r = s

Type(id) == Field(id, TypeField)
Iter(id) == Field(id, IterField)

(* Parent p has the answer of its child k in this request. *)
Has(p, k) == Executing(p) /\ k \in Kids[p] /\ k \notin pending[p]

(* What is asked of node k next time, if answer a is kept for it: an       *)
(* answer that does not depend on the iteration has no parameter under it, *)
(* or a failed rider behind it.                                            *)
Heeds(k, a) == a.lost \/ IterField \in a.deps \/ Below[k] \cap Solvable = {}

CachesHeed ==
    \A n \in Nodes : cache[n].valid =>
        /\ ~Executing(n)
        /\ TypeField \in cache[n].answer.deps
        /\ cache[n].answer.code \notin {"abort", "wait"}
        /\ Iter(cache[n].id) <= iteration
        /\ Type(cache[n].id) # PU => Heeds(n, cache[n].answer)

AnswersHeed ==
    \A p \in Nodes : \A k \in Kids[p] : Has(p, k) =>
        /\ got[p][k].code = "abort" => aborting
        /\ Type(request.id) # PU /\ got[p][k].code \notin {"abort", "wait"}
             => Heeds(k, got[p][k])

Asked ==
    request # None =>
        /\ request.root \in Roots
        /\ request.update => Type(request.id) \in {E1, PU}
        /\ solving <=> Type(request.id) = E1
        /\ Iter(request.id) = iteration

Heeding == CachesHeed /\ AnswersHeed /\ Asked

-----------------------------------------------------------------------------
(* The ways in which an execution ends.                                    *)

CacheKept(m) == cache'[m].valid => cache'[m] = cache[m]

EndsAborted(n, a) == a.code = "abort" /\ aborting /\ cache' = cache /\ lastId' = lastId

EndsWaiting(n, a) ==
    a.code = "wait" /\ ~aborting /\ Polled(n) /\ cache' = cache /\ lastId' = lastId

(* From the cache, whether the request is answered or ignored. *)
EndsServed(n, a) ==
    /\ ~Executing(n) /\ ~aborting /\ cache[n].valid
    /\ \A m \in Nodes \ {n} : cache'[m] = cache[m]
    /\ cache'[n].valid /\ cache'[n].id = cache[n].id
    /\ cache'[n].answer = [cache[n].answer EXCEPT !.deps = CachedDeps(n)]
    /\ lastId' = lastId
    /\ a.lost = cache[n].answer.lost
    /\ \/ Hit(n, request.id) /\ a.code = cache[n].answer.code /\ a.deps = CachedDeps(n)
       \/ UpdateIgnored(n, request.id) /\ a.code = "ok"

EndsWithoutRider(n, a) ==
    /\ ~Executing(n) /\ n \in Solvable
    /\ a.code = "fail" /\ a.lost /\ TypeField \in a.deps
    /\ cache'[n].valid => cache'[n] = [valid |-> TRUE, id |-> request.id, answer |-> a]
    /\ \A m \in Nodes \ {n} : CacheKept(m)

EndsComputed(n, a) ==
    /\ Polled(n) /\ ~aborting
    /\ KidCodes(n) \cap {"abort", "wait"} = {}
    /\ a.code \in {"ok", "fail", "missing"}
    /\ a.lost = Lost(n)
    /\ KidDeps(n) \cup {TypeField} \subseteq a.deps
    /\ Type(request.id) # PU /\ n \in Solvable => IterField \in a.deps
    /\ cache'[n].valid => cache'[n] = [valid |-> TRUE, id |-> request.id, answer |-> a]
    /\ \A m \in Nodes \ {n} : CacheKept(m)
    /\ lastId' = lastId

Ends(n, c, a) ==
    /\ Returning(n, c, a)
    /\ request' = request \/ request' = None
    /\ applied' = applied /\ iteration' = iteration /\ solving' = solving
    /\ \/ EndsAborted(n, a)
       \/ EndsWaiting(n, a)
       \/ EndsServed(n, a)
       \/ EndsWithoutRider(n, a)
       \/ EndsComputed(n, a)

(* Every execution that does not go on to poll ends in one of these ways. *)
LEMMA EnterEnds ==
    ASSUME TypeOK, ExecInv, AnswersHeed, NEW n \in Nodes, NEW c \in Nodes \cup {Client},
           \/ EnterAborted(c, n)
           \/ EnterHit(c, n)
           \/ EnterIgnoringUpdate(c, n)
           \/ EnterRiderFails(c, n)
    PROVE  \E a : Ends(n, c, a)
<1>1. /\ Calls(c, n) /\ ~Executing(n) /\ caller' = caller
      /\ lastId' = lastId \/ lastId' = [lastId EXCEPT ![n] = request.id]
      /\ applied' = applied /\ iteration' = iteration /\ solving' = solving
  BY DEF EnterAborted, EnterHit, EnterIgnoringUpdate, EnterRiderFails, Misses, nodeVars, countVars, Calls
<1>2. ASSUME NEW a, Return(n, c, a)
      PROVE  Returning(n, c, a) /\ (request' = request \/ request' = None)
  <2>1. Returning(n, c, a)
    BY <1>1, <1>2, EnterReturns
  <2> QED
    BY <1>2, <2>1 DEF Return
<1>3. CASE EnterAborted(c, n)
  <2> DEFINE a == Answer("abort", {}, {}, FALSE)
  <2>1. Return(n, c, a) /\ aborting /\ cache' = cache /\ lastId' = lastId
    BY <1>3 DEF EnterAborted, nodeVars
  <2>2. a.code = "abort"
    BY DEF Answer
  <2>3. EndsAborted(n, a)
    BY <2>1, <2>2 DEF EndsAborted
  <2> HIDE DEF a
  <2> QED
    BY <1>1, <1>2, <2>1, <2>3 DEF Ends
<1>4. CASE EnterHit(c, n)
  <2> DEFINE a == CachedAnswer(n, request.id)
  <2>1. /\ Return(n, c, a) /\ ~aborting /\ lastId' = lastId
        /\ Hit(n, request.id) /\ cache[n].valid
        /\ cache' = [cache EXCEPT ![n].answer.deps = CachedDeps(n)]
    BY <1>4 DEF EnterHit, Hit, Comparable
  <2>2. /\ DOMAIN cache = Nodes /\ IsAnswer(cache[n].answer)
        /\ DOMAIN cache[n] = {"valid", "id", "answer"}
    BY DEF TypeOK
  <2>3. a.code = cache[n].answer.code /\ a.deps = CachedDeps(n) /\ a.lost = cache[n].answer.lost
    BY <2>2 DEF CachedAnswer, IsAnswer
  <2>4. /\ \A m \in Nodes \ {n} : cache'[m] = cache[m]
        /\ cache'[n] = [cache[n] EXCEPT !.answer.deps = CachedDeps(n)]
    BY <2>1, <2>2
  <2>5. /\ cache'[n].valid /\ cache'[n].id = cache[n].id
        /\ cache'[n].answer = [cache[n].answer EXCEPT !.deps = CachedDeps(n)]
    BY <2>1, <2>2, <2>4
  <2> HIDE DEF a
  <2>6. EndsServed(n, a)
    BY <1>1, <2>1, <2>3, <2>4, <2>5 DEF EndsServed
  <2> QED
    BY <1>1, <1>2, <2>1, <2>6 DEF Ends
<1>5. CASE EnterIgnoringUpdate(c, n)
  <2> DEFINE a == Answer("ok", {}, {}, cache[n].answer.lost)
  <2>1. /\ Return(n, c, a) /\ ~aborting /\ lastId' = lastId
        /\ UpdateIgnored(n, request.id) /\ cache[n].valid
        /\ cache' = [cache EXCEPT ![n].answer.deps = CachedDeps(n)]
    BY <1>5 DEF EnterIgnoringUpdate, UpdateIgnored, Comparable
  <2>2. /\ DOMAIN cache = Nodes /\ IsAnswer(cache[n].answer)
        /\ DOMAIN cache[n] = {"valid", "id", "answer"}
    BY DEF TypeOK
  <2>3. a.code = "ok" /\ a.lost = cache[n].answer.lost
    BY DEF Answer
  <2>4. /\ \A m \in Nodes \ {n} : cache'[m] = cache[m]
        /\ cache'[n] = [cache[n] EXCEPT !.answer.deps = CachedDeps(n)]
    BY <2>1, <2>2
  <2>5. /\ cache'[n].valid /\ cache'[n].id = cache[n].id
        /\ cache'[n].answer = [cache[n].answer EXCEPT !.deps = CachedDeps(n)]
    BY <2>1, <2>2, <2>4
  <2> HIDE DEF a
  <2>6. EndsServed(n, a)
    BY <1>1, <2>1, <2>3, <2>4, <2>5 DEF EndsServed
  <2> QED
    BY <1>1, <1>2, <2>1, <2>6 DEF Ends
<1>6. CASE EnterRiderFails(c, n)
  <2> DEFINE b == Answer("fail", {}, {}, TRUE)
  <2>1. Return(n, c, Typed(b)) /\ CacheResult(n, request, b) /\ n \in Solvable
    BY <1>6 DEF EnterRiderFails, CarriesUpdate
  <2>2. Typed(b).code = "fail" /\ Typed(b).lost /\ TypeField \in Typed(b).deps
    BY DEF Typed, Answer
  <2> HIDE DEF b
  <2>3. EndsWithoutRider(n, Typed(b))
    BY <1>1, <2>1, <2>2, CacheResultEffect DEF EndsWithoutRider, CacheKept
  <2> QED
    BY <1>1, <1>2, <2>1, <2>3 DEF Ends
<1> QED
  BY <1>3, <1>4, <1>5, <1>6

LEMMA FinishEnds ==
    ASSUME TypeOK, ExecInv, AnswersHeed, NEW n \in Nodes, Finish(n)
    PROVE  \E c \in Nodes \cup {Client} : \E a : Ends(n, c, a)
<1>1. PICK code \in Codes :
        FinishUncached(n, code) \/ FinishAsChild(n) \/ (code \in OwnCodes /\ FinishComputed(n, code))
  BY DEF Finish, Codes, OwnCodes
<1>2. /\ Polled(n) /\ Leave(n) /\ lastId' = lastId
      /\ applied' = applied /\ iteration' = iteration /\ solving' = solving
  BY <1>1, Zenon DEF FinishUncached, FinishAsChild, FinishComputed, nodeVars, countVars
<1>3. ASSUME NEW a, Return(n, caller[n], a)
      PROVE  /\ Returning(n, caller[n], a) /\ caller[n] \in Nodes \cup {Client}
             /\ request' = request \/ request' = None
  <2>1. Returning(n, caller[n], a) /\ caller[n] \in Nodes \cup {Client}
    BY <1>2, <1>3, FinishReturns
  <2> QED
    BY <1>3, <2>1 DEF Return
<1>4. \A k \in Kids[n] : Has(n, k)
  BY <1>2 DEF Polled, Has
<1>5. ~aborting => "abort" \notin KidCodes(n)
  BY <1>4 DEF AnswersHeed, KidCodes, KidAnswers
<1>6. CASE FinishUncached(n, code)
  <2> DEFINE a == Answer(code, {}, {}, FALSE)
  <2>1. /\ Return(n, caller[n], a) /\ cache' = cache
        /\ (aborting /\ code = "abort") \/ (~aborting /\ code = "wait")
    BY <1>6 DEF FinishUncached, nodeVars
  <2>2. a.code = code
    BY DEF Answer
  <2> HIDE DEF a
  <2>3. EndsAborted(n, a) \/ EndsWaiting(n, a)
    BY <1>2, <2>1, <2>2 DEF EndsAborted, EndsWaiting
  <2> QED
    BY <1>2, <1>3, <2>1, <2>3 DEF Ends
<1>7. ASSUME NEW b, CacheResult(n, request, b), Return(n, caller[n], Typed(b)),
             ~aborting, "wait" \notin KidCodes(n),
             Typed(b).code \in {"ok", "fail", "missing"}, Typed(b).lost = Lost(n),
             KidDeps(n) \cup {TypeField} \subseteq Typed(b).deps,
             Type(request.id) # PU /\ n \in Solvable => IterField \in Typed(b).deps
      PROVE  \E c \in Nodes \cup {Client} : \E a : Ends(n, c, a)
  <2>1. EndsComputed(n, Typed(b))
    BY <1>2, <1>5, <1>7, CacheResultEffect DEF EndsComputed, CacheKept
  <2> QED
    BY <1>2, <1>3, <1>7, <2>1 DEF Ends
<1>8. CASE FinishAsChild(n)
  <2> DEFINE b == Answer(IF "fail" \in KidCodes(n) THEN "fail" ELSE "missing",
                         KidDeps(n), KidParts(n), Lost(n))
  <2>1. /\ CacheResult(n, request, b) /\ Return(n, caller[n], Typed(b))
        /\ ~aborting /\ "wait" \notin KidCodes(n)
        /\ KidCodes(n) \cap {"fail", "missing"} # {}
    BY <1>8 DEF FinishAsChild
  <2>2. Typed(b).code \in {"fail", "missing"} /\ Typed(b).lost = Lost(n)
    BY TypedAnswer
  <2>3. Typed(b).deps = KidDeps(n) \cup {TypeField}
    BY TypedAnswer
  <2>4. n \notin Solvable
    BY <2>1, SolvableAssumption DEF KidCodes, KidAnswers
  <2> HIDE DEF b
  <2> QED
    BY <1>7, <2>1, <2>2, <2>3, <2>4
<1>9. CASE code \in OwnCodes /\ FinishComputed(n, code)
  <2>1. CASE code = "wait"
    <3> DEFINE a == Answer("wait", {}, {}, FALSE)
    <3>1. Return(n, caller[n], a) /\ ~aborting /\ cache' = cache
      BY <1>9, <2>1 DEF FinishComputed
    <3>2. a.code = "wait"
      BY DEF Answer
    <3> HIDE DEF a
    <3>3. EndsWaiting(n, a)
      BY <1>2, <3>1, <3>2 DEF EndsWaiting
    <3> QED
      BY <1>2, <1>3, <3>1, <3>3 DEF Ends
  <2>2. CASE code # "wait"
    <3> DEFINE parts == IF Field(request.id, TypeField) = PU THEN {}
                        ELSE KidParts(n) \cup {Part(n, version[n], request.id)}
               b == Answer(code, KidDeps(n) \cup OwnDeps(n), parts, Lost(n))
    <3>1. /\ CacheResult(n, request, b) /\ Return(n, caller[n], Typed(b))
          /\ ~aborting /\ KidCodes(n) \subseteq {"ok"}
      BY <1>9, <2>2 DEF FinishComputed
    <3>2. Typed(b).code = code /\ Typed(b).lost = Lost(n)
      BY TypedAnswer
    <3>3. Typed(b).deps = KidDeps(n) \cup OwnDeps(n) \cup {TypeField}
      BY TypedAnswer
    <3>4. Type(request.id) # PU /\ n \in Solvable => IterField \in OwnDeps(n)
      BY SolvableAssumption DEF OwnDeps, Type
    <3>5. code \in {"ok", "fail", "missing"}
      BY <1>9, <2>2 DEF OwnCodes
    <3> HIDE DEF b
    <3> QED
      BY <1>7, <3>1, <3>2, <3>3, <3>4, <3>5
  <2> QED
    BY <2>1, <2>2
<1> QED
  BY <1>1, <1>6, <1>8, <1>9

(* What parents have of their children after the end of an execution. *)
LEMMA HasAfterReturn ==
    ASSUME TypeOK, ExecInv, NEW n \in Nodes, NEW c \in Nodes \cup {Client}, NEW a,
           Returning(n, c, a)
    PROVE  \/ /\ n = request.root /\ request' = None /\ answer' = a
              /\ \A p \in Nodes : ~Executing(p)' /\ \A k \in Nodes : ~Has(p, k)'
              /\ \A p \in Nodes : Executing(p) => p = n
           \/ /\ c \in Nodes /\ n \in pending[c] /\ Executing(c) /\ ~Has(c, n)
              /\ request' = request /\ aborting' = aborting
              /\ Has(c, n)' /\ got'[c][n] = a /\ c # n /\ n \in Kids[c]
              /\ \A p \in Nodes : Executing(p)' => Executing(p) /\ p # n
              /\ \A p \in Nodes : \A k \in Nodes :
                   /\ Has(p, k)' /\ ~(p = c /\ k = n) =>
                        p # n /\ Has(p, k) /\ got'[p][k] = got[p][k]
                   /\ Has(p, k) /\ p # n => Has(p, k)' /\ got'[p][k] = got[p][k]
<1>1. CASE /\ c = Client /\ n = request.root
           /\ request' = None /\ answer' = a
           /\ \A m \in Nodes : caller'[m] = None /\ pending'[m] = {}
  <2>1. \A p \in Nodes : ~Executing(p)'
    BY <1>1 DEF Executing
  <2>2. \A p \in Nodes : Executing(p) => p = n
    BY <1>1, NobodyElse DEF Returning, TypeOK
  <2> QED
    BY <1>1, <2>1, <2>2 DEF Has
<1>2. CASE /\ c \in Nodes /\ c # n /\ n \in Kids[c] /\ caller[c] # None
           /\ request' = request /\ aborting' = aborting
           /\ caller'[n] = None /\ pending'[n] = {}
           /\ caller'[c] = caller[c] /\ pending'[c] = pending[c] \ {n}
           /\ got'[c] = [got[c] EXCEPT ![n] = a]
           /\ \A m \in Nodes \ {n, c} : /\ caller'[m] = caller[m]
                                        /\ pending'[m] = pending[m]
                                        /\ got'[m] = got[m]
  <2>1. n \in pending[c] /\ Executing(c)
    BY <1>2 DEF Returning, Executing
  <2>2. \A p \in Nodes : DOMAIN got[p] = Kids[p]
    BY DEF TypeOK
  <2>3. got'[c][n] = a /\ \A k \in Kids[c] \ {n} : got'[c][k] = got[c][k]
    BY <1>2, <2>2
  <2>4. ASSUME NEW p \in Nodes, NEW k \in Nodes
        PROVE  /\ Has(p, k)' /\ ~(p = c /\ k = n) =>
                    p # n /\ Has(p, k) /\ got'[p][k] = got[p][k]
               /\ Has(p, k) /\ p # n => Has(p, k)' /\ got'[p][k] = got[p][k]
    <3>1. CASE p = n
      BY <1>2, <3>1 DEF Has, Executing
    <3>2. CASE p = c
      BY <1>2, <2>1, <2>3, <3>2 DEF Has, Executing
    <3>3. CASE p # n /\ p # c
      BY <1>2, <3>3 DEF Has, Executing
    <3> QED
      BY <3>1, <3>2, <3>3
  <2>5. Has(c, n)' /\ ~Has(c, n)
    BY <1>2, <2>1 DEF Has, Executing
  <2>6. \A p \in Nodes : Executing(p)' => Executing(p) /\ p # n
    BY <1>2 DEF Executing
  <2> QED
    BY <1>2, <2>1, <2>3, <2>4, <2>5, <2>6
<1> QED
  BY <1>1, <1>2, ReturnEffect

(* What a node leaves behind that starts to poll. *)
LEMMA AfterMiss ==
    ASSUME TypeOK, ExecInv, NEW n \in Nodes, NEW c \in Nodes \cup {Client}, EnterMiss(c, n)
    PROVE  /\ request # None /\ request' = request /\ ~Executing(n) /\ Executing(n)'
           /\ aborting' = aborting /\ iteration' = iteration /\ solving' = solving
           /\ c \in Nodes => Executing(c) /\ n \in pending[c]
           /\ c = Client => n = request.root
           /\ ~cache'[n].valid /\ \A m \in Nodes \ {n} : cache'[m] = cache[m]
           /\ lastId'[n] = request.id /\ \A m \in Nodes \ {n} : lastId'[m] = lastId[m]
           /\ \A m \in Nodes \ {n} : Executing(m)' <=> Executing(m)
           /\ got' = got
           /\ \A p, k \in Nodes : Has(p, k)' <=> Has(p, k)
<1>1. /\ request # None /\ request' = request /\ caller[n] = None
      /\ aborting' = aborting /\ iteration' = iteration /\ solving' = solving /\ got' = got
      /\ c \in Nodes => n \in pending[c]
      /\ c = Client => n = request.root
      /\ cache' = [cache EXCEPT ![n].valid = FALSE]
      /\ lastId' = [lastId EXCEPT ![n] = request.id]
      /\ caller' = [caller EXCEPT ![n] = c]
      /\ pending' = [pending EXCEPT ![n] = Kids[n]]
  BY ForestAssumption DEF EnterMiss, Misses, Calls, Executing, clientVars
<1>2. /\ caller \in [Nodes -> Nodes \cup {Client, None}]
      /\ pending \in [Nodes -> SUBSET Nodes]
      /\ DOMAIN lastId = Nodes /\ DOMAIN cache = Nodes
      /\ DOMAIN cache[n] = {"valid", "id", "answer"}
  BY DEF TypeOK
<1>3. c # None /\ (c \in Nodes => Executing(c))
  BY <1>1, ForestAssumption DEF ExecInv
<1>4. /\ caller'[n] = c /\ \A m \in Nodes \ {n} : caller'[m] = caller[m]
      /\ pending'[n] = Kids[n] /\ \A m \in Nodes \ {n} : pending'[m] = pending[m]
      /\ lastId'[n] = request.id /\ \A m \in Nodes \ {n} : lastId'[m] = lastId[m]
      /\ ~cache'[n].valid /\ \A m \in Nodes \ {n} : cache'[m] = cache[m]
  BY <1>1, <1>2
<1>5. \A p, k \in Nodes : Has(p, k)' <=> Has(p, k)
  BY <1>1, <1>3, <1>4 DEF Has, Executing
<1> QED
  BY <1>1, <1>3, <1>4, <1>5 DEF Executing

-----------------------------------------------------------------------------
(* The answers and the caches heed what is under them.                     *)

(* An answer heeds what is under its node, however the execution ended:    *)
(* served from a cache that does, or put together from answers that do.    *)
LEMMA AnswerHeeds ==
    ASSUME TypeOK, Heeding, request # None, NEW n \in Nodes, NEW a,
           \/ EndsAborted(n, a)
           \/ EndsWaiting(n, a)
           \/ EndsServed(n, a)
           \/ EndsWithoutRider(n, a)
           \/ EndsComputed(n, a)
    PROVE  /\ a.code = "abort" => aborting
           /\ Type(request.id) # PU /\ a.code \notin {"abort", "wait"} => Heeds(n, a)
<1>1. CASE EndsAborted(n, a) \/ EndsWaiting(n, a) \/ EndsWithoutRider(n, a)
  BY <1>1 DEF EndsAborted, EndsWaiting, EndsWithoutRider, Heeds
<1>2. CASE EndsServed(n, a)
  <2>1. a.code # "abort"
    BY <1>2 DEF EndsServed, Heeding, CachesHeed
  <2>2. ASSUME Type(request.id) # PU PROVE Heeds(n, a)
    <3>1. /\ Hit(n, request.id) /\ a.deps = CachedDeps(n) /\ a.lost = cache[n].answer.lost
          /\ cache[n].valid
      BY <1>2, <2>2 DEF EndsServed, UpdateIgnored, Type
    <3>2. /\ TypeField \in cache[n].answer.deps
          /\ Type(cache[n].id) # PU => Heeds(n, cache[n].answer)
      BY <3>1 DEF Heeding, CachesHeed
    <3>3. cache[n].answer.deps \subseteq CachedDeps(n)
      BY DEF CachedDeps
    <3>4. CASE SameForUs(n, request.id)
      <4>1. TypeField \notin DiffMask(request.id, cache[n].id)
        BY <3>2, <3>3, <3>4 DEF SameForUs
      <4>2. Type(cache[n].id) = Type(request.id)
        BY <4>1, FieldFacts DEF DiffMask, Type
      <4> QED
        BY <2>2, <3>1, <3>2, <3>3, <4>2 DEF Heeds
    <3>5. CASE SameButDerivatives(n, request.id)
      <4>1. Type(cache[n].id) # PU
        BY <3>5 DEF SameButDerivatives, EvalMode, Type, PU, EV, E1
      <4> QED
        BY <3>1, <3>2, <3>3, <4>1 DEF Heeds
    <3> QED
      BY <3>1, <3>4, <3>5 DEF Hit
  <2> QED
    BY <2>1, <2>2
<1>3. CASE EndsComputed(n, a)
  <2>1. a.code # "abort"
    BY <1>3 DEF EndsComputed
  <2>2. ASSUME Type(request.id) # PU, ~a.lost, IterField \notin a.deps
        PROVE  Below[n] \cap Solvable = {}
    <3>1. n \notin Solvable
      BY <1>3, <2>2 DEF EndsComputed
    <3>2. ASSUME NEW k \in Kids[n] PROVE Below[k] \cap Solvable = {}
      <4>1. Has(n, k)
        BY <1>3 DEF EndsComputed, Polled, Has
      <4>2. got[n][k].code \notin {"abort", "wait"}
        BY <1>3 DEF EndsComputed, KidCodes, KidAnswers
      <4>3. Heeds(k, got[n][k])
        BY <2>2, <4>1, <4>2 DEF Heeding, AnswersHeed
      <4>4. ~got[n][k].lost
        BY <1>3, <2>2 DEF EndsComputed, Lost, KidAnswers
      <4>5. IterField \notin got[n][k].deps
        BY <1>3, <2>2 DEF EndsComputed, KidDeps, KidAnswers
      <4> QED
        BY <4>3, <4>4, <4>5 DEF Heeds
    <3> QED
      BY <3>1, <3>2, ForestFacts
  <2> QED
    BY <2>1, <2>2 DEF Heeds
<1> QED
  BY <1>1, <1>2, <1>3

LEMMA EndsHeed ==
    ASSUME TypeOK, ExecInv, Heeding, NEW n \in Nodes, NEW c \in Nodes \cup {Client}, NEW a,
           Ends(n, c, a)
    PROVE  Heeding'
<1>1. /\ request # None /\ Returning(n, c, a)
      /\ request' = request \/ request' = None
      /\ iteration' = iteration /\ solving' = solving
  BY DEF Ends, Returning
<1>2. /\ a.code = "abort" => aborting
      /\ Type(request.id) # PU /\ a.code \notin {"abort", "wait"} => Heeds(n, a)
  BY <1>1, AnswerHeeds DEF Ends
<1>3. iteration \in Nat /\ Iter(request.id) = iteration
  BY <1>1 DEF TypeOK, Heeding, Asked
<1>4. /\ \A p \in Nodes : Executing(p)' => Executing(p) /\ p # n
      /\ \A p, k \in Nodes : Has(p, k)' =>
           /\ request' = request /\ aborting' = aborting
           /\ \/ p = c /\ k = n /\ got'[p][k] = a
              \/ Has(p, k) /\ got'[p][k] = got[p][k]
  BY <1>1, HasAfterReturn
<1>5. ASSUME NEW m \in Nodes, cache'[m].valid
      PROVE  /\ ~Executing(m)'
             /\ TypeField \in cache'[m].answer.deps
             /\ cache'[m].answer.code \notin {"abort", "wait"}
             /\ Iter(cache'[m].id) <= iteration'
             /\ Type(cache'[m].id) # PU => Heeds(m, cache'[m].answer)
  <2>1. CASE cache'[m] = cache[m]
    BY <1>1, <1>4, <1>5, <2>1 DEF Heeding, CachesHeed
  <2>2. CASE m = n /\ EndsServed(n, a)
    <3>1. /\ cache[m].valid /\ cache'[m].id = cache[m].id
          /\ cache'[m].answer = [cache[m].answer EXCEPT !.deps = CachedDeps(m)]
      BY <2>2 DEF EndsServed
    <3>2. /\ TypeField \in cache[m].answer.deps
          /\ cache[m].answer.code \notin {"abort", "wait"}
          /\ Iter(cache[m].id) <= iteration
          /\ Type(cache[m].id) # PU => Heeds(m, cache[m].answer)
      BY <3>1 DEF Heeding, CachesHeed
    <3>3. /\ cache'[m].answer.deps = CachedDeps(m)
          /\ cache'[m].answer.code = cache[m].answer.code
          /\ cache'[m].answer.lost = cache[m].answer.lost
      BY <3>1 DEF TypeOK, IsAnswer
    <3>4. cache[m].answer.deps \subseteq CachedDeps(m)
      BY DEF CachedDeps
    <3> QED
      BY <1>1, <1>4, <2>2, <3>1, <3>2, <3>3, <3>4 DEF Heeds
  <2>3. CASE m = n /\ (EndsWithoutRider(n, a) \/ EndsComputed(n, a))
    <3>1. /\ cache'[m].id = request.id /\ cache'[m].answer = a
          /\ TypeField \in a.deps /\ a.code \notin {"abort", "wait"}
      BY <1>5, <2>3 DEF EndsWithoutRider, EndsComputed
    <3> QED
      BY <1>1, <1>2, <1>3, <1>4, <2>3, <3>1
  <2> QED
    BY <1>5, <2>1, <2>2, <2>3
       DEF Ends, EndsAborted, EndsWaiting, EndsServed, EndsWithoutRider, EndsComputed, CacheKept
<1>6. ASSUME NEW p \in Nodes, NEW k \in Kids[p], Has(p, k)'
      PROVE  /\ got'[p][k].code = "abort" => aborting'
             /\ Type(request'.id) # PU /\ got'[p][k].code \notin {"abort", "wait"}
                  => Heeds(k, got'[p][k])
  <2>1. k \in Nodes
    BY ForestFacts
  <2> QED
    BY <1>2, <1>4, <1>6, <2>1 DEF Heeding, AnswersHeed
<1>7. Asked'
  BY <1>1 DEF Heeding, Asked
<1> QED
  BY <1>5, <1>6, <1>7 DEF Heeding, CachesHeed, AnswersHeed, Heeds

LEMMA HeedStep ==
    ASSUME TypeOK, ExecInv, Heeding, [Next]_vars
    PROVE  Heeding'
<1>1. ASSUME UNCHANGED <<caller, pending, got, request, iteration, solving>>,
             aborting => aborting',
             \A m \in Nodes : CacheKept(m)
      PROVE  Heeding'
  <2>1. CachesHeed'
    BY <1>1 DEF Heeding, CachesHeed, CacheKept, Heeds, Executing
  <2>2. AnswersHeed'
    BY <1>1 DEF Heeding, AnswersHeed, Has, Heeds, Executing
  <2>3. Asked'
    BY <1>1 DEF Heeding, Asked
  <2> QED
    BY <2>1, <2>2, <2>3 DEF Heeding
<1>2. ASSUME NEW n \in Nodes, NEW c \in Nodes \cup {Client}, EnterMiss(c, n) PROVE Heeding'
  <2>1. CachesHeed'
    BY <1>2, AfterMiss DEF Heeding, CachesHeed, Heeds
  <2>2. AnswersHeed'
    <3>1. \A p \in Nodes : Kids[p] \subseteq Nodes
      BY ForestFacts
    <3> QED
      BY <1>2, <3>1, AfterMiss DEF Heeding, AnswersHeed, Heeds
  <2>3. Asked'
    BY <1>2, AfterMiss DEF Heeding, Asked
  <2> QED
    BY <2>1, <2>2, <2>3 DEF Heeding
<1>3. ASSUME NEW n \in Nodes, Execute(n) PROVE Heeding'
  BY <1>2, <1>3, EnterEnds, EndsHeed DEF Execute, Heeding
<1>4. ASSUME NEW n \in Nodes, Finish(n) PROVE Heeding'
  BY <1>4, FinishEnds, EndsHeed DEF Heeding
<1>5. ASSUME NEW n \in Nodes, Command(n) PROVE Heeding'
  <2>1. CASE SetState(n)
    BY <1>1, <2>1 DEF SetState, pollVars, CacheKept
  <2>2. ASSUME NEW recursive \in BOOLEAN, ClearCommand(n, recursive) PROVE Heeding'
    BY <1>1, <2>2 DEF ClearCommand, nodeVars, pollVars, clientVars, CacheKept
  <2>3. CASE ClearCache(n)
    <3>1. cache' = [cache EXCEPT ![n].valid = FALSE]
          /\ UNCHANGED <<caller, pending, got, request, iteration, solving, aborting>>
      BY <2>3 DEF ClearCache, pollVars, clientVars
    <3>2. \A m \in Nodes : CacheKept(m)
      BY <3>1 DEF CacheKept, TypeOK
    <3> QED
      BY <1>1, <3>1, <3>2
  <2> QED
    BY <1>5, <2>1, <2>2, <2>3 DEF Command
<1>6. ASSUME RaiseAbortFlag \/ UNCHANGED vars PROVE Heeding'
  BY <1>1, <1>6 DEF RaiseAbortFlag, vars, nodeVars, pollVars, clientVars, countVars, CacheKept
<1>7. ASSUME NEW root \in Roots, NEW type \in {EV, E1, PU}, NEW dom \in Domains,
             NEW update \in BOOLEAN, Issue(root, type, dom, update)
      PROVE  Heeding'
  <2> DEFINE iter == IF update THEN iteration + 1 ELSE iteration
  <2>1. /\ request = None /\ request'.root = root /\ request'.id = NewId(type, iter, dom)
        /\ request'.update = update /\ iteration' = iter /\ solving' = (type = E1)
        /\ update => type \in {E1, PU}
        /\ UNCHANGED <<cache, caller, pending, got>>
    BY <1>7 DEF Issue, nodeVars, pollVars
  <2>2. type \in Nat /\ dom \in Nat /\ iter \in Nat /\ stateId \in Nat /\ iteration \in Nat
        /\ iteration <= iter
    BY BoundsAssumption DEF TypeOK, EV, E1, PU
  <2> HIDE DEF iter
  <2>3. Type(request'.id) = type /\ Iter(request'.id) = iteration'
    BY <2>1, <2>2, FieldsOfNewId DEF Type, Iter
  <2>4. \A m \in Nodes : ~Executing(m) /\ ~Executing(m)'
    BY <2>1 DEF ExecInv, Executing
  <2>5. \A m \in Nodes : Iter(cache[m].id) \in Nat
    BY FieldFacts DEF TypeOK, IsId, Iter
  <2>6. CachesHeed'
    BY <2>1, <2>2, <2>4, <2>5 DEF Heeding, CachesHeed, Heeds
  <2>7. AnswersHeed'
    BY <2>4 DEF AnswersHeed, Has
  <2>8. Asked'
    BY <2>1, <2>3 DEF Asked
  <2> QED
    BY <2>6, <2>7, <2>8 DEF Heeding
<1> QED
  BY <1>3, <1>4, <1>5, <1>6, <1>7 DEF Next

-----------------------------------------------------------------------------
(* Which caches an update without evaluation can have left behind.         *)

(* The cache of n, if there is one, is such an update's. *)
Open(n) == cache[n].valid => Type(cache[n].id) = PU

Updated(n) == cache[n].valid /\ Type(cache[n].id) = PU

(* Parent p may still ask child k: p has no result, and in a request for   *)
(* values or derivatives it has not been answered.                         *)
Leads(p, k) ==
    /\ k \in Kids[p]
    /\ Open(p)
    /\ Has(p, k) /\ Type(request.id) # PU => got[p][k].code = "abort"

Closed(T) == Roots \subseteq T /\ \A p \in T, k \in Nodes : Leads(p, k) => k \in T

(* A request still comes from a root to n. *)
Exposed(n) == \A T \in SUBSET Nodes : Closed(T) => n \in T

Exposing ==
    /\ \A n \in Nodes : Updated(n) => Exposed(n)
    /\ request # None /\ Type(request.id) = PU =>
         \A n \in Nodes : /\ Executing(n) => Exposed(n)
                          /\ Updated(n) => cache[n].id = request.id
    /\ request = None /\ solving /\ answer.code # "abort" => \A n \in Nodes : ~Updated(n)

LEMMA RootExposed ==
    ASSUME NEW n \in Roots
    PROVE  Exposed(n)
BY DEF Exposed, Closed

LEMMA KidExposed ==
    ASSUME NEW p \in Nodes, NEW k \in Nodes, Exposed(p), Leads(p, k)
    PROVE  Exposed(k)
BY DEF Exposed, Closed

LEMMA StaysExposed ==
    ASSUME \A p, k \in Nodes : Leads(p, k) => Leads(p, k)', NEW n \in Nodes, Exposed(n)
    PROVE  Exposed(n)'
<1>1. ASSUME NEW T \in SUBSET Nodes, Closed(T)' PROVE Closed(T)
  BY <1>1 DEF Closed
<1> QED
  BY <1>1 DEF Exposed

(* A node that led to none is on no way to another. *)
LEMMA OthersStayExposed ==
    ASSUME NEW n \in Nodes, \A k \in Nodes : ~Leads(n, k),
           \A p, k \in Nodes : Leads(p, k) /\ k # n => p = n \/ Leads(p, k)',
           NEW m \in Nodes, m # n, Exposed(m)
    PROVE  Exposed(m)'
<1> SUFFICES ASSUME NEW T \in SUBSET Nodes, Closed(T)' PROVE m \in T
  BY DEF Exposed
<1>1. Closed(T \cup {n})
  BY DEF Closed
<1>2. m \in T \cup {n}
  BY <1>1 DEF Exposed
<1> QED
  BY <1>2

(* What is served or computed for a request for values or derivatives      *)
(* closes the node that answers.                                           *)
LEMMA EndsClose ==
    ASSUME TypeOK, Heeding, request # None, Type(request.id) # PU, NEW n \in Nodes, NEW a,
           \/ EndsWaiting(n, a)
           \/ EndsServed(n, a)
           \/ EndsWithoutRider(n, a)
           \/ EndsComputed(n, a)
    PROVE  /\ \A k \in Nodes : ~Leads(n, k)
           /\ ~Updated(n)'
           /\ \A m \in Nodes \ {n} : CacheKept(m)
<1>1. ASSUME Polled(n), ~aborting PROVE \A k \in Nodes : ~Leads(n, k)
  BY <1>1 DEF Polled, Leads, Has, Heeding, AnswersHeed
<1>2. CASE EndsWaiting(n, a)
  <2>1. ~cache[n].valid /\ cache' = cache
    BY <1>2 DEF EndsWaiting, Polled, Heeding, CachesHeed
  <2> QED
    BY <1>1, <1>2, <2>1 DEF EndsWaiting, Updated, CacheKept
<1>3. CASE EndsServed(n, a)
  <2>1. Hit(n, request.id) /\ cache[n].valid /\ cache'[n].id = cache[n].id
    BY <1>3 DEF EndsServed, UpdateIgnored, Type
  <2>2. TypeField \in CachedDeps(n)
    BY <2>1 DEF Heeding, CachesHeed, CachedDeps
  <2>3. Type(cache[n].id) # PU
    <3>1. CASE SameForUs(n, request.id)
      BY <2>2, <3>1, FieldFacts DEF SameForUs, DiffMask, Type
    <3>2. CASE SameButDerivatives(n, request.id)
      BY <3>2 DEF SameButDerivatives, EvalMode, Type, PU, EV, E1
    <3> QED
      BY <2>1, <3>1, <3>2 DEF Hit
  <2> QED
    BY <1>3, <2>1, <2>3 DEF Leads, Open, Updated, EndsServed, CacheKept
<1>4. CASE EndsWithoutRider(n, a)
  <2>1. Kids[n] = {}
    BY <1>4, SolvableAssumption DEF EndsWithoutRider
  <2>2. cache'[n].valid => cache'[n].id = request.id
    BY <1>4 DEF EndsWithoutRider
  <2> QED
    BY <1>4, <2>1, <2>2 DEF Leads, Updated, EndsWithoutRider
<1>5. CASE EndsComputed(n, a)
  <2>1. cache'[n].valid => cache'[n].id = request.id
    BY <1>5 DEF EndsComputed
  <2> QED
    BY <1>1, <1>5, <2>1 DEF Updated, EndsComputed
<1> QED
  BY <1>2, <1>3, <1>4, <1>5

(* A node that is called in an update without evaluation is exposed.       *)
LEMMA CalledExposed ==
    ASSUME Exposing, Heeding, request # None, Type(request.id) = PU,
           NEW n \in Nodes, NEW c \in Nodes \cup {Client},
           c = Client => n = request.root,
           c \in Nodes => Executing(c) /\ n \in Kids[c]
    PROVE  Exposed(n)
<1>1. CASE c = Client
  BY <1>1, RootExposed DEF Heeding, Asked
<1>2. CASE c \in Nodes
  <2>1. Exposed(c) /\ ~cache[c].valid
    BY <1>2 DEF Exposing, Heeding, CachesHeed
  <2>2. Leads(c, n)
    BY <1>2, <2>1 DEF Leads, Open
  <2> QED
    BY <1>2, <2>1, <2>2, KidExposed
<1> QED
  BY <1>1, <1>2

(* A request is not mistaken for none. *)
LEMMA NumbersInId ==
    ASSUME NEW id, IsId(id), DOMAIN id \subseteq Fields, NEW mask \in SUBSET Fields, NEW value \in Nat
    PROVE  /\ DOMAIN SetSubId(id, mask, value) \subseteq Fields
           /\ IsId(SetSubId(id, mask, value))
           /\ \E D \in SUBSET Fields : SetSubId(id, mask, value) \in [D -> Nat]
           /\ \E D \in SUBSET Fields : IncrSubId(id, mask) \in [D -> Nat]
<1> DEFINE D == DOMAIN Resized(id, mask)
<1>1. D \subseteq Fields
  BY DEF Resized
<1>2. \A f \in Fields : Field(id, f) \in Nat
  BY DEF IsId
<1>3. /\ SetSubId(id, mask, value) = [f \in D |-> IF f \in mask THEN value ELSE Field(id, f)]
      /\ IncrSubId(id, mask) = [f \in D |-> IF f \in mask THEN Field(id, f) + 1 ELSE Field(id, f)]
  BY DEF SetSubId, IncrSubId
<1> HIDE DEF D
<1>4. \A f \in D : Field(id, f) \in Nat /\ Field(id, f) + 1 \in Nat
  BY <1>1, <1>2
<1>5. SetSubId(id, mask, value) \in [D -> Nat]
  BY <1>3, <1>4
<1>6. IncrSubId(id, mask) \in [D -> Nat]
  BY <1>3, <1>4
<1>7. IsId(SetSubId(id, mask, value))
  BY <1>2, FieldOfSetSubId DEF IsId
<1> QED
  BY <1>1, <1>5, <1>6, <1>7

LEMMA IssuedIsRequest ==
    ASSUME TypeOK, NEW root \in Roots, NEW type \in {EV, E1, PU}, NEW dom \in Domains,
           NEW update \in BOOLEAN, Issue(root, type, dom, update)
    PROVE  request' # None
<1> DEFINE iter == IF update THEN iteration + 1 ELSE iteration
           id1 == SetSubId(<<>>, {TypeField}, type)
           id2 == SetSubId(id1, {IterField}, iter)
           id3 == SetSubId(id2, {StateField}, stateId)
           id4 == SetSubId(id3, {DomField}, dom)
<1>1. type \in Nat /\ dom \in Nat /\ iter \in Nat /\ stateId \in Nat
  BY BoundsAssumption DEF TypeOK, EV, E1, PU
<1>2. PICK diff \in NextDiffs :
        request' = [root |-> root, id |-> id4, next |-> IncrSubId(id4, diff), update |-> update]
  BY DEF Issue, NewId
<1>3. diff \in SUBSET Fields /\ root \in Nodes
  BY BoundsAssumption
<1> HIDE DEF iter
<1>4. IsId(<<>>) /\ DOMAIN <<>> \subseteq Fields
  BY DEF IsId, Field
<1>5. IsId(id1) /\ DOMAIN id1 \subseteq Fields
  BY <1>1, <1>4, NumbersInId, FieldFacts
<1> HIDE DEF id1
<1>6. IsId(id2) /\ DOMAIN id2 \subseteq Fields
  BY <1>1, <1>5, NumbersInId, FieldFacts
<1> HIDE DEF id2
<1>7. IsId(id3) /\ DOMAIN id3 \subseteq Fields
  BY <1>1, <1>6, NumbersInId, FieldFacts
<1> HIDE DEF id3
<1>8. /\ IsId(id4) /\ DOMAIN id4 \subseteq Fields
      /\ \E D \in SUBSET Fields : id4 \in [D -> Nat]
  BY <1>1, <1>7, NumbersInId, FieldFacts
<1> HIDE DEF id4
<1>9. \E D \in SUBSET Fields : IncrSubId(id4, diff) \in [D -> Nat]
  BY <1>1, <1>3, <1>8, NumbersInId
<1> QED
  BY <1>2, <1>3, <1>8, <1>9, NoneAssumption

(* With one root, the end of a request for derivatives that was not        *)
(* aborted closes the root: no cache of an earlier update is left.         *)
LEMMA EndsExpose ==
    ASSUME OneRoot, TypeOK, ExecInv, Heeding, Exposing,
           NEW n \in Nodes, NEW c \in Nodes \cup {Client}, NEW a, Ends(n, c, a)
    PROVE  Exposing'
<1>1. /\ request # None /\ Returning(n, c, a)
      /\ request' = request \/ request' = None
      /\ solving' = solving
  BY DEF Ends, Returning
<1>2. /\ \A p \in Nodes : Executing(p)' => Executing(p) /\ p # n
      /\ \A p, k \in Nodes : Has(p, k)' =>
           /\ request' = request /\ p # n
           /\ \/ p = c /\ k = n /\ got'[p][k] = a
              \/ Has(p, k) /\ got'[p][k] = got[p][k] /\ ~(p = c /\ k = n)
      /\ request' = None => n = request.root /\ answer' = a
  <2>1. c \in Nodes => ~Has(c, n)
    BY <1>1 DEF Returning, Has
  <2> QED
    BY <1>1, <2>1, HasAfterReturn
<1>0. /\ c = Client => n = request.root
      /\ c \in Nodes => Executing(c) /\ n \in Kids[c]
  BY <1>1 DEF Returning, ExecInv
<1>3. CASE EndsAborted(n, a)
  <2>1. a.code = "abort" /\ cache' = cache
    BY <1>3 DEF EndsAborted
  <2>2. ASSUME NEW p \in Nodes, NEW k \in Nodes, Leads(p, k) PROVE Leads(p, k)'
    BY <1>2, <2>1, <2>2 DEF Leads, Open
  <2>3. \A m \in Nodes : Exposed(m) => Exposed(m)'
    BY <2>2, StaysExposed
  <2>4. \A m \in Nodes : Updated(m)' => Updated(m)
    BY <2>1 DEF Updated
  <2> QED
    BY <1>1, <1>2, <2>1, <2>3, <2>4 DEF Exposing
<1>4. CASE ~EndsAborted(n, a) /\ Type(request.id) # PU
  <2>1. /\ \A k \in Nodes : ~Leads(n, k)
        /\ ~Updated(n)'
        /\ \A m \in Nodes \ {n} : CacheKept(m)
    BY <1>1, <1>4, EndsClose DEF Ends
  <2>2. \A m \in Nodes \ {n} : /\ Open(m) => Open(m)'
                               /\ Updated(m)' => Updated(m)
    BY <2>1 DEF CacheKept, Open, Updated
  <2>3. ASSUME NEW p \in Nodes, NEW k \in Nodes, Leads(p, k), k # n, p # n PROVE Leads(p, k)'
    BY <1>2, <2>2, <2>3 DEF Leads
  <2>4. \A m \in Nodes \ {n} : Exposed(m) => Exposed(m)'
    BY <2>1, <2>3, OthersStayExposed
  <2>5. \A m \in Nodes : Updated(m)' => Updated(m) /\ m # n
    BY <2>1, <2>2
  <2>6. ASSUME request' = None, NEW m \in Nodes PROVE ~Updated(m)'
    <3>1. n \in Roots
      BY <1>1, <1>2, <2>6 DEF Heeding, Asked
    <3>2. Closed({n})
      BY <2>1, <3>1 DEF Closed, OneRoot
    <3>3. Exposed(m) => m = n
      BY <3>2 DEF Exposed
    <3> QED
      BY <2>5, <3>3 DEF Exposing
  <2> QED
    BY <1>1, <1>4, <2>4, <2>5, <2>6 DEF Exposing
<1>5. CASE Type(request.id) = PU
  <2>1. \A m \in Nodes : cache'[m].valid =>
          \/ cache[m].valid /\ cache'[m].id = cache[m].id
          \/ m = n /\ cache'[m].id = request.id
    BY DEF Ends, EndsAborted, EndsWaiting, EndsServed, EndsWithoutRider, EndsComputed, CacheKept
  <2>2. \A m \in Nodes : /\ Open(m) => Open(m)'
                         /\ Updated(m)' => Updated(m) \/ (m = n /\ cache'[m].id = request.id)
    BY <1>5, <2>1 DEF Open, Updated
  <2>3. ASSUME NEW p \in Nodes, NEW k \in Nodes, Leads(p, k) PROVE Leads(p, k)'
    BY <1>2, <1>5, <2>2, <2>3 DEF Leads
  <2>4. \A m \in Nodes : Exposed(m) => Exposed(m)'
    BY <2>3, StaysExposed
  <2>5. Exposed(n)
    BY <1>0, <1>1, <1>5, CalledExposed
  <2>6. \A m \in Nodes : Updated(m)' => Exposed(m)'
    BY <2>2, <2>4, <2>5 DEF Exposing
  <2>7. ASSUME request' = request, NEW m \in Nodes, Updated(m)' PROVE cache'[m].id = request.id
    BY <1>1, <1>5, <2>1, <2>2, <2>7 DEF Exposing, Updated
  <2>8. ~solving
    BY <1>1, <1>5 DEF Heeding, Asked, PU, E1
  <2> QED
    BY <1>1, <1>2, <1>5, <2>4, <2>6, <2>7, <2>8 DEF Exposing
<1> QED
  BY <1>3, <1>4, <1>5

LEMMA ExposeStep ==
    ASSUME OneRoot, TypeOK, ExecInv, Heeding, Exposing, [Next]_vars
    PROVE  Exposing'
<1>1. ASSUME UNCHANGED <<caller, pending, got, request, solving, answer>>,
             \A m \in Nodes : CacheKept(m)
      PROVE  Exposing'
  <2>1. \A m \in Nodes : /\ Open(m) => Open(m)'
                         /\ Updated(m)' => Updated(m) /\ cache'[m] = cache[m]
    BY <1>1 DEF CacheKept, Open, Updated
  <2>2. \A p, k \in Nodes : Leads(p, k) => Leads(p, k)'
    BY <1>1, <2>1 DEF Leads, Has, Executing
  <2>3. \A m \in Nodes : Exposed(m) => Exposed(m)'
    BY <2>2, StaysExposed
  <2>4. \A m \in Nodes : Executing(m)' <=> Executing(m)
    BY <1>1 DEF Executing
  <2> QED
    BY <1>1, <2>1, <2>3, <2>4 DEF Exposing
<1>2. ASSUME NEW n \in Nodes, NEW c \in Nodes \cup {Client}, EnterMiss(c, n) PROVE Exposing'
  <2>1. /\ request # None /\ request' = request /\ ~cache'[n].valid
        /\ \A m \in Nodes \ {n} : /\ cache'[m] = cache[m]
                                  /\ Executing(m)' <=> Executing(m)
        /\ got' = got
        /\ \A p, k \in Nodes : Has(p, k)' <=> Has(p, k)
        /\ c = Client => n = request.root
        /\ c \in Nodes => Executing(c) /\ n \in pending[c]
    BY <1>2, AfterMiss
  <2>2. \A m \in Nodes : /\ Open(m) => Open(m)'
                         /\ Updated(m)' => Updated(m) /\ cache'[m] = cache[m]
    BY <2>1 DEF Open, Updated
  <2>3. \A p, k \in Nodes : Leads(p, k) => Leads(p, k)'
    BY <2>1, <2>2 DEF Leads
  <2>4. \A m \in Nodes : Exposed(m) => Exposed(m)'
    BY <2>3, StaysExposed
  <2>5. c \in Nodes => n \in Kids[c]
    BY <2>1 DEF ExecInv
  <2>6. Type(request.id) = PU => Exposed(n)
    BY <2>1, <2>5, CalledExposed
  <2> QED
    BY <2>1, <2>2, <2>4, <2>6 DEF Exposing
<1>3. ASSUME NEW n \in Nodes, Execute(n) PROVE Exposing'
  BY <1>2, <1>3, EnterEnds, EndsExpose DEF Execute, Heeding
<1>4. ASSUME NEW n \in Nodes, Finish(n) PROVE Exposing'
  BY <1>4, FinishEnds, EndsExpose DEF Heeding
<1>5. ASSUME NEW n \in Nodes, Command(n) PROVE Exposing'
  <2>1. CASE SetState(n)
    BY <1>1, <2>1 DEF SetState, pollVars, CacheKept
  <2>2. ASSUME NEW recursive \in BOOLEAN, ClearCommand(n, recursive) PROVE Exposing'
    BY <1>1, <2>2 DEF ClearCommand, nodeVars, pollVars, clientVars, CacheKept
  <2>3. CASE ClearCache(n)
    <3>1. cache' = [cache EXCEPT ![n].valid = FALSE]
          /\ UNCHANGED <<caller, pending, got, request, solving, answer>>
      BY <2>3 DEF ClearCache, pollVars, clientVars
    <3>2. \A m \in Nodes : CacheKept(m)
      BY <3>1 DEF CacheKept, TypeOK
    <3> QED
      BY <1>1, <3>1, <3>2
  <2> QED
    BY <1>5, <2>1, <2>2, <2>3 DEF Command
<1>6. ASSUME RaiseAbortFlag \/ UNCHANGED vars PROVE Exposing'
  BY <1>1, <1>6 DEF RaiseAbortFlag, vars, nodeVars, pollVars, clientVars, countVars, CacheKept
<1>7. ASSUME NEW root \in Roots, NEW type \in {EV, E1, PU}, NEW dom \in Domains,
             NEW update \in BOOLEAN, Issue(root, type, dom, update)
      PROVE  Exposing'
  <2> DEFINE iter == IF update THEN iteration + 1 ELSE iteration
  <2>1. /\ request = None /\ request'.id = NewId(type, iter, dom)
        /\ type = PU => solving /\ answer.code # "abort"
        /\ UNCHANGED <<cache, caller, pending, got>>
    BY <1>7 DEF Issue, nodeVars, pollVars
  <2>2. type \in Nat /\ dom \in Nat /\ iter \in Nat /\ stateId \in Nat
    BY BoundsAssumption DEF TypeOK, EV, E1, PU
  <2> HIDE DEF iter
  <2>3. Type(request'.id) = type
    BY <2>1, <2>2, FieldsOfNewId DEF Type
  <2>4. \A m \in Nodes : ~Executing(m) /\ ~Executing(m)'
    BY <2>1 DEF ExecInv, Executing
  <2>5. \A m \in Nodes : /\ Open(m) => Open(m)'
                         /\ Updated(m)' <=> Updated(m)
    BY <2>1 DEF Open, Updated
  <2>6. \A p, k \in Nodes : Leads(p, k) => Leads(p, k)'
    BY <2>4, <2>5 DEF Leads, Has
  <2>7. \A m \in Nodes : Exposed(m) => Exposed(m)'
    BY <2>6, StaysExposed
  <2>8. request' # None
    BY <1>7, IssuedIsRequest
  <2> QED
    BY <2>1, <2>3, <2>4, <2>5, <2>7, <2>8 DEF Exposing
<1> QED
  BY <1>3, <1>4, <1>5, <1>6, <1>7 DEF Next

-----------------------------------------------------------------------------
(* What is answered for an update has been reached by it.                  *)

Reached(n) == \A m \in Below[n] \cap Solvable : applied[m] = 1

(* An answer behind which a parameter may have been missed. *)
Bad(a) == a.lost \/ a.code \in {"abort", "wait"}

SpoiltFor(p) == \E k \in Kids[p] : Has(p, k) /\ Bad(got[p][k])

Reaching ==
    /\ \A n \in Nodes : Iter(lastId[n]) \in 0..iteration
    /\ request # None /\ request.update /\ (\A p \in Nodes : ~SpoiltFor(p)) =>
         /\ \A p \in Nodes : \A k \in Kids[p] : Has(p, k) => Reached(k)
         /\ \A n \in Nodes : cache[n].valid /\ Iter(cache[n].id) = iteration => Reached(n)
         /\ \A m \in Solvable : lastId[m] = request.id => applied[m] = 1

(* A cache that answers an update is of its iteration, or has no parameter *)
(* under it.                                                               *)
LEMMA ServedReached ==
    ASSUME TypeOK, Heeding, Exposing, Reaching, NEW n \in Nodes, NEW a, EndsServed(n, a),
           request # None, request.update, \A p \in Nodes : ~SpoiltFor(p), ~Bad(a)
    PROVE  Reached(n)
<1>1. /\ cache[n].valid /\ ~cache[n].answer.lost
      /\ Hit(n, request.id) \/ UpdateIgnored(n, request.id)
  BY DEF EndsServed, Bad
<1>2. Iter(cache[n].id) = iteration => Reached(n)
  BY <1>1 DEF Reaching
<1>3. /\ Iter(request.id) = iteration /\ Type(request.id) \in {E1, PU}
      /\ TypeField \in cache[n].answer.deps
      /\ Type(cache[n].id) # PU => Heeds(n, cache[n].answer)
  BY <1>1 DEF Heeding, Asked, CachesHeed
<1>4. cache[n].answer.deps \subseteq CachedDeps(n)
  BY DEF CachedDeps
<1>5. Below[n] \cap Solvable = {} => Reached(n)
  BY DEF Reached
<1>6. ASSUME Hit(n, request.id), IterField \in CachedDeps(n) PROVE Reached(n)
  <2>1. IterField \notin DiffMask(request.id, cache[n].id)
    BY <1>6, FieldFacts DEF Hit, SameForUs, SameButDerivatives
  <2>2. Iter(cache[n].id) = iteration
    BY <1>3, <2>1, FieldFacts DEF DiffMask, Iter
  <2> QED
    BY <1>2, <2>2
<1>7. ASSUME IterField \notin CachedDeps(n), Type(cache[n].id) # PU PROVE Reached(n)
  BY <1>1, <1>3, <1>4, <1>5, <1>7 DEF Heeds
<1>8. ASSUME Type(cache[n].id) = PU, Type(request.id) = PU PROVE Reached(n)
  <2>1. cache[n].id = request.id
    BY <1>1, <1>8 DEF Exposing, Updated
  <2> QED
    BY <1>2, <1>3, <2>1
<1>9. ASSUME Type(cache[n].id) = PU, Type(request.id) = E1 PROVE FALSE
  <2>1. Hit(n, request.id)
    BY <1>1, <1>9 DEF UpdateIgnored, Type, E1, PU
  <2>2. ~SameButDerivatives(n, request.id)
    BY <1>9 DEF SameButDerivatives, EvalMode, Type, E1, PU, EV
  <2>3. TypeField \in DiffMask(request.id, cache[n].id)
    BY <1>9, FieldFacts DEF DiffMask, Type, E1, PU
  <2> QED
    BY <1>3, <1>4, <2>1, <2>2, <2>3 DEF Hit, SameForUs
<1>10. CASE Hit(n, request.id)
  <2>1. Type(cache[n].id) = PU => Reached(n)
    BY <1>3, <1>8, <1>9
  <2> QED
    BY <1>6, <1>7, <1>10, <2>1
<1>11. CASE UpdateIgnored(n, request.id)
  <2>1. Type(request.id) = PU /\ IterField \notin CachedDeps(n)
    BY <1>11 DEF UpdateIgnored, Type
  <2> QED
    BY <1>7, <1>8, <2>1
<1> QED
  BY <1>1, <1>10, <1>11

LEMMA EndsReached ==
    ASSUME TypeOK, ExecInv, Heeding, Exposing, Reaching,
           NEW n \in Nodes, NEW c \in Nodes \cup {Client}, NEW a, Ends(n, c, a),
           request.update, ~Bad(a), \A p \in Nodes \ {n} : ~SpoiltFor(p)
    PROVE  /\ Reached(n)
           /\ \A p \in Nodes : ~SpoiltFor(p)
           /\ EndsServed(n, a) \/ EndsComputed(n, a)
<1>1. request # None
  BY DEF Ends, Returning
<1>2. EndsServed(n, a) \/ EndsComputed(n, a)
  BY DEF Ends, EndsAborted, EndsWaiting, EndsWithoutRider, Bad
<1>3. CASE EndsServed(n, a)
  <2>1. \A p \in Nodes : ~SpoiltFor(p)
    BY <1>3 DEF EndsServed, SpoiltFor, Has
  <2> QED
    BY <1>1, <1>3, <2>1, ServedReached
<1>4. CASE EndsComputed(n, a)
  <2>1. ~SpoiltFor(n)
    BY <1>4 DEF EndsComputed, SpoiltFor, Bad, Lost, KidCodes, KidAnswers
  <2>2. \A p \in Nodes : ~SpoiltFor(p)
    BY <2>1
  <2>3. /\ \A k \in Kids[n] : Has(n, k) => Reached(k)
        /\ n \in Solvable /\ lastId[n] = request.id => applied[n] = 1
    BY <1>1, <2>2 DEF Reaching
  <2>4. Executing(n) /\ \A k \in Kids[n] : Has(n, k)
    BY <1>4 DEF EndsComputed, Polled, Has
  <2>5. lastId[n] = request.id
    BY <2>4 DEF ExecInv
  <2>6. ASSUME NEW m \in Below[n] \cap Solvable PROVE applied[m] = 1
    <3>1. m = n \/ \E k \in Kids[n] : m \in Below[k]
      BY ForestFacts
    <3> QED
      BY <2>3, <2>4, <2>5, <3>1 DEF Reached
  <2> QED
    BY <1>2, <2>2, <2>6 DEF Reached
<1> QED
  BY <1>2, <1>3, <1>4

LEMMA EndsKeepReaching ==
    ASSUME TypeOK, ExecInv, Heeding, Exposing, Reaching,
           NEW n \in Nodes, NEW c \in Nodes \cup {Client}, NEW a, Ends(n, c, a)
    PROVE  Reaching'
<1>1. /\ request # None /\ Returning(n, c, a)
      /\ request' = request \/ request' = None
      /\ applied' = applied /\ iteration' = iteration
      /\ \A m \in Nodes : lastId'[m] = lastId[m] \/ lastId'[m] = request.id
  BY DEF Ends, Returning
<1>2. \A m \in Nodes : Iter(lastId'[m]) \in 0..iteration'
  <2>1. Iter(request.id) = iteration /\ iteration \in Nat
    BY <1>1 DEF TypeOK, Heeding, Asked
  <2> QED
    BY <1>1, <2>1 DEF Reaching
<1>3. ASSUME request' # None, request.update, \A p \in Nodes : ~SpoiltFor(p)'
      PROVE  /\ \A p \in Nodes : \A k \in Kids[p] : Has(p, k)' => Reached(k)
             /\ \A m \in Nodes : cache'[m].valid /\ Iter(cache'[m].id) = iteration => Reached(m)
             /\ \A m \in Solvable : lastId'[m] = request.id => applied[m] = 1
  <2>1. /\ c \in Nodes /\ n \in Kids[c] /\ Has(c, n)' /\ got'[c][n] = a
        /\ \A p \in Nodes : \A k \in Nodes :
             /\ Has(p, k)' => (p = c /\ k = n) \/ Has(p, k)
             /\ Has(p, k) /\ p # n => Has(p, k)' /\ got'[p][k] = got[p][k]
    BY <1>1, <1>3, HasAfterReturn
  <2>2. \A p \in Nodes : Kids[p] \subseteq Nodes
    BY ForestFacts
  <2>3. ~Bad(a)
    BY <1>3, <2>1 DEF SpoiltFor, Bad
  <2>4. ASSUME NEW p \in Nodes \ {n} PROVE ~SpoiltFor(p)
    BY <1>3, <2>1, <2>2 DEF SpoiltFor, Bad
  <2>5. /\ Reached(n)
        /\ \A p \in Nodes : ~SpoiltFor(p)
        /\ EndsServed(n, a) \/ EndsComputed(n, a)
    BY <1>3, <2>3, <2>4, EndsReached
  <2>6. /\ \A p \in Nodes : \A k \in Kids[p] : Has(p, k) => Reached(k)
        /\ \A m \in Nodes : cache[m].valid /\ Iter(cache[m].id) = iteration => Reached(m)
        /\ \A m \in Solvable : lastId[m] = request.id => applied[m] = 1
    BY <1>1, <1>3, <2>5 DEF Reaching
  <2>7. lastId' = lastId /\ \A m \in Nodes \ {n} : CacheKept(m)
    BY <2>5 DEF EndsServed, EndsComputed, CacheKept
  <2> QED
    BY <2>1, <2>2, <2>5, <2>6, <2>7 DEF CacheKept
<1> QED
  BY <1>1, <1>2, <1>3 DEF Reaching, Reached

LEMMA ReachStep ==
    ASSUME TypeOK, ExecInv, OnceInv, Heeding, Exposing, Reaching, [Next]_vars
    PROVE  Reaching'
<1>1. ASSUME UNCHANGED <<caller, pending, got, request, iteration, lastId, applied>>,
             \A m \in Nodes : CacheKept(m)
      PROVE  Reaching'
  <2>1. \A p \in Nodes : /\ SpoiltFor(p)' <=> SpoiltFor(p)
                         /\ \A k \in Kids[p] : Has(p, k)' <=> Has(p, k)
                         /\ Reached(p)' <=> Reached(p)
    BY <1>1 DEF SpoiltFor, Bad, Has, Executing, Reached
  <2>2. \A p \in Nodes : Kids[p] \subseteq Nodes
    BY ForestFacts
  <2> QED
    BY <1>1, <2>1, <2>2 DEF Reaching, CacheKept
<1>2. ASSUME NEW n \in Nodes, NEW c \in Nodes \cup {Client}, EnterMiss(c, n) PROVE Reaching'
  <2>1. /\ request # None /\ request' = request /\ iteration' = iteration
        /\ ~cache'[n].valid /\ \A m \in Nodes \ {n} : cache'[m] = cache[m]
        /\ lastId'[n] = request.id /\ \A m \in Nodes \ {n} : lastId'[m] = lastId[m]
        /\ got' = got
        /\ \A p, k \in Nodes : Has(p, k)' <=> Has(p, k)
    BY <1>2, AfterMiss
  <2>2. /\ CarriesUpdate(n) => applied' = [applied EXCEPT ![n] = @ + 1]
        /\ ~CarriesUpdate(n) => applied' = applied
    BY <1>2 DEF EnterMiss
  <2>3. applied \in [Nodes -> Nat] /\ iteration \in Nat /\ \A p \in Nodes : Kids[p] \subseteq Nodes
    BY ForestFacts DEF TypeOK
  <2>4. request.id # <<>>
    <3>1. Field(<<>>, TypeField) = 0
      BY DEF Field
    <3> QED
      BY <2>1, <3>1 DEF OnceInv, EV, E1, PU
  <2>5. CarriesUpdate(n) => applied[n] = 0 /\ applied'[n] = 1
    BY <2>1, <2>2, <2>3, <2>4 DEF CarriesUpdate, IsNewRequest, OnceInv
  <2>6. \A m \in Nodes : applied[m] = 1 => applied'[m] = 1
    BY <2>2, <2>3, <2>5
  <2>7. request.update /\ n \in Solvable /\ lastId[n] # request.id => applied'[n] = 1
    BY <2>5 DEF CarriesUpdate, IsNewRequest
  <2>8. \A m \in Nodes : /\ SpoiltFor(m)' <=> SpoiltFor(m)
                         /\ Reached(m) => Reached(m)'
    BY <2>1, <2>3, <2>6, SolvableAssumption DEF SpoiltFor, Bad, Reached
  <2>9. \A m \in Nodes : Iter(lastId'[m]) \in 0..iteration'
    BY <2>1, <2>3 DEF Reaching, Heeding, Asked
  <2>10. ASSUME NEW m \in Solvable, lastId[m] = request.id => applied[m] = 1,
                request.update, lastId'[m] = request.id
         PROVE  applied'[m] = 1
    BY <2>1, <2>6, <2>7, <2>10, SolvableAssumption
  <2> QED
    BY <2>1, <2>3, <2>8, <2>9, <2>10 DEF Reaching
<1>3. ASSUME NEW n \in Nodes, Execute(n) PROVE Reaching'
  BY <1>2, <1>3, EnterEnds, EndsKeepReaching DEF Execute, Heeding
<1>4. ASSUME NEW n \in Nodes, Finish(n) PROVE Reaching'
  BY <1>4, FinishEnds, EndsKeepReaching DEF Heeding
<1>5. ASSUME NEW n \in Nodes, Command(n) PROVE Reaching'
  <2>1. CASE SetState(n)
    BY <1>1, <2>1 DEF SetState, pollVars, countVars, CacheKept
  <2>2. ASSUME NEW recursive \in BOOLEAN, ClearCommand(n, recursive) PROVE Reaching'
    BY <1>1, <2>2 DEF ClearCommand, nodeVars, pollVars, clientVars, countVars, CacheKept
  <2>3. CASE ClearCache(n)
    <3>1. cache' = [cache EXCEPT ![n].valid = FALSE]
          /\ UNCHANGED <<caller, pending, got, request, iteration, lastId, applied>>
      BY <2>3 DEF ClearCache, pollVars, clientVars
    <3>2. \A m \in Nodes : CacheKept(m)
      BY <3>1 DEF CacheKept, TypeOK
    <3> QED
      BY <1>1, <3>1, <3>2
  <2> QED
    BY <1>5, <2>1, <2>2, <2>3 DEF Command
<1>6. ASSUME RaiseAbortFlag \/ UNCHANGED vars PROVE Reaching'
  BY <1>1, <1>6 DEF RaiseAbortFlag, vars, nodeVars, pollVars, clientVars, countVars, CacheKept
<1>7. ASSUME NEW root \in Roots, NEW type \in {EV, E1, PU}, NEW dom \in Domains,
             NEW update \in BOOLEAN, Issue(root, type, dom, update)
      PROVE  Reaching'
  <2> DEFINE iter == IF update THEN iteration + 1 ELSE iteration
  <2>1. /\ request = None /\ request'.id = NewId(type, iter, dom)
        /\ request'.update = update /\ iteration' = iter
        /\ UNCHANGED <<cache, lastId, caller, pending, got>>
    BY <1>7 DEF Issue, nodeVars, pollVars
  <2>2. type \in Nat /\ dom \in Nat /\ iter \in Nat /\ stateId \in Nat /\ iteration \in Nat
        /\ iteration <= iter /\ (update => iteration < iter)
    BY BoundsAssumption DEF TypeOK, EV, E1, PU
  <2> HIDE DEF iter
  <2>3. Iter(request'.id) = iteration'
    BY <2>1, <2>2, FieldsOfNewId DEF Iter
  <2>4. \A p \in Nodes : ~Executing(p)'
    BY <2>1 DEF ExecInv, Executing
  <2>5. \A m \in Nodes : /\ Iter(lastId[m]) \in 0..iteration
                         /\ cache[m].valid => Iter(cache[m].id) <= iteration
    BY DEF Reaching, Heeding, CachesHeed
  <2> QED
    <3>1. \A m \in Nodes : Iter(cache[m].id) \in Nat
      BY FieldFacts DEF TypeOK, IsId, Iter
    <3>2. ASSUME NEW m \in Nodes, update
          PROVE  lastId'[m] # request'.id /\ (cache'[m].valid => Iter(cache'[m].id) # iteration')
      BY <2>1, <2>2, <2>3, <2>5, <3>1, <3>2
    <3>3. \A m \in Nodes : Iter(lastId'[m]) \in 0..iteration'
      BY <2>1, <2>2, <2>5
    <3> QED
      BY <2>1, <2>4, <3>2, <3>3, SolvableAssumption DEF Reaching, Has
<1> QED
  BY <1>3, <1>4, <1>5, <1>6, <1>7 DEF Next

UpdateInv == TypeOK /\ ExecInv /\ OnceInv /\ Heeding /\ Exposing /\ Reaching

(* With one root, an update that is answered without a failed rider or a   *)
(* wait has reached every parameter under the root, whatever the caches    *)
(* held, and with commands, aborts and failures at any moment (execute,    *)
(* getCachedResult).                                                       *)
THEOREM UpdatesAreNotKeptBack == ASSUME OneRoot PROVE Spec => UpdatesReachParameters
<1>1. Init => UpdateInv
  <2>1. Init => TypeOK /\ ExecInv /\ OnceInv
    BY InvInit DEF IInv, Init, OnceInv
  <2>2. Init => Heeding
    BY DEF Init, Heeding, CachesHeed, AnswersHeed, Asked, Has, Executing
  <2>3. Init => Exposing
    BY DEF Init, Exposing, Updated
  <2>4. Init => Reaching
    <3>1. Iter(<<>>) = 0
      BY DEF Iter, Field
    <3> QED
      BY <3>1 DEF Init, Reaching
  <2> QED
    BY <2>1, <2>2, <2>3, <2>4 DEF UpdateInv
<1>2. UpdateInv /\ [Next]_vars => UpdateInv'
  BY TypeStep, ExecStep, OnceStep, HeedStep, ExposeStep, ReachStep DEF UpdateInv
<1>3. UpdateInv /\ [Next]_vars =>
        [Answered /\ request.update /\ answer'.code \in {"ok", "missing", "fail"} /\ ~answer'.lost =>
           \A n \in Solvable \cap Below[request.root] : applied[n] = 1]_vars
  <2> SUFFICES ASSUME UpdateInv, Next, Answered, request.update,
                      answer'.code \in {"ok", "missing", "fail"}, ~answer'.lost
               PROVE  Reached(request.root)
    BY DEF Reached
  <2>1. \/ \E n \in Nodes : Execute(n) \/ Finish(n)
        \/ request' = request \/ request' # None
    <3>1. ASSUME NEW root \in Roots, NEW type \in {EV, E1, PU}, NEW dom \in Domains,
                 NEW update \in BOOLEAN, Issue(root, type, dom, update)
          PROVE  request' # None
      BY <3>1, IssuedIsRequest DEF UpdateInv
    <3> QED
      BY <3>1 DEF Next, Command, SetState, ClearCommand, ClearCache, RaiseAbortFlag, clientVars
  <2>2. PICK n \in Nodes : Execute(n) \/ Finish(n)
    BY <2>1 DEF Answered
  <2>3. ~\E c \in Nodes \cup {Client} : EnterMiss(c, n)
    BY DEF EnterMiss, clientVars, Answered
  <2>4. PICK c \in Nodes \cup {Client} : \E a : Ends(n, c, a)
    BY <2>2, <2>3, EnterEnds, FinishEnds DEF Execute, UpdateInv, Heeding
  <2>5. PICK a : Ends(n, c, a)
    BY <2>4
  <2>6. /\ n = request.root /\ answer' = a
        /\ \A p \in Nodes : Executing(p) => p = n
    BY <2>5, HasAfterReturn DEF Ends, Returning, Answered, UpdateInv
  <2>7. ~Bad(a)
    BY <2>6 DEF Bad
  <2>8. \A p \in Nodes \ {n} : ~SpoiltFor(p)
    BY <2>6 DEF SpoiltFor, Has
  <2> QED
    BY <2>5, <2>6, <2>7, <2>8, EndsReached DEF UpdateInv
<1> QED
  BY <1>1, <1>2, <1>3, PTL DEF Spec, UpdatesReachParameters

=============================================================================

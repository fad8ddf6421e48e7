----------------------------- MODULE NodeCache -----------------------------
(***************************************************************************)
(* The result cache of the nodes of a forest (MEQ/src/Node.cc): execute    *)
(* answers from the cache when the request differs from the cached one in  *)
(* no field that the result depends on, and otherwise polls the children,  *)
(* computes, and decides what it and its children keep.  Beside the        *)
(* requests, commands change a node's state and clear caches at any time.  *)
(*                                                                         *)
(* A result is represented by its parts, the evaluations that went into    *)
(* it: for each node, the version of the node's own state and the fields   *)
(* of the request that it used.  A node passes the request on to its       *)
(* children as it is (the default pollChildren), children being polled in  *)
(* any order and at the same time, as by the threads of the pool.          *)
(***************************************************************************)
EXTENDS RequestId, Integers, FiniteSets

CONSTANTS
    Nodes,          \* the nodes of the forest
    Kids,           \* node -> the children it polls
    Below,          \* node -> itself and everything under it
    Deps,           \* node -> fields that its own result depends on (getDependMask)
    DynDeps,        \* node -> those of them that only getResult or a rider reports
    Outcomes,       \* node -> call -> the codes that its own computation may have
    Solvable,       \* the nodes that a request's rider updates (Parm)
    Policy,         \* node -> its cache policy
    Domains,        \* the values of the domain field
    NextDiffs,      \* the sets of fields in which the next request may differ
    Roots,          \* the nodes that the client sends requests to
    Settable,       \* the nodes whose state commands change
    Clearable,      \* the nodes whose caches commands clear
    AbortCalls, ClearCalls,   \* the requests during which these commands come
    CommandsRace,   \* is a state set while a request goes on?
    MaxState, MaxIter, MaxCalls,   \* bounds: changes of state, updates, requests
    Client, None

NEVER == 0
MINIMAL == 1
SMART == 2
ALWAYS == 3

Parents(n) == {p \in Nodes : n \in Kids[p]}

ASSUME ForestAssumption ==
    /\ Kids \in [Nodes -> SUBSET Nodes]
    /\ Below \in [Nodes -> SUBSET Nodes]
    /\ \A n \in Nodes : Below[n] = {n} \cup UNION {Below[k] : k \in Kids[n]}
    /\ \A l, m, n \in Nodes : l \in Below[m] /\ m \in Below[n] => l \in Below[n]
    /\ \A S \in SUBSET Nodes : S # {} => /\ \E n \in S : Kids[n] \cap S = {}
                                         /\ \E n \in S : \A p \in S : n \notin Kids[p]
    /\ Client \notin Nodes
    /\ None \notin Nodes \cup {Client}

ASSUME FiniteAssumption == IsFiniteSet(Nodes)

\* The fields that the forest's default symdeps name (Forest.cc).
TypeField == 1
IterField == 2
StateField == 3
DomField == 5

\* The codes of a computation, and of an answer.
OwnCodes == {"ok", "fail", "missing", "wait"}

Codes == OwnCodes \cup {"abort"}

ASSUME DependencyAssumption ==
    /\ NBits >= 6
    /\ Deps \in [Nodes -> SUBSET Fields]
    /\ \A n \in Nodes : DynDeps[n] \subseteq Deps[n]
    /\ \A n \in Nodes, c \in 1..MaxCalls : Outcomes[n][c] \subseteq OwnCodes
    /\ Policy \in [Nodes -> {NEVER, MINIMAL, SMART, ALWAYS}]

\* A rider updates parameters: leaves, whose result depends on the iteration.
ASSUME SolvableAssumption ==
    /\ Solvable \subseteq Nodes
    /\ \A n \in Solvable : Kids[n] = {} /\ IterField \in Deps[n]

ASSUME BoundsAssumption ==
    /\ Domains \subseteq Nat
    /\ NextDiffs \subseteq SUBSET Fields
    /\ AbortCalls \cup ClearCalls \subseteq Nat
    /\ Roots \cup Settable \cup Clearable \subseteq Nodes
    /\ CommandsRace \in BOOLEAN
    /\ MaxState \in Nat
    /\ MaxIter \in Nat
    /\ MaxCalls \in Nat

\* A request has numbers in its fields, and is not mistaken for none.
ASSUME NoneAssumption ==
    \A D, E \in SUBSET Fields :
        None \notin [root : Nodes, id : [D -> Nat], next : [E -> Nat], update : BOOLEAN]

\* Request types: the values of the type field (ev, e1, pu).
EV == 1
E1 == 2
PU == 3

EvalMode(id) ==
    CASE Field(id, TypeField) \in {0, EV} -> 0
      [] Field(id, TypeField) = E1 -> 1
      [] OTHER -> -1

(***************************************************************************)
(* Answers: a code, the fields it depends on, its parts, and whether the   *)
(* failure of a rider is behind it.                                        *)
(***************************************************************************)
Answer(code, deps, parts, lost) ==
    [code |-> code, deps |-> deps, parts |-> parts, lost |-> lost]

NoAnswer == Answer("none", {}, {}, FALSE)

Seen(n, id) == [f \in Deps[n] \cup {TypeField} |-> Field(id, f)]

Part(n, version, id) == [node |-> n, version |-> version, seen |-> Seen(n, id)]

(* Derivatives stripped off: the part as an EV request would have made it. *)
Stripped(parts, id) ==
    {[x EXCEPT !.seen[TypeField] = Field(id, TypeField)] : x \in parts}

VARIABLES
    cache,      \* node -> [valid, id, answer]: cache_
    stateDep,   \* node -> has_state_dep_
    ignoring,   \* node -> cache_.ignore_parent_releases_
    hints,      \* node -> [nhint, nhold]: pcparents_
    lastId,     \* node -> current_reqid_
    version,    \* node -> how many times its state or value was changed
    caller,     \* node -> the parent it executes for, Client, or None
    pending,    \* node -> the children that have yet to answer
    got,        \* node -> child -> the child's answer (child_results_)
    ridden,     \* the nodes whose present execution processed the rider
    request,    \* the request under way: [root, id, next, update], or None
    calls,      \* how many requests were issued
    solving,    \* was the last request one for derivatives?
    answer,     \* what the client was last answered
    aborting,   \* the forest's abort flag
    clearing,   \* nodes that a Clear.Cache command has yet to reach
    stateId,    \* the state field of the requests of the sequencer
    iteration,  \* the iteration field of the requests of the solver
    applied,    \* node -> riders processed during this request
    computed    \* node -> results it came to during this request, since a clear

nodeVars == <<cache, stateDep, ignoring, hints, lastId>>
pollVars == <<caller, pending, got, ridden>>
clientVars == <<request, calls, solving, answer, aborting, stateId, iteration>>
countVars == <<applied, computed>>
vars == <<nodeVars, version, pollVars, clientVars, clearing, countVars>>

NoHints == [nhint |-> 0, nhold |-> 0]
NoAnswers == [n \in Nodes |-> [k \in Kids[n] |-> NoAnswer]]

Init ==
    /\ cache = [n \in Nodes |-> [valid |-> FALSE, id |-> <<>>, answer |-> NoAnswer]]
    /\ stateDep = [n \in Nodes |-> FALSE]
    /\ ignoring = [n \in Nodes |-> FALSE]
    /\ hints = [n \in Nodes |-> NoHints]
    /\ lastId = [n \in Nodes |-> <<>>]
    /\ version = [n \in Nodes |-> 0]
    /\ caller = [n \in Nodes |-> None]
    /\ pending = [n \in Nodes |-> {}]
    /\ got = NoAnswers
    /\ ridden = {}
    /\ request = None
    /\ calls = 0
    /\ solving = FALSE
    /\ answer = NoAnswer
    /\ aborting = FALSE
    /\ clearing = {}
    /\ stateId = 0
    /\ iteration = 0
    /\ applied = [n \in Nodes |-> 0]
    /\ computed = [n \in Nodes |-> 0]

Executing(n) == caller[n] # None

(***************************************************************************)
(* getCachedResult.                                                        *)
(***************************************************************************)
\* Mutant: without the state dependency that setState left.
CachedDepsOnly(n) == cache[n].answer.deps

CachedDeps(n) ==
    cache[n].answer.deps \cup (IF stateDep[n] THEN {StateField} ELSE {})

Comparable(n, id) == cache[n].valid /\ id # <<>> /\ cache[n].id # <<>>

(* An update does not concern a result that does not depend on iteration.  *)
UpdateIgnored(n, id) ==
    /\ Comparable(n, id)
    /\ Field(id, TypeField) = PU
    /\ IterField \notin CachedDeps(n)

SameForUs(n, id) == DiffMask(id, cache[n].id) \cap CachedDeps(n) = {}

(* Only the type differs, and the cached result has derivatives to strip.  *)
SameButDerivatives(n, id) ==
    /\ DiffMask(id, cache[n].id) \cap CachedDeps(n) = {TypeField}
    /\ EvalMode(id) = 0
    /\ EvalMode(cache[n].id) > 0

Hit(n, id) ==
    /\ Comparable(n, id)
    /\ ~UpdateIgnored(n, id)
    /\ SameForUs(n, id) \/ SameButDerivatives(n, id)

CachedAnswer(n, id) ==
    LET a == cache[n].answer
    IN  [a EXCEPT !.deps = CachedDeps(n),
                  !.parts = IF SameForUs(n, id) THEN @ ELSE Stripped(@, id)]

\* Mutant: current_reqid_ is not looked at.
IsNewRequestAlways(n, id) == TRUE

IsNewRequest(n, id) == id = <<>> \/ id # lastId[n]

(***************************************************************************)
(* What a result that has been computed leaves behind: cacheResult,        *)
(* holdChildCaches and holdCache.                                          *)
(***************************************************************************)
NumParents(n) == Cardinality(Parents(n))

LongCache(n, a, diff) ==
    \/ a.code = "fail"
    \/ Policy[n] = ALWAYS
    \/ Policy[n] = SMART /\ diff \cap a.deps = {}

ShouldCache(n, a, diff) ==
    LongCache(n, a, diff) \/ (Policy[n] # NEVER /\ NumParents(n) > 1)

(* holdCache of a child: the hints counted so far, and the release of its  *)
(* cache once every parent has given one and none asked to hold it.        *)
\* Mutant: a release is counted against the holds.
HintedBelow(k, hold) ==
    [nhint |-> hints[k].nhint + 1, nhold |-> hints[k].nhold + (IF hold THEN 1 ELSE -1)]

Hinted(k, hold) ==
    [nhint |-> hints[k].nhint + 1, nhold |-> hints[k].nhold + (IF hold THEN 1 ELSE 0)]

\* Mutant: one hint short of all the parents.
ReleasesEarly(k, h) ==
    /\ ~ignoring[k]
    /\ DomField \in cache[k].answer.deps
    /\ Policy[k] # ALWAYS
    /\ h.nhint >= NumParents(k) - 1
    /\ Policy[k] \in {NEVER, MINIMAL} \/ h.nhold = 0

Releases(k, h) ==
    /\ ~ignoring[k]
    /\ DomField \in cache[k].answer.deps
    /\ Policy[k] # ALWAYS
    /\ h.nhint >= NumParents(k)
    /\ Policy[k] \in {NEVER, MINIMAL} \/ h.nhold = 0

(* cacheResult with the answer computed for request r; the dependency on   *)
(* the type is added to every answer that is kept or returned.             *)
Typed(a) == [a EXCEPT !.deps = @ \cup {TypeField}]

CacheResult(n, r, a) ==
    LET diff == DiffMask(r.id, r.next)
        keep == ShouldCache(n, Typed(a), diff)
        hold(k) == ~LongCache(n, Typed(a), diff) /\ got[n][k].deps \cap diff = {}
        after == [m \in Nodes |-> CASE m = n -> NoHints
                                    [] m \in Kids[n] -> Hinted(m, hold(m))
                                    [] OTHER -> hints[m]]
    IN  /\ hints' = after
        /\ cache' = [m \in Nodes |->
               CASE m = n ->
                      IF keep THEN [valid |-> TRUE, id |-> r.id, answer |-> Typed(a)]
                              ELSE [cache[m] EXCEPT !.valid = FALSE]
                 [] m \in Kids[n] /\ Releases(m, after[m]) ->
                      [cache[m] EXCEPT !.valid = FALSE]
                 [] OTHER -> cache[m]]
        /\ stateDep' = [stateDep EXCEPT ![n] = FALSE]
        /\ ignoring' = [ignoring EXCEPT ![n] = FALSE]
        /\ computed' = [computed EXCEPT ![n] = @ + 1]

(***************************************************************************)
(* execute.  A caller that waits for n enters it when n is not executing   *)
(* for another (executing_ and execCond); an answer goes to the caller.    *)
(***************************************************************************)
Calls(c, n) ==
    /\ request # None
    /\ ~Executing(n)
    /\ \/ c = Client /\ n = request.root
       \/ c \in Nodes /\ n \in pending[c]

Return(n, c, a) ==
    IF c = Client
    THEN /\ answer' = a
         /\ request' = None
         /\ aborting' = FALSE
         /\ got' = [got EXCEPT ![n] = NoAnswers[n]]
         /\ pending' = [pending EXCEPT ![n] = {}]
    ELSE /\ got' = [got EXCEPT ![n] = NoAnswers[n], ![c][n] = a]
         /\ pending' = [pending EXCEPT ![n] = {}, ![c] = @ \ {n}]
         /\ UNCHANGED <<answer, request, aborting>>

(* exitAbort on entry: nothing of the node is touched. *)
EnterAborted(c, n) ==
    /\ Calls(c, n)
    /\ aborting
    /\ Return(n, c, Answer("abort", {}, {}, FALSE))
    /\ UNCHANGED <<nodeVars, version, caller, ridden, calls, solving, stateId, iteration,
                   clearing, countVars>>

(* The answer comes from the cache; for a request that is new to the node  *)
(* the hints of its parents start again.                                   *)
EnterHit(c, n) ==
    /\ Calls(c, n)
    /\ ~aborting
    /\ Hit(n, request.id)
    /\ cache' = [cache EXCEPT ![n].answer.deps = CachedDeps(n)]
    /\ hints' = IF IsNewRequest(n, request.id)
                THEN [hints EXCEPT ![n] = NoHints] ELSE hints
    /\ Return(n, c, CachedAnswer(n, request.id))
    /\ UNCHANGED <<stateDep, ignoring, lastId, version, caller, ridden,
                   calls, solving, stateId, iteration, clearing, countVars>>

(* An update that the cached result does not depend on: an empty result,   *)
(* with a return code of 0, and the cache is shielded from the parents.    *)
EnterIgnoringUpdate(c, n) ==
    /\ Calls(c, n)
    /\ ~aborting
    /\ UpdateIgnored(n, request.id)
    /\ cache' = [cache EXCEPT ![n].answer.deps = CachedDeps(n)]
    /\ ignoring' = [ignoring EXCEPT ![n] = TRUE]
    /\ Return(n, c, Answer("ok", {}, {}, cache[n].answer.lost))
    /\ UNCHANGED <<stateDep, hints, lastId, version, caller, ridden,
                   calls, solving, stateId, iteration, clearing, countVars>>

Misses(c, n) ==
    /\ Calls(c, n)
    /\ ~aborting
    /\ ~Hit(n, request.id)
    /\ ~UpdateIgnored(n, request.id)

\* Mutant: only an update without evaluation has its rider processed.
CarriesUpdateAlone(n) == /\ request.update
                         /\ Field(request.id, TypeField) = PU
                         /\ n \in Solvable
                         /\ IsNewRequest(n, request.id)

CarriesUpdate(n) == request.update /\ n \in Solvable /\ IsNewRequest(n, request.id)

(* The cache is cleared and the children are polled; if the request is new *)
(* to the node, its rider is processed first.                              *)
EnterMiss(c, n) ==
    /\ Misses(c, n)
    /\ cache' = [cache EXCEPT ![n].valid = FALSE]
    /\ stateDep' = [stateDep EXCEPT ![n] = FALSE]
    /\ lastId' = [lastId EXCEPT ![n] = request.id]
    /\ caller' = [caller EXCEPT ![n] = c]
    /\ pending' = [pending EXCEPT ![n] = Kids[n]]
    /\ IF CarriesUpdate(n)
       THEN /\ ridden' = ridden \cup {n}
            /\ version' = [version EXCEPT ![n] = @ + 1]
            /\ applied' = [applied EXCEPT ![n] = @ + 1]
       ELSE UNCHANGED <<ridden, version, applied>>
    /\ UNCHANGED <<ignoring, hints, got, clientVars, clearing, computed>>

(* A rider that the node cannot process throws: a fail is cached, with the *)
(* return code as it was before the rider, and returned.                   *)
EnterRiderFails(c, n) ==
    /\ Misses(c, n)
    /\ CarriesUpdate(n)
    /\ lastId' = [lastId EXCEPT ![n] = request.id]
    /\ CacheResult(n, request, Answer("fail", {}, {}, TRUE))
    /\ Return(n, c, Typed(Answer("fail", {}, {}, TRUE)))
    /\ UNCHANGED <<version, caller, ridden, calls, solving, stateId, iteration, clearing, applied>>

KidAnswers(n) == {got[n][k] : k \in Kids[n]}

KidCodes(n) == {a.code : a \in KidAnswers(n)}

KidDeps(n) == UNION {a.deps : a \in KidAnswers(n)}

KidParts(n) == UNION {a.parts : a \in KidAnswers(n)}

Lost(n) == \E a \in KidAnswers(n) : a.lost

(* A node whose execution ends is no longer executing, and returns. *)
Leave(n) ==
    /\ caller' = [caller EXCEPT ![n] = None]
    /\ ridden' = ridden \ {n}

Polled(n) == Executing(n) /\ pending[n] = {}

(* exitAbort after the poll, and the wait of a child: nothing is cached. *)
FinishUncached(n, code) ==
    /\ Polled(n)
    /\ \/ aborting /\ code = "abort"
       \/ ~aborting /\ "wait" \in KidCodes(n) /\ code = "wait"
    /\ Leave(n)
    /\ Return(n, caller[n], Answer(code, {}, {}, FALSE))
    /\ UNCHANGED <<nodeVars, version, calls, solving, stateId, iteration, clearing, countVars>>

(* A child that failed or has no data decides the result: the node's own   *)
(* dependencies are not added.                                             *)
FinishAsChild(n) ==
    /\ Polled(n)
    /\ ~aborting
    /\ "wait" \notin KidCodes(n)
    /\ KidCodes(n) \cap {"fail", "missing"} # {}
    /\ LET a == Answer(IF "fail" \in KidCodes(n) THEN "fail" ELSE "missing",
                       KidDeps(n), KidParts(n), Lost(n))
       IN  /\ CacheResult(n, request, a)
           /\ Return(n, caller[n], Typed(a))
    /\ Leave(n)
    /\ UNCHANGED <<lastId, version, calls, solving, stateId, iteration, clearing, applied>>

(* The dependencies that the node adds: those that only getResult reports  *)
(* are missing when there was neither an evaluation nor a rider.           *)
OwnDeps(n) ==
    IF Field(request.id, TypeField) = PU /\ n \notin ridden
    THEN Deps[n] \ DynDeps[n]
    ELSE Deps[n]

(* A result of its own.  An update request has no cells: an empty result.  *)
FinishComputed(n, code) ==
    /\ Polled(n)
    /\ ~aborting
    /\ KidCodes(n) \subseteq {"ok"}
    /\ code \in (IF Field(request.id, TypeField) = PU THEN {"ok"} ELSE Outcomes[n][calls])
    /\ IF code = "wait"
       THEN /\ Return(n, caller[n], Answer("wait", {}, {}, FALSE))
            /\ UNCHANGED <<cache, stateDep, ignoring, hints, computed>>
       ELSE LET parts == IF Field(request.id, TypeField) = PU THEN {}
                         ELSE KidParts(n) \cup {Part(n, version[n], request.id)}
                a == Answer(code, KidDeps(n) \cup OwnDeps(n), parts, Lost(n))
            IN  /\ CacheResult(n, request, a)
                /\ Return(n, caller[n], Typed(a))
    /\ Leave(n)
    /\ UNCHANGED <<lastId, version, calls, solving, stateId, iteration, clearing, applied>>

(***************************************************************************)
(* Commands, which need no request to be under way.                        *)
(***************************************************************************)

(* propagateStateDependency: up the tree, stopping at nodes already marked. *)
Marking(n, T) ==
    /\ ~stateDep[n] => n \in T
    /\ \A m \in T, p \in Nodes : m \in Kids[p] /\ ~stateDep[p] => p \in T

Marked(n) == {m \in Nodes : \A T \in SUBSET Nodes : Marking(n, T) => m \in T}

(* setState takes the state mutex, which an execution holds except while   *)
(* it polls.  The sequencer's next request has another state id.           *)
SetState(n) ==
    /\ stateId < MaxState
    /\ Executing(n) => pending[n] # {}
    /\ CommandsRace \/ request = None
    /\ version' = [version EXCEPT ![n] = @ + 1]
    /\ stateDep' = [m \in Nodes |-> stateDep[m] \/ m \in Marked(n)]
    /\ stateId' = stateId + 1
    /\ UNCHANGED <<cache, ignoring, hints, lastId, pollVars, request, calls,
                   solving, answer, aborting, iteration, clearing, countVars>>

(* The Clear.Cache command; the recursive one takes each node under n in   *)
(* turn, while executions go on.                                           *)
ClearCommand(n, recursive) ==
    /\ clearing = {}
    /\ calls \in ClearCalls
    /\ clearing' = IF recursive THEN Below[n] ELSE {n}
    /\ UNCHANGED <<nodeVars, version, pollVars, clientVars, countVars>>

ClearCache(n) ==
    /\ n \in clearing
    /\ clearing' = clearing \ {n}
    /\ cache' = [cache EXCEPT ![n].valid = FALSE]
    /\ computed' = [computed EXCEPT ![n] = 0]
    /\ UNCHANGED <<stateDep, ignoring, hints, lastId, version, pollVars,
                   clientVars, applied>>

RaiseAbortFlag ==
    /\ request # None
    /\ calls \in AbortCalls
    /\ ~aborting
    /\ aborting' = TRUE
    /\ UNCHANGED <<nodeVars, version, pollVars, request, calls, solving,
                   answer, stateId, iteration, clearing, countVars>>

(***************************************************************************)
(* The client of the forest: requests one at a time, each with the state   *)
(* id of the sequencer; an update moves on to the next iteration, and an   *)
(* update without evaluation is the last one after those with derivatives, *)
(* unless they were aborted (Solver).                                      *)
(***************************************************************************)
NewId(type, iter, dom) ==
    SetSubId(SetSubId(SetSubId(SetSubId(<<>>, {TypeField}, type),
             {IterField}, iter), {StateField}, stateId), {DomField}, dom)

Issue(root, type, dom, update) ==
    LET iter == IF update THEN iteration + 1 ELSE iteration
        id == NewId(type, iter, dom)
    IN  /\ request = None
        /\ calls < MaxCalls
        /\ calls' = calls + 1
        /\ update => type \in {E1, PU}
        /\ type = PU => update /\ solving /\ answer.code # "abort"
        /\ solving' = (type = E1)
        /\ iter <= MaxIter
        /\ \E diff \in NextDiffs :
              request' = [root |-> root, id |-> id, next |-> IncrSubId(id, diff),
                          update |-> update]
        /\ iteration' = iter
        /\ answer' = NoAnswer
        /\ applied' = [n \in Nodes |-> 0]
        /\ computed' = [n \in Nodes |-> 0]
        /\ UNCHANGED <<nodeVars, version, pollVars, aborting, stateId, clearing>>

Execute(n) ==
    \E c \in Nodes \cup {Client} :
        \/ EnterAborted(c, n)
        \/ EnterHit(c, n)
        \/ EnterIgnoringUpdate(c, n)
        \/ EnterMiss(c, n)
        \/ EnterRiderFails(c, n)

Finish(n) ==
    \/ \E code \in Codes : FinishUncached(n, code)
    \/ FinishAsChild(n)
    \/ \E code \in OwnCodes : FinishComputed(n, code)

Command(n) ==
    \/ n \in Settable /\ SetState(n)
    \/ n \in Clearable /\ \E recursive \in BOOLEAN : ClearCommand(n, recursive)
    \/ ClearCache(n)

Next ==
    \/ \E n \in Nodes : Execute(n) \/ Finish(n) \/ Command(n)
    \/ RaiseAbortFlag
    \/ \E root \in Roots, type \in {EV, E1, PU}, dom \in Domains, update \in BOOLEAN :
          Issue(root, type, dom, update)

Spec == Init /\ [][Next]_vars

(***************************************************************************)
(* Properties.                                                             *)
(***************************************************************************)
IsAnswer(a) ==
    /\ DOMAIN a = {"code", "deps", "parts", "lost"}
    /\ a.code \in Codes \cup {"none"}
    /\ a.deps \subseteq Fields
    /\ a.lost \in BOOLEAN
    /\ \A x \in a.parts : /\ DOMAIN x = {"node", "version", "seen"}
                          /\ x.node \in Nodes
                          /\ x.version \in Nat
                          /\ DOMAIN x.seen = Deps[x.node] \cup {TypeField}

(* The variables hold what the code keeps in them. *)
TypeOK ==
    /\ DOMAIN cache = Nodes
    /\ \A n \in Nodes : /\ DOMAIN cache[n] = {"valid", "id", "answer"}
                        /\ cache[n].valid \in BOOLEAN
                        /\ IsId(cache[n].id)
                        /\ IsAnswer(cache[n].answer)
    /\ stateDep \in [Nodes -> BOOLEAN]
    /\ ignoring \in [Nodes -> BOOLEAN]
    /\ hints \in [Nodes -> [nhint : Nat, nhold : Nat]]
    /\ DOMAIN lastId = Nodes
    /\ version \in [Nodes -> Nat]
    /\ caller \in [Nodes -> Nodes \cup {Client, None}]
    /\ pending \in [Nodes -> SUBSET Nodes]
    /\ DOMAIN got = Nodes
    /\ \A n \in Nodes : /\ DOMAIN got[n] = Kids[n]
                        /\ \A k \in Kids[n] : IsAnswer(got[n][k])
    /\ ridden \subseteq Solvable
    /\ request # None => /\ DOMAIN request = {"root", "id", "next", "update"}
                         /\ request.root \in Nodes
                         /\ IsId(request.id)
                         /\ IsId(request.next)
                         /\ request.update \in BOOLEAN
    /\ IsAnswer(answer)
    /\ aborting \in BOOLEAN
    /\ clearing \subseteq Nodes
    /\ calls \in Nat
    /\ solving \in BOOLEAN
    /\ stateId \in Nat
    /\ iteration \in Nat
    /\ applied \in [Nodes -> Nat]
    /\ computed \in [Nodes -> Nat]

(* An answer to request id as a forest without caches would give it. *)
Fresh(a, id) ==
    \A x \in a.parts : x.version = version[x.node] /\ x.seen = Seen(x.node, id)

Answered == request # None /\ request' = None

(* Whatever the caches served, every evaluation behind an answer is one    *)
(* of the node's present state for the fields of this very request, and a  *)
(* good answer has an evaluation of every node - unless a state was set    *)
(* after the request was issued (getCachedResult,                          *)
(* propagateStateDependency).                                              *)
AnswersAreFresh ==
    [][Answered /\ Field(request.id, StateField) = stateId =>
          /\ Fresh(answer', request.id)
          /\ answer'.code = "ok" /\ Field(request.id, TypeField) # PU =>
                {x.node : x \in answer'.parts} = Below[request.root]]_vars

(* The rider of an update is processed at most once by a parameter, by     *)
(* however many parents the request reaches it.                            *)
UpdatedOnce == \A n \in Nodes : applied[n] <= 1

(* An update that is answered without a failed rider has reached every     *)
(* parameter under the node: no cache on the way has kept it back.         *)
UpdatesReachParameters ==
    [][Answered /\ request.update /\ answer'.code \in {"ok", "missing", "fail"} /\ ~answer'.lost =>
          \A n \in Solvable \cap Below[request.root] : applied[n] = 1]_vars

(* A node with several parents that keeps its result for them computes it  *)
(* once per request: the hints of the parents never release it before the  *)
(* last of them has its answer (holdCache).                                *)
SharedNodeComputesOnce ==
    \A n \in Nodes : NumParents(n) > 1 /\ Policy[n] # NEVER => computed[n] <= 1

============================================================================

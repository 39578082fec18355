------------------------- MODULE ConfigAuthorityProofs -------------------------
(***************************************************************************)
(* Theorems about configuration documents, for any documents, handlers,    *)
(* bounds and faults.                                                      *)
(***************************************************************************)
EXTENDS ConfigAuthority, TLAPS

\* The documents are numbered from 1, and there is one.
LEMMA KindsFacts ==
    /\ DOMAIN Kinds = 1..Len(Kinds)
    /\ Len(Kinds) \in Nat \ {0}
    /\ 1 \in DOMAIN Kinds
    /\ \A n \in DOMAIN Kinds : Kinds[n] \in Kind
    /\ \A k \in Kind : \E n \in DOMAIN Kinds : k = Kinds[n]
  BY ConfigAuthorityAssumption DEF Kind

\* Neither a half-written file nor a missing one is a document.
LEMMA DocFacts ==
    /\ First \in Doc
    /\ Torn \notin Doc /\ None \notin Doc /\ None # Torn
    /\ \A d \in Doc \cup {Torn} : Valid(d) => d \in Doc
  BY ConfigAuthorityAssumption DEF Doc, First, Torn, Valid

\* A thread that has nothing to do, or has just been started.
LEMMA RestingFacts ==
    /\ Resting \in Job /\ Start \in Job
    /\ [Resting EXCEPT !.step = "load"] \in Job
  BY KindsFacts DEF Resting, Start, Job, NoDocs

\* A job with one more document fetched.
LEMMA FetchedFacts ==
    ASSUME NEW j \in Job, NEW k \in Kind, NEW d \in Doc
    PROVE  /\ [j EXCEPT !.got[k] = d] \in Job
           /\ [j EXCEPT !.got[k] = d].got = [j.got EXCEPT ![k] = d]
           /\ [j EXCEPT !.got[k] = d].step = j.step
           /\ [j EXCEPT !.got[k] = d].i = j.i
<1>1. j.got \in [Kind -> Doc \cup {None}]
  BY DEF Job
<1>2. [j.got EXCEPT ![k] = d] \in [Kind -> Doc \cup {None}]
  BY <1>1
<1>3. [j EXCEPT !.got[k] = d] = [j EXCEPT !.got = [j.got EXCEPT ![k] = d]]
  OBVIOUS
<1>4. ASSUME NEW g \in [Kind -> Doc \cup {None}]
      PROVE  /\ [j EXCEPT !.got = g] \in Job
             /\ [j EXCEPT !.got = g].got = g
             /\ [j EXCEPT !.got = g].step = j.step
             /\ [j EXCEPT !.got = g].i = j.i
  BY DEF Job
<1> QED
  BY <1>2, <1>3, <1>4

\* The next document of a stage, or the first one of the next stage.
LEMMA OnwardFacts ==
    ASSUME NEW t \in Threads, job[t] \in Job,
           NEW same \in {"fetch", "open", "load"}, NEW next \in {"open", "load"}
    PROVE  /\ Onward(t, same, next) \in Job
           /\ Onward(t, same, next).got = job[t].got
           /\ Onward(t, same, next).fd = job[t].fd
           /\ \/ /\ job[t].i = Len(Kinds)
                 /\ Onward(t, same, next).step = next /\ Onward(t, same, next).i = 1
              \/ /\ job[t].i # Len(Kinds)
                 /\ Onward(t, same, next).step = same /\ Onward(t, same, next).i = job[t].i + 1
<1>0. job[t].i \in DOMAIN Kinds /\ job[t].i \in 1..Len(Kinds) /\ job[t].i \in Nat
  BY KindsFacts DEF Job
<1>1. CASE Last(t)
  <2>1. Onward(t, same, next) = [job[t] EXCEPT !.step = next, !.i = 1]
    BY <1>1 DEF Onward
  <2>2. job[t].i = Len(Kinds)
    BY <1>1 DEF Last
  <2> QED
    BY <2>1, <2>2, KindsFacts DEF Job
<1>2. CASE ~Last(t)
  <2>1. Onward(t, same, next) = [job[t] EXCEPT !.step = same, !.i = @ + 1]
    BY <1>2 DEF Onward
  <2>2. job[t].i # Len(Kinds) /\ job[t].i + 1 \in DOMAIN Kinds
    BY <1>0, <1>2, KindsFacts DEF Last
  <2> QED
    BY <2>1, <2>2 DEF Job
<1> QED
  BY <1>1, <1>2

--------------------------------------------------------------------------------
(* Type correctness *)

\* How far a job has come, given a cache: every document is fetched before one
\* is written, and every document is cached before one is loaded.
Ordered(j, c) ==
    /\ j.step = "fetch" => \A n \in 1..(j.i - 1) : j.got[Kinds[n]] \in Doc
    /\ j.step \in {"open", "write", "replace"}
        => /\ \A k \in Kind : j.got[k] \in Doc
           /\ \A n \in 1..(j.i - 1) : c[Kinds[n]] # None
    /\ j.step = "load" => \A k \in Kind : c[k] # None

PullOrder ==
    /\ up => AllCached
    /\ \A t \in Threads : Ordered(job[t], cache)

\* The documents of a stage that precede the current one.
LEMMA EarlierKinds ==
    ASSUME NEW j \in Job
    PROVE  \A n \in 1..(j.i - 1) : Kinds[n] \in Kind
<1>1. j.i \in 1..Len(Kinds)
  BY KindsFacts DEF Job
<1>2. ASSUME NEW n \in 1..(j.i - 1) PROVE n \in DOMAIN Kinds
  BY <1>1, KindsFacts
<1> QED
  BY <1>2, KindsFacts

\* A cached document stays cached, so what holds of a job with one cache holds
\* with a fuller one.
LEMMA Fuller ==
    ASSUME NEW j \in Job, NEW c, NEW d, Ordered(j, c),
           \A k \in Kind : c[k] # None => d[k] # None
    PROVE  Ordered(j, d)
  BY EarlierKinds DEF Ordered

\* A job at rest or just started has no order to keep.
LEMMA OrderedRest ==
    ASSUME NEW c
    PROVE  /\ Ordered(Resting, c) /\ Ordered(Start, c)
           /\ (\A k \in Kind : c[k] # None) => Ordered([Resting EXCEPT !.step = "load"], c)
<1>1. Start.step = "fetch" /\ 1..(Start.i - 1) = {}
  BY DEF Start, Resting
<1>2. Resting.step = "idle" /\ [Resting EXCEPT !.step = "load"].step = "load"
  BY DEF Resting
<1>3. Ordered(Start, c)
  BY <1>1 DEF Ordered
<1>4. Ordered(Resting, c)
  BY <1>2 DEF Ordered
<1> QED
  BY <1>2, <1>3, <1>4 DEF Ordered

\* The part of the type invariant an action on core can disturb, and the rest.
CoreTypeOK ==
    /\ file \in [Kind -> Doc]
    /\ live \in [Kind -> Doc]
    /\ coreUp \in BOOLEAN
    /\ put \in [Requests -> [step : {"idle", "validated", "persisted", "committed"},
                             kind : Kind, doc : Doc]]
    /\ versions \in 0..MaxPut

\* Core's part of the type invariant holds initially and is preserved.
LEMMA CoreTypes ==
    /\ Init => CoreTypeOK
    /\ CoreTypeOK /\ [Next]_vars => CoreTypeOK'
<1>1. Init => CoreTypeOK
  BY DocFacts, KindsFacts, ConfigAuthorityAssumption DEF Init, CoreTypeOK, NoPut
<1>2. ASSUME CoreTypeOK, [Next]_vars PROVE CoreTypeOK'
  <2> USE <1>2 DEF CoreTypeOK
  <2>1. ASSUME NEW r \in Requests, PutValidate(r) PROVE CoreTypeOK'
    <3>1. PICK k \in Kind, f \in Flaws :
            put' = [put EXCEPT ![r] = [step |-> "validated", kind |-> k,
                                       doc |-> [ver |-> versions + 1, flaw |-> f]]]
      BY <2>1 DEF PutValidate
    <3>2. [ver |-> versions + 1, flaw |-> f] \in Doc /\ versions + 1 \in 0..MaxPut
      BY <2>1, ConfigAuthorityAssumption DEF PutValidate, Doc
    <3> QED
      BY <2>1, <3>1, <3>2 DEF PutValidate
  <2>2. ASSUME NEW r \in Requests, PutPersist(r) PROVE CoreTypeOK'
    BY <2>2 DEF PutPersist
  <2>3. ASSUME NEW r \in Requests, PutSwap(r) PROVE CoreTypeOK'
    <3>1. NoPut \in [step : {"idle", "validated", "persisted", "committed"}, kind : Kind, doc : Doc]
      BY DocFacts, KindsFacts DEF NoPut
    <3> QED
      BY <2>3, <3>1 DEF PutSwap, Swap
  <2>4. ASSUME NEW r \in Requests, PutEmit(r) PROVE CoreTypeOK'
    <3>1. NoPut \in [step : {"idle", "validated", "persisted", "committed"}, kind : Kind, doc : Doc]
      BY DocFacts, KindsFacts DEF NoPut
    <3> QED
      BY <2>4, <3>1 DEF PutEmit
  <2>5. CASE CoreCrash
    BY <2>5, DocFacts, KindsFacts DEF CoreCrash, NoPut
  <2>6. CASE CoreStart
    BY <2>6 DEF CoreStart
  <2>7. CASE UNCHANGED core
    BY <2>7 DEF core
  <2>8. Boot \/ OnSignal \/ Backstop \/ ControllerCrash \/ SessionLost => UNCHANGED core
    BY DEF Boot, OnSignal, Backstop, ControllerCrash, SessionLost, core
  <2>9. ASSUME NEW t \in Threads, PullStep(t) PROVE UNCHANGED core
    BY <2>9 DEF PullStep, Fetch, FetchFails, OpenTmp, WriteTmp, ReplaceTmp, Load, core
  <2> QED
    BY <2>1, <2>2, <2>3, <2>4, <2>5, <2>6, <2>7, <2>8, <2>9 DEF Next, PutStep, vars, core
<1> QED
  BY <1>1, <1>2

\* The controller's part of the type invariant.
ControllerTypeOK ==
    /\ cache \in [Kind -> Doc \cup {Torn, None}]
    /\ tmp \in [Kind -> Doc \cup {Torn, None}]
    /\ conf \in [Kind -> Doc \cup {None}]
    /\ up \in BOOLEAN
    /\ job \in [Threads -> Job]

\* A step of a pull preserves it: what is loaded is a document.
LEMMA PullTypes ==
    ASSUME NEW t \in Threads, PullStep(t), file \in [Kind -> Doc], ControllerTypeOK, PullOrder
    PROVE  ControllerTypeOK'
<1> USE DEF ControllerTypeOK
<1>0. job[t] \in Job /\ KindOf(t) \in Kind /\ job[t].got[KindOf(t)] \in Doc \cup {None}
  BY KindsFacts DEF KindOf, Job
<1>1. CASE Fetch(t)
  <2>1. [Onward(t, "fetch", "open") EXCEPT !.got[KindOf(t)] = file[KindOf(t)]] \in Job
    <3>1. Onward(t, "fetch", "open") \in Job /\ file[KindOf(t)] \in Doc
      BY <1>0, OnwardFacts
    <3> QED
      BY <1>0, <3>1, FetchedFacts
  <2> QED
    BY <1>1, <2>1 DEF Fetch
<1>2. CASE FetchFails(t)
  BY <1>2, RestingFacts DEF FetchFails
<1>3. CASE OpenTmp(t)
  <2>1. [job[t] EXCEPT !.step = "write", !.fd = "tmp"] \in Job
    BY <1>0 DEF Job
  <2>2. job' = [job EXCEPT ![t] = [job[t] EXCEPT !.step = "write", !.fd = "tmp"]]
    BY <1>3 DEF OpenTmp
  <2> QED
    BY <1>0, <1>3, <2>1, <2>2 DEF OpenTmp
<1>4. CASE WriteTmp(t)
  <2>1. [job[t] EXCEPT !.step = "replace", !.fd = None] \in Job
    BY <1>0 DEF Job
  <2>2. job' = [job EXCEPT ![t] = [job[t] EXCEPT !.step = "replace", !.fd = None]]
    BY <1>4 DEF WriteTmp
  <2>3. \A old : Over(old, job[t].got[KindOf(t)]) \subseteq Doc \cup {Torn, None}
    BY <1>0 DEF Over
  <2>4. cache' \in [Kind -> Doc \cup {Torn, None}] /\ tmp' \in [Kind -> Doc \cup {Torn, None}]
    BY <1>0, <1>4, <2>3 DEF WriteTmp
  <2> QED
    BY <1>4, <2>1, <2>2, <2>4 DEF WriteTmp
<1>5. CASE ReplaceTmp(t)
  <2>1. ASSUME NEW u \in Threads PROVE [job[u] EXCEPT !.fd = Moved(@)] \in Job
    BY DEF Job, Moved
  <2>2. Resting \in Job /\ Onward(t, "open", "load") \in Job
    BY <1>0, RestingFacts, OnwardFacts
  <2>3. job' \in [Threads -> Job]
    BY <1>5, <2>1, <2>2 DEF ReplaceTmp
  <2> QED
    BY <1>0, <1>5, <2>3 DEF ReplaceTmp
<1>6. CASE Load(t)
  <2>1. cache[KindOf(t)] # None
    BY <1>0, <1>6 DEF Load, PullOrder, Ordered, At
  <2>2. Loads(cache[KindOf(t)], "controller") => cache[KindOf(t)] \in Doc
    BY <1>0, <2>1, DocFacts DEF Loads
  <2>3. Resting \in Job /\ Onward(t, "load", "load") \in Job
    BY <1>0, RestingFacts, OnwardFacts
  <2>4. NoDocs \in [Kind -> Doc \cup {None}]
    BY DEF NoDocs
  <2> QED
    BY <1>0, <1>6, <2>2, <2>3, <2>4 DEF Load
<1> QED
  BY <1>1, <1>2, <1>3, <1>4, <1>5, <1>6 DEF PullStep

\* A step of a pull keeps the order: of its own job, and of the others, whose
\* files it may move but not take away.
LEMMA PullKeepsOrder ==
    ASSUME NEW t \in Threads, PullStep(t), file \in [Kind -> Doc], ControllerTypeOK, PullOrder
    PROVE  PullOrder'
<1> USE DEF ControllerTypeOK
<1>0. job[t] \in Job /\ KindOf(t) \in Kind /\ Ordered(job[t], cache)
      /\ job[t].i \in 1..Len(Kinds) /\ KindOf(t) = Kinds[job[t].i]
  BY KindsFacts DEF KindOf, Job, PullOrder
<1>a. \A k \in Kind : \E n \in 1..Len(Kinds) : k = Kinds[n]
  BY KindsFacts
\* It is enough that cached documents stay cached, and that the own job is in order.
<1>b. ASSUME \A k \in Kind : cache[k] # None => cache'[k] # None,
             up' => up \/ AllCached,
             Ordered(job'[t], cache'),
             \A u \in Threads \ {t} : job'[u] = job[u] \/ job'[u] = [job[u] EXCEPT !.fd = Moved(@)]
      PROVE  PullOrder'
  <2>1. ASSUME NEW u \in Threads \ {t} PROVE Ordered(job'[u], cache')
    <3>1. Ordered(job[u], cache')
      BY <1>b, Fuller DEF PullOrder
    <3>2. CASE job'[u] = job[u]
      BY <3>1, <3>2
    <3>3. CASE job'[u] = [job[u] EXCEPT !.fd = Moved(@)]
      <4>1. job'[u].step = job[u].step /\ job'[u].i = job[u].i /\ job'[u].got = job[u].got
        BY <3>3 DEF Job
      <4> QED
        BY <3>1, <4>1 DEF Ordered
    <3> QED
      BY <1>b, <3>2, <3>3
  <2>2. \A u \in Threads : Ordered(job'[u], cache')
    BY <1>b, <2>1
  <2> QED
    BY <1>b, <2>2 DEF PullOrder, AllCached
<1>1. CASE Fetch(t)
  <2>0. Onward(t, "fetch", "open") \in Job /\ file[KindOf(t)] \in Doc
    BY <1>0, OnwardFacts
  <2>1. PICK j \in Job : /\ job' = [job EXCEPT ![t] = j]
                         /\ j = [Onward(t, "fetch", "open") EXCEPT !.got[KindOf(t)] = file[KindOf(t)]]
    BY <1>0, <1>1, <2>0, FetchedFacts DEF Fetch
  <2>2. /\ j.got = [job[t].got EXCEPT ![KindOf(t)] = file[KindOf(t)]]
        /\ j.step = Onward(t, "fetch", "open").step /\ j.i = Onward(t, "fetch", "open").i
    <3>1. Onward(t, "fetch", "open").got = job[t].got
      BY <1>0, OnwardFacts
    <3> QED
      BY <1>0, <2>0, <2>1, <3>1, FetchedFacts
  <2>3. \A n \in 1..job[t].i : j.got[Kinds[n]] \in Doc
    <3>1. job[t].got \in [Kind -> Doc \cup {None}]
      BY <1>0 DEF Job
    <3>2. ASSUME NEW n \in 1..job[t].i PROVE j.got[Kinds[n]] \in Doc
      <4>1. Kinds[n] \in Kind
        BY <1>0, KindsFacts
      <4>2. n < job[t].i => job[t].got[Kinds[n]] \in Doc
        BY <1>0, <1>1 DEF Fetch, At, Ordered
      <4> QED
        BY <1>0, <2>2, <3>1, <4>1, <4>2
    <3> QED
      BY <3>2
  <2>4. Ordered(j, cache)
    <3>1. CASE j.step = "open" /\ j.i = 1 /\ job[t].i = Len(Kinds)
      BY <1>a, <2>3, <3>1 DEF Ordered
    <3>2. CASE j.step = "fetch" /\ j.i = job[t].i + 1
      BY <1>0, <2>3, <3>2 DEF Ordered
    <3> QED
      BY <1>0, <2>2, <3>1, <3>2, OnwardFacts
  <2> QED
    BY <1>1, <1>b, <2>1, <2>4 DEF Fetch
<1>2. CASE FetchFails(t)
  BY <1>2, <1>b, OrderedRest DEF FetchFails, AllCached
<1>3. CASE OpenTmp(t)
  <2>1. job' = [job EXCEPT ![t] = [job[t] EXCEPT !.step = "write", !.fd = "tmp"]]
    BY <1>3 DEF OpenTmp
  <2>2. Ordered([job[t] EXCEPT !.step = "write", !.fd = "tmp"], cache)
    BY <1>0, <1>3 DEF OpenTmp, At, Ordered, Job
  <2> QED
    BY <1>3, <1>b, <2>1, <2>2 DEF OpenTmp
<1>4. CASE WriteTmp(t)
  <2>1. job' = [job EXCEPT ![t] = [job[t] EXCEPT !.step = "replace", !.fd = None]]
    BY <1>4 DEF WriteTmp
  <2>2. Ordered([job[t] EXCEPT !.step = "replace", !.fd = None], cache)
    BY <1>0, <1>4 DEF WriteTmp, At, Ordered, Job
  <2>3. job[t].got[KindOf(t)] # None
    BY <1>0, <1>4, DocFacts DEF WriteTmp, At, Ordered
  <2>4. \A k \in Kind : cache[k] # None => cache'[k] # None
    BY <1>0, <1>4, <2>3, DocFacts DEF WriteTmp, Over
  <2>5. [job[t] EXCEPT !.step = "replace", !.fd = None] \in Job
    BY <1>0 DEF Job
  <2>6. Ordered(job'[t], cache')
    BY <2>1, <2>2, <2>4, <2>5, Fuller
  <2> QED
    BY <1>4, <1>b, <2>1, <2>4, <2>6 DEF WriteTmp
<1>5. CASE ReplaceTmp(t)
  <2>1. CASE tmp[KindOf(t)] = None
    BY <1>5, <1>b, <2>1, OrderedRest DEF ReplaceTmp
  <2>2. CASE tmp[KindOf(t)] # None
    <3>1. cache' = [cache EXCEPT ![KindOf(t)] = tmp[KindOf(t)]]
      BY <1>5, <2>2 DEF ReplaceTmp
    <3>2. job'[t] = Onward(t, "open", "load")
      BY <1>5, <2>2 DEF ReplaceTmp
    <3>3. \A u \in Threads \ {t} : job'[u] = job[u] \/ job'[u] = [job[u] EXCEPT !.fd = Moved(@)]
      BY <1>5, <2>2 DEF ReplaceTmp
    <3>4. \A n \in 1..job[t].i : cache'[Kinds[n]] # None
      <4>1. ASSUME NEW n \in 1..job[t].i PROVE cache'[Kinds[n]] # None
        <5>1. Kinds[n] \in Kind
          BY <1>0, KindsFacts
        <5>2. n < job[t].i => cache[Kinds[n]] # None
          BY <1>0, <1>5 DEF ReplaceTmp, At, Ordered
        <5> QED
          BY <1>0, <2>2, <3>1, <5>1, <5>2
      <4> QED
        BY <4>1
    <3>5. \A k \in Kind : job[t].got[k] \in Doc
      BY <1>0, <1>5 DEF ReplaceTmp, At, Ordered
    <3>6. Ordered(job'[t], cache')
      <4>1. CASE job'[t].step = "load" /\ job[t].i = Len(Kinds)
        BY <1>a, <3>4, <4>1 DEF Ordered
      <4>2. CASE job'[t].step = "open" /\ job'[t].i = job[t].i + 1 /\ job'[t].got = job[t].got
        BY <1>0, <3>4, <3>5, <4>2 DEF Ordered
      <4> QED
        BY <1>0, <3>2, <4>1, <4>2, OnwardFacts
    <3>7. up' = up /\ \A k \in Kind : cache[k] # None => cache'[k] # None
      BY <1>0, <1>5, <2>2, <3>1 DEF ReplaceTmp
    <3> QED
      BY <1>b, <3>3, <3>6, <3>7
  <2> QED
    BY <2>1, <2>2
<1>6. CASE Load(t)
  <2>1. \A k \in Kind : cache[k] # None
    BY <1>0, <1>6 DEF Load, At, Ordered
  <2>2. cache' = cache /\ \A u \in Threads \ {t} : job'[u] = job[u]
    BY <1>6 DEF Load
  <2>3. job'[t] = Resting \/ job'[t].step = "load"
    <3>1. Onward(t, "load", "load").step = "load"
      BY <1>0, OnwardFacts
    <3> QED
      BY <1>6, <3>1 DEF Load
  <2>4. Ordered(job'[t], cache)
    BY <2>1, <2>3, OrderedRest DEF Ordered
  <2> QED
    BY <1>b, <2>1, <2>2, <2>4 DEF AllCached
<1> QED
  BY <1>1, <1>2, <1>3, <1>4, <1>5, <1>6 DEF PullStep

\* The pulls' part of the inductive invariant.
ControllerInv == ControllerTypeOK /\ PullOrder

LEMMA ControllerSteps ==
    /\ Init => ControllerInv
    /\ file \in [Kind -> Doc] /\ ControllerInv /\ [Next]_vars => ControllerInv'
<1>1. ASSUME Init PROVE ControllerInv
  <2>1. ControllerTypeOK
    BY <1>1, RestingFacts DEF Init, ControllerTypeOK, NoDocs
  <2>2. PullOrder
    BY <1>1, OrderedRest DEF Init, PullOrder
  <2> QED
    BY <2>1, <2>2 DEF ControllerInv
<1>2. ASSUME file \in [Kind -> Doc], ControllerInv, [Next]_vars PROVE ControllerInv'
  <2>1. ControllerTypeOK /\ PullOrder
    BY <1>2 DEF ControllerInv
  <2>2. CASE UNCHANGED controller
    BY <2>1, <2>2 DEF controller, ControllerInv, ControllerTypeOK, PullOrder, AllCached
  <2>3. ASSUME NEW t \in Threads, PullStep(t) PROVE ControllerInv'
    BY <1>2, <2>1, <2>3, PullTypes, PullKeepsOrder DEF ControllerInv
  <2>4. ASSUME NEW t \in Threads, job' = [job EXCEPT ![t] = Start], UNCHANGED <<cache, tmp, conf, up>>
        PROVE  ControllerInv'
    <3>1. ControllerTypeOK'
      BY <2>1, <2>4, RestingFacts DEF ControllerTypeOK
    <3>2. PullOrder'
      BY <2>1, <2>4, OrderedRest DEF ControllerTypeOK, PullOrder, AllCached
    <3> QED
      BY <3>1, <3>2 DEF ControllerInv
  <2>5. CASE Boot
    BY <2>4, <2>5 DEF Boot, Threads
  <2>6. CASE OnSignal
    BY <2>4, <2>6 DEF OnSignal, Threads
  <2>7. CASE Backstop
    BY <2>4, <2>7 DEF Backstop, Threads
  <2>8. CASE ControllerCrash
    <3>1. ControllerTypeOK'
      BY <2>1, <2>8, RestingFacts DEF ControllerCrash, ControllerTypeOK, NoDocs
    <3>2. PullOrder'
      BY <2>8, OrderedRest DEF ControllerCrash, PullOrder
    <3> QED
      BY <3>1, <3>2 DEF ControllerInv
  <2>9. ASSUME NEW r \in Requests, PutValidate(r) \/ PutStep(r) PROVE UNCHANGED controller
    BY <2>9 DEF PutValidate, PutStep, PutPersist, PutSwap, PutEmit, controller
  <2>10. CoreCrash \/ CoreStart \/ SessionLost \/ UNCHANGED vars => UNCHANGED controller
    BY DEF CoreCrash, CoreStart, SessionLost, controller, vars
  <2> QED
    BY <1>2, <2>2, <2>3, <2>5, <2>6, <2>7, <2>8, <2>9, <2>10 DEF Next
<1> QED
  BY <1>1, <1>2

\* The rest of the state: the kind of behaviour and the broker's flags, and the
\* counters.
FlagsTypeOK == world \in Worlds /\ retained \in BOOLEAN /\ subscribed \in BOOLEAN
CountersTypeOK == faults \in 0..MaxFault /\ signals \in Nat
OtherTypeOK == FlagsTypeOK /\ CountersTypeOK

LEMMA FlagsSteps ==
    /\ Init => FlagsTypeOK
    /\ FlagsTypeOK /\ [Next]_vars => FlagsTypeOK'
<1>1. Init => FlagsTypeOK
  BY Zenon DEF Init, FlagsTypeOK
<1>2. ASSUME FlagsTypeOK, [Next]_vars PROVE FlagsTypeOK'
  <2> USE <1>2 DEF FlagsTypeOK
  <2>1. ASSUME NEW r \in Requests, PutValidate(r) \/ PutStep(r) PROVE FlagsTypeOK'
    BY <2>1, Zenon DEF PutValidate, PutStep, PutPersist, PutSwap, PutEmit, Retain, broker
  <2>2. ASSUME NEW t \in Threads, PullStep(t) PROVE FlagsTypeOK'
    BY <2>2, Zenon DEF PullStep, Fetch, FetchFails, OpenTmp, WriteTmp, ReplaceTmp, Load, broker
  <2>3. Boot \/ OnSignal \/ Backstop \/ ControllerCrash \/ SessionLost => FlagsTypeOK'
    BY Zenon DEF Boot, OnSignal, Backstop, ControllerCrash, SessionLost, broker
  <2>4. CoreCrash \/ CoreStart \/ UNCHANGED vars => FlagsTypeOK'
    BY Zenon DEF CoreCrash, CoreStart, broker, vars
  <2> QED
    BY <2>1, <2>2, <2>3, <2>4 DEF Next
<1> QED
  BY <1>1, <1>2

LEMMA CountersSteps ==
    /\ Init => CountersTypeOK
    /\ CountersTypeOK /\ [Next]_vars => CountersTypeOK'
<1>0. MaxFault \in Nat
  BY ConfigAuthorityAssumption
<1>1. Init => CountersTypeOK
  BY <1>0 DEF Init, CountersTypeOK
<1>2. ASSUME CountersTypeOK, [Next]_vars PROVE CountersTypeOK'
  <2> USE <1>0, <1>2 DEF CountersTypeOK
  <2>1. ASSUME NEW r \in Requests, PutValidate(r) \/ PutStep(r) PROVE CountersTypeOK'
    BY <2>1 DEF PutValidate, PutStep, PutPersist, PutSwap, PutEmit, broker
  <2>2. ASSUME NEW t \in Threads, PullStep(t) PROVE CountersTypeOK'
    <3>1. CASE FetchFails(t)
      BY <3>1 DEF FetchFails, broker
    <3>2. CASE Load(t)
      <4>1. signals' \in {signals, 0, 1} /\ faults' = faults
        BY <3>2, Zenon DEF Load
      <4> QED
        BY <4>1
    <3>3. CASE Fetch(t) \/ OpenTmp(t) \/ WriteTmp(t) \/ ReplaceTmp(t)
      BY <3>3 DEF Fetch, OpenTmp, WriteTmp, ReplaceTmp, broker
    <3> QED
      BY <2>2, <3>1, <3>2, <3>3 DEF PullStep
  <2>3. Boot \/ OnSignal \/ Backstop \/ ControllerCrash \/ SessionLost => CountersTypeOK'
    BY DEF Boot, OnSignal, Backstop, ControllerCrash, SessionLost, broker
  <2>4. CoreCrash \/ CoreStart \/ UNCHANGED vars => CountersTypeOK'
    BY DEF CoreCrash, CoreStart, broker, vars
  <2> QED
    BY <2>1, <2>2, <2>3, <2>4 DEF Next
<1> QED
  BY <1>1, <1>2

\* The inductive invariant of the whole: every document, thread and file is of
\* its type, and no pull gets ahead of itself.
ConfigInv == CoreTypeOK /\ ControllerInv /\ OtherTypeOK

THEOREM SpecConfigInv == Spec => []ConfigInv
<1>1. Init => ConfigInv
  BY CoreTypes, ControllerSteps, FlagsSteps, CountersSteps DEF ConfigInv, OtherTypeOK
<1>2. ConfigInv /\ [Next]_vars => ConfigInv'
  BY CoreTypes, ControllerSteps, FlagsSteps, CountersSteps DEF ConfigInv, OtherTypeOK, CoreTypeOK
<1> QED
  BY <1>1, <1>2, PTL DEF Spec

\* What opening a .tmp file, moving it and dying make of the history.
HistoryTypeOK == alone \in [Threads -> BOOLEAN] /\ crossed \in [Kind -> BOOLEAN]

LEMMA HistorySteps ==
    /\ Init => HistoryTypeOK
    /\ ConfigInv /\ HistoryTypeOK /\ [Next]_vars => HistoryTypeOK'
<1>1. Init => HistoryTypeOK
  BY DEF Init, HistoryTypeOK
<1>2. ASSUME ConfigInv, HistoryTypeOK, [Next]_vars PROVE HistoryTypeOK'
  <2> USE <1>2 DEF HistoryTypeOK
  <2>0. ASSUME NEW t \in Threads PROVE KindOf(t) \in Kind
    BY KindsFacts DEF KindOf, Job, ConfigInv, ControllerInv, ControllerTypeOK
  <2>1. ASSUME NEW t \in Threads, OpenTmp(t) PROVE HistoryTypeOK'
    BY <2>0, <2>1 DEF OpenTmp, Meet
  <2>2. ASSUME NEW t \in Threads, ReplaceTmp(t) PROVE HistoryTypeOK'
    <3>1. alone' = [alone EXCEPT ![t] = TRUE]
      BY <2>2 DEF ReplaceTmp
    <3>2. crossed' = crossed \/ crossed' = [crossed EXCEPT ![KindOf(t)] = ~alone[t]]
      BY <2>2 DEF ReplaceTmp
    <3> QED
      BY <3>1, <3>2
  <2>3. CASE ControllerCrash
    BY <2>3 DEF ControllerCrash
  <2>4. CASE UNCHANGED history
    BY <2>4 DEF history
  <2>5. ASSUME NEW r \in Requests, PutValidate(r) \/ PutStep(r) PROVE UNCHANGED history
    BY <2>5 DEF PutValidate, PutStep, PutPersist, PutSwap, PutEmit
  <2>6. ASSUME NEW t \in Threads, Fetch(t) \/ FetchFails(t) \/ WriteTmp(t) \/ Load(t) PROVE UNCHANGED history
    BY <2>6 DEF Fetch, FetchFails, WriteTmp, Load
  <2>7. CoreCrash \/ CoreStart \/ Boot \/ OnSignal \/ Backstop \/ SessionLost \/ UNCHANGED vars => UNCHANGED history
    BY DEF CoreCrash, CoreStart, Boot, OnSignal, Backstop, SessionLost, vars
  <2> QED
    BY <2>1, <2>2, <2>3, <2>4, <2>5, <2>6, <2>7 DEF Next, PullStep
<1> QED
  BY <1>1, <1>2

\* The type invariant in every reachable state: above all, what the controller
\* loads is always a document, whatever its cache holds (ConfigManager.reload).
THEOREM SpecTypeOK == Spec => []TypeOK
<1>1. ConfigInv /\ HistoryTypeOK => TypeOK
  BY DEF ConfigInv, CoreTypeOK, ControllerInv, ControllerTypeOK, OtherTypeOK, FlagsTypeOK,
         CountersTypeOK, HistoryTypeOK, TypeOK
<1> QED
  BY <1>1, SpecConfigInv, HistorySteps, PTL DEF Spec

--------------------------------------------------------------------------------
(* Core serves what it uses *)

\* Why CoreAgrees holds: only valid documents reach the disk, one handler at a
\* time is between the file and the swap, and only its document may differ.
CoreInv ==
    /\ \A k \in Kind : Valid(file[k])
    /\ \A r \in Requests : put[r].step = "validated" => Valid(put[r].doc)
    /\ \A r, s \in Requests : put[r].step = "persisted" /\ put[s].step = "persisted" => r = s
    /\ coreUp => \A k \in Kind :
         \/ live[k] = file[k]
         \/ ~Loads(file[k], "core")
         \/ \E r \in Requests : put[r].step = "persisted" /\ put[r].kind = k

LEMMA CoreInvStep == CoreTypeOK /\ CoreInv /\ [Next]_vars => CoreInv'
<1> SUFFICES ASSUME CoreTypeOK, CoreInv, [Next]_vars PROVE CoreInv'
  OBVIOUS
<1> USE DEF CoreTypeOK
<1>0. NoPut.step = "idle"
  BY DEF NoPut
<1>1. ASSUME NEW r \in Requests, PutValidate(r) PROVE CoreInv'
  <2>1. PICK k \in Kind, f \in Flaws :
          /\ Valid([ver |-> versions + 1, flaw |-> f])
          /\ put' = [put EXCEPT ![r] = [step |-> "validated", kind |-> k,
                                       doc |-> [ver |-> versions + 1, flaw |-> f]]]
    BY <1>1 DEF PutValidate
  <2>2. \A s \in Requests : /\ put'[s].step = "persisted" <=> put[s].step = "persisted"
                            /\ put'[s].step = "persisted" => put'[s].kind = put[s].kind
                            /\ put'[s].step = "validated" => put'[s] = put[s] \/ Valid(put'[s].doc)
    BY <1>1, <2>1 DEF PutValidate
  <2> HIDE DEF Valid
  <2> QED
    BY <1>1, <2>2 DEF PutValidate, CoreInv, Loads
<1>2. ASSUME NEW r \in Requests, PutPersist(r) PROVE CoreInv'
  <2>1. /\ put' = [put EXCEPT ![r].step = "persisted"]
        /\ file' = [file EXCEPT ![put[r].kind] = put[r].doc]
        /\ put[r].kind \in Kind
        /\ Valid(put[r].doc)
        /\ UNCHANGED <<live, coreUp>>
    BY <1>2 DEF PutPersist, CoreInv
  <2>2. \A s \in Requests \ {r} : put'[s] = put[s] /\ put'[s].step # "persisted"
    BY <1>2, <2>1 DEF PutPersist
  <2>3. put'[r].step = "persisted" /\ put'[r].kind = put[r].kind
    BY <2>1
  <2> QED
    BY <2>1, <2>2, <2>3 DEF CoreInv
<1>3. ASSUME NEW r \in Requests, PutSwap(r) PROVE CoreInv'
  <2>1. /\ put[r].step = "persisted" /\ put[r].kind \in Kind /\ UNCHANGED <<file, coreUp>>
        /\ \A s \in Requests \ {r} : put'[s] = put[s] /\ put[s].step # "persisted"
        /\ put'[r].step \notin {"persisted", "validated"}
    BY <1>0, <1>3 DEF PutSwap, CoreInv
  <2>2. \A k \in Kind \ {put[r].kind} : live'[k] = live[k]
    BY <1>3, <2>1 DEF PutSwap, Swap
  <2>3. live'[put[r].kind] = file[put[r].kind] \/ ~Loads(file[put[r].kind], "core")
    BY <1>3, <2>1 DEF PutSwap, Swap
  <2> QED
    BY <2>1, <2>2, <2>3 DEF CoreInv
<1>4. ASSUME NEW r \in Requests, PutEmit(r) PROVE CoreInv'
  <2>1. /\ put[r].step = "committed" /\ put' = [put EXCEPT ![r] = NoPut]
        /\ UNCHANGED <<file, live, coreUp>>
    BY <1>4 DEF PutEmit
  <2>2. \A s \in Requests : put'[s] = put[s] \/ put'[s].step = "idle"
    BY <1>0, <2>1
  <2>3. \A s \in Requests : put[s].step = "persisted" => put'[s] = put[s]
    BY <2>1
  <2> QED
    BY <2>1, <2>2, <2>3 DEF CoreInv
<1>5. CASE CoreCrash
  BY <1>0, <1>5 DEF CoreCrash, CoreInv
<1>6. CASE CoreStart
  BY <1>6 DEF CoreStart, CoreInv
<1>7. CASE UNCHANGED core
  BY <1>7 DEF core, CoreInv
<1>8. Boot \/ OnSignal \/ Backstop \/ ControllerCrash \/ SessionLost => UNCHANGED core
  BY DEF Boot, OnSignal, Backstop, ControllerCrash, SessionLost, core
<1>9. ASSUME NEW t \in Threads, PullStep(t) PROVE UNCHANGED core
  BY <1>9 DEF PullStep, Fetch, FetchFails, OpenTmp, WriteTmp, ReplaceTmp, Load, core
<1> QED
  BY <1>1, <1>2, <1>3, <1>4, <1>5, <1>6, <1>7, <1>8, <1>9 DEF Next, PutStep, vars, core

\* Outside an update core uses the document it serves, or serves a valid one its
\* own environment breaks, for any number of handlers and documents
\* (ConfigManager.update).
THEOREM SpecCoreAgrees == Spec => []CoreAgrees
<1>1. Init => CoreInv
  BY DEF Init, CoreInv, NoPut, First, Valid
<1>2. ConfigInv /\ CoreInv /\ [Next]_vars => CoreInv'
  BY CoreInvStep DEF ConfigInv
<1>3. CoreInv => CoreAgrees
  BY DEF CoreInv, CoreAgrees
<1> QED
  BY <1>1, <1>2, <1>3, SpecConfigInv, PTL DEF Spec

--------------------------------------------------------------------------------
(* The last-known-good cache *)

\* Why LastKnownGood holds, whoever pulls: a thread that meets no other at a
\* document has its .tmp file to itself, from the truncation to the replace, and
\* moves a whole document into the cache; whatever two make of it, they have met.
TmpInv ==
    /\ \A t, u \in Threads, k \in Kind : alone[t] /\ Writing(t, k) /\ Writing(u, k) => t = u
    /\ \A t \in Threads : alone[t] =>
         /\ At(t, "write") => job[t].fd = "tmp" /\ tmp[KindOf(t)] = Torn
         /\ At(t, "replace") => tmp[KindOf(t)] \in Doc
    /\ \A t \in Threads, k \in Kind : Writing(t, k) /\ ~crossed[k] => alone[t]
    /\ \A k \in Kind : cache[k] = Torn => crossed[k]

\* It is kept by a step that leaves the files, and of every thread either its
\* job or no document it is writing.
LEMMA TmpFrame ==
    ASSUME TmpInv, UNCHANGED <<cache, tmp, crossed>>,
           \A u \in Threads : (job'[u] = job[u] /\ alone'[u] = alone[u])
                              \/ job'[u].step \notin {"write", "replace"}
    PROVE  TmpInv'
  BY DEF TmpInv, Writing, At, KindOf

\* A step of a pull that opens, writes or moves a .tmp file keeps it.
LEMMA TmpPull ==
    ASSUME NEW t \in Threads, ConfigInv, HistoryTypeOK, TmpInv,
           OpenTmp(t) \/ WriteTmp(t) \/ ReplaceTmp(t)
    PROVE  TmpInv'
<1> USE DEF HistoryTypeOK
<1>0. /\ job \in [Threads -> Job]
      /\ cache \in [Kind -> Doc \cup {Torn, None}] /\ tmp \in [Kind -> Doc \cup {Torn, None}]
      /\ ControllerInv /\ PullOrder
  BY DEF ConfigInv, ControllerInv, ControllerTypeOK
<1> DEFINE k == KindOf(t)
           Here(u) == u # t /\ Writing(u, k)
<1>k. k \in Kind /\ job[t] \in Job
  BY <1>0, KindsFacts DEF KindOf, Job
<1>1. CASE OpenTmp(t)
  <2> DEFINE others == {u \in Threads \ {t} : Writing(u, k)}
  <2>1. /\ cache' = cache /\ tmp' = [tmp EXCEPT ![k] = Torn]
        /\ \A u \in Threads \ {t} : job'[u] = job[u]
        /\ job'[t].step = "write" /\ job'[t].fd = "tmp" /\ job'[t].i = job[t].i
    BY <1>0, <1>1, <1>k DEF OpenTmp, Job
  <2>2. /\ alone'[t] = (others = {})
        /\ \A u \in Threads \ {t} : alone'[u] = (alone[u] /\ u \notin others)
        /\ crossed'[k] = (crossed[k] \/ others # {})
        /\ \A c \in Kind \ {k} : crossed'[c] = crossed[c]
    BY <1>1, <1>k DEF OpenTmp, Meet
  <2>3. /\ \A u \in Threads \ {t}, c \in Kind : Writing(u, c)' <=> Writing(u, c)
        /\ \A c \in Kind : Writing(t, c)' <=> c = k
        /\ KindOf(t)' = k /\ \A u \in Threads \ {t} : KindOf(u)' = KindOf(u)
    BY <2>1 DEF Writing, At, KindOf
  <2> HIDE DEF k
  <2>4. ASSUME NEW u \in Threads, NEW v \in Threads, NEW c \in Kind,
               alone'[u], Writing(u, c)', Writing(v, c)'
        PROVE  u = v
    <3>1. CASE u # t /\ v # t
      <4>1. alone[u] /\ Writing(u, c) /\ Writing(v, c)
        BY <2>2, <2>3, <2>4, <3>1
      <4> QED
        BY <4>1 DEF TmpInv
    <3>2. u = t /\ v # t => FALSE
      BY <2>2, <2>3, <2>4
    <3>3. u # t /\ v = t => FALSE
      BY <2>2, <2>3, <2>4
    <3> QED
      BY <3>1, <3>2, <3>3
  <2>5. ASSUME NEW u \in Threads, alone'[u]
        PROVE  /\ At(u, "write")' => job'[u].fd = "tmp" /\ tmp'[KindOf(u)'] = Torn
               /\ At(u, "replace")' => tmp'[KindOf(u)'] \in Doc
    <3>1. CASE u = t
      BY <1>0, <1>k, <2>1, <2>3, <3>1 DEF At
    <3>2. CASE u # t
      <4>1. alone[u] /\ ~Writing(u, k)
        BY <2>2, <2>5, <3>2
      <4>2. KindOf(u) # k \/ ~(At(u, "write") \/ At(u, "replace"))
        BY <4>1 DEF Writing, At
      <4>3. KindOf(u) # k => tmp'[KindOf(u)] = tmp[KindOf(u)]
        <5>1. KindOf(u) \in Kind
          BY <1>0, KindsFacts DEF KindOf, Job
        <5> QED
          BY <1>0, <2>1, <5>1
      <4>4. job'[u] = job[u] /\ KindOf(u)' = KindOf(u)
        BY <2>1, <2>3, <3>2
      <4> QED
        BY <4>1, <4>2, <4>3, <4>4 DEF TmpInv, At
    <3> QED
      BY <3>1, <3>2
  <2>6. ASSUME NEW u \in Threads, NEW c \in Kind, Writing(u, c)', ~crossed'[c]
        PROVE  alone'[u]
    <3>1. c = k => others = {}
      BY <2>2, <2>6
    <3>2. CASE u = t
      BY <2>2, <2>3, <2>6, <3>1, <3>2
    <3>3. CASE u # t
      <4>1. Writing(u, c) /\ c # k
        BY <2>3, <2>6, <3>1, <3>3
      <4>2. alone[u]
        <5>1. ~crossed[c]
          BY <2>2, <2>6, <4>1
        <5> QED
          BY <4>1, <5>1 DEF TmpInv
      <4>3. u \notin others
        BY <4>1 DEF Writing
      <4> QED
        BY <2>2, <3>3, <4>2, <4>3
    <3> QED
      BY <3>2, <3>3
  <2>7. ASSUME NEW c \in Kind, cache'[c] = Torn PROVE crossed'[c]
    BY <1>k, <2>1, <2>2, <2>7 DEF TmpInv
  <2> QED
    BY <2>4, <2>5, <2>6, <2>7 DEF TmpInv
<1>2. CASE WriteTmp(t)
  <2>1. /\ alone' = alone /\ crossed' = crossed
        /\ \A u \in Threads \ {t} : job'[u] = job[u]
        /\ job[t].step = "write" /\ job'[t].step = "replace" /\ job'[t].i = job[t].i
    BY <1>0, <1>2, <1>k DEF WriteTmp, Job, At, history
  <2>2. \A c \in Kind \ {k} : tmp'[c] = tmp[c] /\ cache'[c] = cache[c]
    BY <1>0, <1>2, <1>k DEF WriteTmp
  <2>3. /\ \A u \in Threads, c \in Kind : Writing(u, c)' <=> Writing(u, c)
        /\ Writing(t, k)
        /\ \A u \in Threads : KindOf(u)' = KindOf(u)
    BY <2>1 DEF Writing, At, KindOf
  <2>4. alone[t] => tmp'[k] \in Doc /\ cache' = cache
    <3>1. SUFFICES ASSUME alone[t] PROVE tmp'[k] \in Doc /\ cache' = cache
      OBVIOUS
    <3>2. job[t].fd = "tmp" /\ tmp[k] = Torn
      BY <2>1, <3>1 DEF TmpInv, At
    <3>3. job[t].got[k] \in Doc
      BY <1>0, <1>k, <2>1 DEF PullOrder, Ordered
    <3> QED
      BY <1>0, <1>2, <1>k, <3>2, <3>3 DEF WriteTmp, Over
  <2>5. ~alone[t] => crossed[k]
    BY <1>k, <2>3 DEF TmpInv
  <2> HIDE DEF k
  <2>6. ASSUME NEW u \in Threads, alone'[u]
        PROVE  /\ At(u, "write")' => job'[u].fd = "tmp" /\ tmp'[KindOf(u)'] = Torn
               /\ At(u, "replace")' => tmp'[KindOf(u)'] \in Doc
    <3>1. CASE u = t
      BY <2>1, <2>3, <2>4, <2>6, <3>1 DEF At, k
    <3>2. CASE u # t
      <4>1. alone[u] /\ ~Writing(u, k)
        BY <1>k, <2>1, <2>3, <2>6, <3>2 DEF TmpInv
      <4>2. KindOf(u) # k \/ ~(At(u, "write") \/ At(u, "replace"))
        BY <4>1 DEF Writing, At
      <4>3. KindOf(u) \in Kind
        BY <1>0, KindsFacts DEF KindOf, Job
      <4>4. KindOf(u) # k => tmp'[KindOf(u)] = tmp[KindOf(u)]
        BY <2>2, <4>3
      <4>5. job'[u] = job[u] /\ KindOf(u)' = KindOf(u)
        BY <2>1, <2>3, <3>2
      <4> QED
        BY <4>1, <4>2, <4>4, <4>5 DEF TmpInv, At
    <3> QED
      BY <3>1, <3>2
  <2>7. ASSUME NEW c \in Kind, cache'[c] = Torn PROVE crossed'[c]
    BY <2>1, <2>2, <2>4, <2>5, <2>7 DEF TmpInv
  <2> QED
    BY <2>1, <2>3, <2>6, <2>7 DEF TmpInv
<1>3. CASE ReplaceTmp(t)
  <2>0. Writing(t, k) /\ job[t].step = "replace"
    BY <1>3 DEF ReplaceTmp, Writing, At
  <2>1. CASE tmp[k] = None
    <3>1. /\ UNCHANGED <<cache, tmp, crossed>>
          /\ job' = [job EXCEPT ![t] = Resting] /\ alone' = [alone EXCEPT ![t] = TRUE]
      BY <1>3, <2>1 DEF ReplaceTmp
    <3> QED
      BY <1>0, <3>1, TmpFrame DEF Resting
  <2>2. CASE tmp[k] # None
    <3>1. /\ cache' = [cache EXCEPT ![k] = tmp[k]] /\ tmp' = [tmp EXCEPT ![k] = None]
          /\ job' = [u \in Threads |->
                        IF u = t THEN Onward(t, "open", "load")
                        ELSE IF At(u, "write") /\ KindOf(u) = k
                             THEN [job[u] EXCEPT !.fd = Moved(@)]
                             ELSE job[u]]
          /\ crossed' = [crossed EXCEPT ![k] = ~alone[t]]
          /\ alone' = [alone EXCEPT ![t] = TRUE]
      BY <1>3, <2>2 DEF ReplaceTmp
    <3>2. job'[t].step \in {"open", "load"}
      BY <1>0, <3>1, OnwardFacts
    <3>3. ASSUME NEW u \in Threads \ {t}
          PROVE  /\ job'[u].step = job[u].step /\ job'[u].i = job[u].i /\ alone'[u] = alone[u]
                 /\ ~Writing(u, k) => job'[u] = job[u]
      BY <1>0, <3>1 DEF Job, Writing, At
    <3>4. /\ \A u \in Threads \ {t}, c \in Kind : Writing(u, c)' <=> Writing(u, c)
          /\ \A c \in Kind : ~Writing(t, c)'
          /\ \A u \in Threads \ {t} : KindOf(u)' = KindOf(u)
      BY <3>2, <3>3 DEF Writing, At, KindOf
    <3>5. /\ crossed'[k] = ~alone[t] /\ cache'[k] = tmp[k]
          /\ \A c \in Kind \ {k} : crossed'[c] = crossed[c] /\ cache'[c] = cache[c] /\ tmp'[c] = tmp[c]
      BY <1>0, <1>k, <3>1
    <3>6. alone[t] => tmp[k] # Torn /\ \A u \in Threads \ {t} : ~Writing(u, k)
      BY <1>k, <2>0, DocFacts DEF TmpInv, At
    <3> HIDE DEF k
    <3>7. ASSUME NEW u \in Threads, NEW v \in Threads, NEW c \in Kind,
                 alone'[u], Writing(u, c)', Writing(v, c)'
          PROVE  u = v
      <4>1. u # t /\ v # t
        BY <3>4, <3>7
      <4>2. alone[u] /\ Writing(u, c) /\ Writing(v, c)
        BY <3>3, <3>4, <3>7, <4>1
      <4> QED
        BY <4>2 DEF TmpInv
    <3>8. ASSUME NEW u \in Threads, alone'[u]
          PROVE  /\ At(u, "write")' => job'[u].fd = "tmp" /\ tmp'[KindOf(u)'] = Torn
                 /\ At(u, "replace")' => tmp'[KindOf(u)'] \in Doc
      <4>1. CASE u = t
        BY <3>2, <4>1 DEF At
      <4>2. CASE u # t
        <5>1. alone[u] /\ ~Writing(u, k)
          BY <1>k, <2>0, <3>3, <3>8, <4>2 DEF TmpInv
        <5>2. KindOf(u) # k \/ ~(At(u, "write") \/ At(u, "replace"))
          BY <5>1 DEF Writing, At
        <5>3. KindOf(u) \in Kind
          BY <1>0, KindsFacts DEF KindOf, Job
        <5>4. KindOf(u) # k => tmp'[KindOf(u)] = tmp[KindOf(u)]
          BY <3>5, <5>3
        <5>5. job'[u] = job[u] /\ KindOf(u)' = KindOf(u)
          BY <3>3, <3>4, <4>2, <5>1
        <5> QED
          BY <5>1, <5>2, <5>4, <5>5 DEF TmpInv, At
      <4> QED
        BY <4>1, <4>2
    <3>9. ASSUME NEW u \in Threads, NEW c \in Kind, Writing(u, c)', ~crossed'[c]
          PROVE  alone'[u]
      <4>1. u # t /\ Writing(u, c)
        BY <3>4, <3>9
      <4>2. c # k
        BY <3>5, <3>6, <3>9, <4>1
      <4>3. ~crossed[c]
        BY <3>5, <3>9, <4>2
      <4>4. alone[u]
        BY <4>1, <4>3 DEF TmpInv
      <4> QED
        BY <3>3, <4>1, <4>4
    <3>10. ASSUME NEW c \in Kind, cache'[c] = Torn PROVE crossed'[c]
      BY <1>k, <3>5, <3>6, <3>10 DEF TmpInv
    <3> QED
      BY <3>7, <3>8, <3>9, <3>10 DEF TmpInv
  <2> QED
    BY <2>1, <2>2
<1> QED
  BY <1>1, <1>2, <1>3

LEMMA TmpSteps == ConfigInv /\ HistoryTypeOK /\ TmpInv /\ [Next]_vars => TmpInv'
<1> SUFFICES ASSUME ConfigInv, HistoryTypeOK, TmpInv, [Next]_vars PROVE TmpInv'
  OBVIOUS
<1>0. job \in [Threads -> Job]
  BY DEF ConfigInv, ControllerInv, ControllerTypeOK
<1>1. CASE UNCHANGED <<cache, tmp, job, history>>
  BY <1>1, TmpFrame DEF history
<1>2. ASSUME NEW t \in Threads, Fetch(t) \/ FetchFails(t) \/ Load(t) PROVE TmpInv'
  <2>1. UNCHANGED <<cache, tmp, alone, crossed>> /\ \A u \in Threads \ {t} : job'[u] = job[u]
    <3>1. CASE Fetch(t)
      BY <1>0, <3>1 DEF Fetch, history
    <3>2. CASE FetchFails(t)
      BY <1>0, <3>2 DEF FetchFails, history
    <3>3. CASE Load(t)
      BY <1>0, <3>3 DEF Load, history
    <3> QED
      BY <1>2, <3>1, <3>2, <3>3
  <2>2. job'[t].step \notin {"write", "replace"}
    <3>1. CASE Fetch(t)
      <4>1. Onward(t, "fetch", "open") \in Job /\ Onward(t, "fetch", "open").step \in {"fetch", "open"}
        BY <1>0, OnwardFacts
      <4>2. job'[t].step = Onward(t, "fetch", "open").step
        BY <1>0, <3>1, <4>1 DEF Fetch, Job
      <4> QED
        BY <4>1, <4>2
    <3>2. CASE FetchFails(t)
      BY <1>0, <3>2 DEF FetchFails, Resting
    <3>3. CASE Load(t)
      <4>1. job'[t] = Resting \/ job'[t] = Onward(t, "load", "load")
        BY <1>0, <3>3 DEF Load
      <4>2. Onward(t, "load", "load").step = "load"
        BY <1>0, OnwardFacts
      <4> QED
        BY <4>1, <4>2 DEF Resting
    <3> QED
      BY <1>2, <3>1, <3>2, <3>3
  <2> QED
    BY <2>1, <2>2, TmpFrame
<1>3. ASSUME NEW t \in Threads, job' = [job EXCEPT ![t] = Start], UNCHANGED <<cache, tmp, history>>
      PROVE  TmpInv'
  <2>1. job'[t].step = "fetch" /\ \A u \in Threads \ {t} : job'[u] = job[u]
    BY <1>0, <1>3 DEF Start, Resting
  <2> QED
    BY <1>3, <2>1, TmpFrame DEF history
<1>4. CASE Boot \/ OnSignal \/ Backstop
  BY <1>3, <1>4 DEF Boot, OnSignal, Backstop, Threads
<1>5. CASE ControllerCrash
  <2>1. \A u \in Threads : job'[u].step = "idle"
    BY <1>5 DEF ControllerCrash, Resting
  <2> QED
    BY <1>5, <2>1, TmpFrame DEF ControllerCrash
<1>6. ASSUME NEW r \in Requests, PutValidate(r) \/ PutStep(r) PROVE UNCHANGED <<cache, tmp, job, history>>
  BY <1>6 DEF PutValidate, PutStep, PutPersist, PutSwap, PutEmit, controller
<1>7. CoreCrash \/ CoreStart \/ SessionLost \/ UNCHANGED vars => UNCHANGED <<cache, tmp, job, history>>
  BY DEF CoreCrash, CoreStart, SessionLost, controller, vars
<1> QED
  BY <1>1, <1>2, <1>4, <1>5, <1>6, <1>7, TmpPull DEF Next, PullStep

\* A crash at any instant leaves complete documents in the cache, but for one
\* that two threads have written at once and none alone since; all of them are
\* there once the controller has come up (CoreConfigClient.sync).
THEOREM SpecLastKnownGood == Spec => []LastKnownGood
<1>1. Init => HistoryTypeOK /\ TmpInv
  BY DocFacts, HistorySteps DEF Init, TmpInv, At, Writing, Resting, NoDocs
<1>2. ConfigInv /\ HistoryTypeOK /\ TmpInv /\ [Next]_vars => HistoryTypeOK' /\ TmpInv'
  BY HistorySteps, TmpSteps
<1>3. ConfigInv /\ TmpInv => LastKnownGood
  BY DEF ConfigInv, ControllerInv, PullOrder, TmpInv, LastKnownGood
<1> QED
  BY <1>1, <1>2, <1>3, SpecConfigInv, PTL DEF Spec

================================================================================

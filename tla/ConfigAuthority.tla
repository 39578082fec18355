---------------------------- MODULE ConfigAuthority ----------------------------
(***************************************************************************)
(* The way of a configuration document: a PUT to core, the configuration   *)
(* authority; core's file and its live configuration; the change signal    *)
(* over MQTT; the controller's two pulling threads, its last-known-good    *)
(* cache and its live configuration.                                       *)
(*                                                                         *)
(* A document is a version and a flaw: the process whose environment       *)
(* variables, once expanded, make it invalid. (The data model is shipped   *)
(* with a release; here it never changes, and its copy in the cache is     *)
(* left out. Whether the loop is stopped for a structural change is the    *)
(* business of LoopRunner; here any PUT may be refused.)                   *)
(***************************************************************************)
EXTENDS Integers, Sequences

CONSTANTS
    Kinds,      \* the documents, in the order of CoreConfigClient._TARGETS
    Requests,   \* HTTP handlers of core that may be at work
    Flaws,      \* of the documents that are PUT
    MaxPut,     \* bound: documents PUT
    MaxFault,   \* bound: crashes, and failed GETs while core runs
    Worlds,     \* what may happen in a behaviour: see the actions
    None        \* Python's None; no file

ASSUME ConfigAuthorityAssumption ==
    /\ Kinds \in Seq({"assets", "ems"}) /\ Kinds # <<>>
    /\ Flaws \subseteq {"none", "raw", "core", "controller"}
    /\ MaxPut \in Nat /\ MaxFault \in Nat
    /\ None \notin [ver : 0..MaxPut, flaw : Flaws \cup {"none", "torn"}]
    /\ Worlds \subseteq SUBSET {"overlap", "backstop", "lose", "session",
                                "unreachable", "core_crash", "controller_crash"}

VARIABLES
    world,      \* what may happen in this behaviour; never changes
    \* core
    file,       \* the documents on disk
    live,       \* ConfigManager._assets, _ems
    coreUp,     \* core's process runs
    put,        \* the PUT handlers
    versions,   \* documents PUT so far (bound)
    faults,     \* crashes and failed GETs so far (bound)
    \* broker
    retained,   \* the retained change signal exists
    subscribed, \* the controller's subscription exists
    signals,    \* change signals on their way to the controller
    \* controller
    cache,      \* the cached documents
    tmp,        \* their .tmp files
    conf,       \* its ConfigManager._assets, _ems
    up,         \* its API and its watcher run
    job,        \* the main thread at boot, the watcher's MQTT and backstop threads
    \* history
    alone,      \* no other thread has written a document while this one has
    crossed     \* two threads have, and none alone since: document by document

core == <<file, live, coreUp, put, versions>>
broker == <<retained, subscribed, signals>>
controller == <<cache, tmp, conf, up, job>>
history == <<alone, crossed>>
vars == <<world, core, faults, broker, controller, history>>

Kind == {Kinds[i] : i \in DOMAIN Kinds}
Threads == {"boot", "signal", "backstop"}
Doc == [ver : 0..MaxPut, flaw : Flaws \cup {"none"}]
First == [ver |-> 0, flaw |-> "none"]
NoPut == [step |-> "idle", kind |-> Kinds[1], doc |-> First]

\* What a file holds between open(..., "w") and the write, or after two writes.
Torn == [ver |-> 0, flaw |-> "torn"]

\* Validation of a document as it is, and as a process expands it.
Valid(d) == d.flaw \notin {"raw", "torn"}
Loads(d, process) == Valid(d) /\ d.flaw # process

--------------------------------------------------------------------------------
(* Core: put_assets, put_ems and ConfigManager.update *)

\* validate, and for a structural change the gate.
PutValidate(r) ==
    /\ coreUp /\ put[r].step = "idle"
    /\ "overlap" \in world \/ \A s \in Requests : put[s].step = "idle"
    /\ versions < MaxPut
    /\ \E k \in Kind, f \in Flaws :
        LET d == [ver |-> versions + 1, flaw |-> f] IN
            /\ Valid(d)
            /\ put' = [put EXCEPT ![r] = [step |-> "validated", kind |-> k, doc |-> d]]
    /\ versions' = versions + 1
    /\ UNCHANGED <<world, file, live, coreUp, faults, broker, controller, history>>

\* Under the lock: the file is replaced at once by the submitted document.
PutPersist(r) ==
    /\ put[r].step = "validated"
    /\ \A s \in Requests : put[s].step # "persisted"
    /\ file' = [file EXCEPT ![put[r].kind] = put[r].doc]
    /\ put' = [put EXCEPT ![r].step = "persisted"]
    /\ UNCHANGED <<world, live, coreUp, versions, faults, broker, controller, history>>

\* Mutant: only the assets are swapped.
SwapAssets(k) == IF k = "assets" THEN [live EXCEPT ![k] = file[k]] ELSE live

Swap(k) == [live EXCEPT ![k] = file[k]]

\* The live configuration is built from the file, expanded; or that raises.
PutSwap(r) ==
    /\ put[r].step = "persisted"
    /\ \/ /\ Loads(file[put[r].kind], "core")
          /\ live' = Swap(put[r].kind)
          /\ put' = [put EXCEPT ![r].step = "committed"]
       \/ /\ ~Loads(file[put[r].kind], "core")
          /\ put' = [put EXCEPT ![r] = NoPut]
          /\ UNCHANGED live
    /\ UNCHANGED <<world, file, coreUp, versions, faults, broker, controller, history>>

\* Mutant: the signal is not retained.
EmitUnretained == UNCHANGED retained

Retain == retained' = TRUE

\* The retained signal; lost when core never reached the broker, or when the
\* broker has no subscription of the controller.
PutEmit(r) ==
    /\ put[r].step = "committed"
    /\ put' = [put EXCEPT ![r] = NoPut]
    /\ \/ /\ Retain
          /\ signals' = IF subscribed THEN signals + 1 ELSE signals
       \/ "lose" \in world /\ UNCHANGED <<retained, signals>>
    /\ UNCHANGED <<world, file, live, coreUp, versions, faults, subscribed, controller, history>>

CoreCrash ==
    /\ "core_crash" \in world
    /\ coreUp /\ faults < MaxFault
    /\ faults' = faults + 1
    /\ coreUp' = FALSE
    /\ put' = [r \in Requests |-> NoPut]
    /\ UNCHANGED <<world, file, live, versions, broker, controller, history>>

\* core.main: it does not start on a file it cannot load.
CoreStart ==
    /\ ~coreUp
    /\ \A k \in Kind : Loads(file[k], "core")
    /\ coreUp' = TRUE
    /\ live' = file
    /\ UNCHANGED <<world, file, put, versions, faults, broker, controller, history>>

--------------------------------------------------------------------------------
(* The controller: CoreConfigClient.sync and ConfigManager.reload, run by   *)
(* three threads. A job goes through the documents at each of its stages:   *)
(* "fetch"; "open", "write", "replace" of one after the other; "load".      *)

At(t, step) == job[t].step = step
KindOf(t) == Kinds[job[t].i]
Last(t) == job[t].i = Len(Kinds)

NoDocs == [k \in Kind |-> None]
Resting == [step |-> "idle", i |-> 1, got |-> NoDocs, fd |-> None]

Job == [step : {"idle", "fetch", "open", "write", "replace", "load"},
        i : DOMAIN Kinds,
        got : [Kind -> Doc \cup {None}],
        fd : {None, "tmp", "cache", "gone"}]

Start == [Resting EXCEPT !.step = "fetch"]

\* The next document of a stage, or the first one of the next stage.
Onward(t, same, next) ==
    IF Last(t) THEN [job[t] EXCEPT !.step = next, !.i = 1]
               ELSE [job[t] EXCEPT !.step = same, !.i = @ + 1]

\* _resolve_config, when the process starts.
Boot ==
    /\ ~up /\ At("boot", "idle")
    /\ job' = [job EXCEPT !["boot"] = Start]
    /\ UNCHANGED <<world, core, faults, broker, cache, tmp, conf, up, history>>

\* ConfigWatcher.handle_message
OnSignal ==
    /\ up /\ At("signal", "idle")
    /\ signals > 0
    /\ signals' = signals - 1
    /\ job' = [job EXCEPT !["signal"] = Start]
    /\ UNCHANGED <<world, core, faults, retained, subscribed, cache, tmp, conf, up, history>>

\* ConfigWatcher.backstop_tick
Backstop ==
    /\ "backstop" \in world
    /\ up /\ At("backstop", "idle")
    /\ job' = [job EXCEPT !["backstop"] = Start]
    /\ UNCHANGED <<world, core, faults, broker, cache, tmp, conf, up, history>>

\* One GET: core serves its file as it is.
Fetch(t) ==
    /\ At(t, "fetch") /\ coreUp
    /\ job' = [job EXCEPT ![t] = [Onward(t, "fetch", "open") EXCEPT
                                    !.got[KindOf(t)] = file[KindOf(t)]]]
    /\ UNCHANGED <<world, core, faults, broker, cache, tmp, conf, up, history>>

\* A pull that has opened a document's .tmp file and not replaced it yet; what
\* opening it says of the pulls that meet there.
Writing(t, k) == job[t].step \in {"write", "replace"} /\ KindOf(t) = k

Meet(t) ==
    LET others == {u \in Threads \ {t} : Writing(u, KindOf(t))} IN
        /\ alone' = [u \in Threads |-> IF u = t THEN others = {} ELSE alone[u] /\ u \notin others]
        /\ crossed' = [crossed EXCEPT ![KindOf(t)] = @ \/ others # {}]

AllCached == \A k \in Kind : cache[k] # None

\* Core cannot be reached: nothing is written; with a cache, that is loaded.
FetchFails(t) ==
    /\ At(t, "fetch")
    /\ \/ ~coreUp /\ UNCHANGED faults
       \/ "unreachable" \in world /\ faults < MaxFault /\ faults' = faults + 1
    /\ job' = [job EXCEPT ![t] =
                 IF AllCached THEN [Resting EXCEPT !.step = "load"] ELSE Resting]
    /\ UNCHANGED <<world, core, broker, cache, tmp, conf, up, history>>

\* Mutant: the document is written in place.
OpenCache(t) ==
    /\ At(t, "open")
    /\ cache' = [cache EXCEPT ![KindOf(t)] = Torn]
    /\ job' = [job EXCEPT ![t].step = "write", ![t].fd = "cache"]
    /\ Meet(t)
    /\ UNCHANGED <<world, core, faults, broker, tmp, conf, up>>

\* _atomic_write_yaml: open for writing truncates; two threads open one file.
OpenTmp(t) ==
    /\ At(t, "open")
    /\ tmp' = [tmp EXCEPT ![KindOf(t)] = Torn]
    /\ job' = [job EXCEPT ![t].step = "write", ![t].fd = "tmp"]
    /\ Meet(t)
    /\ UNCHANGED <<world, core, faults, broker, cache, conf, up>>

\* Writing over what another thread has written since leaves either.
Over(old, new) == IF old = Torn THEN {new} ELSE {new, Torn}

\* The write goes to the file that was opened, wherever that is by now: still
\* the .tmp file, or the cached one, or replaced already.
WriteTmp(t) ==
    /\ At(t, "write")
    /\ LET k == KindOf(t) IN
        \/ /\ job[t].fd = "tmp"
           /\ \E d \in Over(tmp[k], job[t].got[k]) : tmp' = [tmp EXCEPT ![k] = d]
           /\ UNCHANGED cache
        \/ /\ job[t].fd = "cache"
           /\ \E d \in Over(cache[k], job[t].got[k]) : cache' = [cache EXCEPT ![k] = d]
           /\ UNCHANGED tmp
        \/ /\ job[t].fd = "gone"
           /\ UNCHANGED <<cache, tmp>>
    /\ job' = [job EXCEPT ![t].step = "replace", ![t].fd = None]
    /\ UNCHANGED <<world, core, faults, broker, conf, up, history>>

\* Where another thread's open file is after a replace of that kind.
Moved(fd) == CASE fd = "tmp" -> "cache" [] fd = "cache" -> "gone" [] OTHER -> fd

\* os.replace, which raises when another thread has moved the .tmp file.
ReplaceTmp(t) ==
    /\ At(t, "replace")
    /\ LET k == KindOf(t) IN
        \/ /\ tmp[k] = None
           /\ job' = [job EXCEPT ![t] = Resting]
           /\ UNCHANGED <<cache, tmp, crossed>>
        \/ /\ tmp[k] # None
           /\ cache' = [cache EXCEPT ![k] = tmp[k]]
           /\ tmp' = [tmp EXCEPT ![k] = None]
           /\ job' = [u \in Threads |->
                        IF u = t THEN Onward(t, "open", "load")
                        ELSE IF At(u, "write") /\ KindOf(u) = k
                             THEN [job[u] EXCEPT !.fd = Moved(@)]
                             ELSE job[u]]
           /\ crossed' = [crossed EXCEPT ![k] = ~alone[t]]
    /\ alone' = [alone EXCEPT ![t] = TRUE]
    /\ UNCHANGED <<world, core, faults, broker, conf, up>>

\* ConfigManager.reload under its lock, one document after the other; the
\* first that does not load ends it. At boot that ends the process; otherwise
\* the watcher subscribes and the broker sends it the retained signal.
Load(t) ==
    /\ At(t, "load")
    /\ job[t].i = 1 => \A u \in Threads \ {t} : At(u, "load") => job[u].i = 1
    /\ LET k == KindOf(t)
           done == Last(t)
       IN  \/ /\ Loads(cache[k], "controller")
              /\ conf' = [conf EXCEPT ![k] = cache[k]]
              /\ job' = [job EXCEPT ![t] = IF done THEN Resting ELSE Onward(t, "load", "load")]
              /\ up' = (up \/ done)
              /\ IF t = "boot" /\ done
                 THEN subscribed' = TRUE /\ signals' = IF retained THEN 1 ELSE 0
                 ELSE UNCHANGED <<subscribed, signals>>
           \/ /\ ~Loads(cache[k], "controller")
              /\ job' = [job EXCEPT ![t] = Resting]
              /\ conf' = IF t = "boot" THEN NoDocs ELSE conf
              /\ UNCHANGED <<up, subscribed, signals>>
    /\ UNCHANGED <<world, core, faults, retained, cache, tmp, history>>

\* The process dies, with its subscription; its files stay.
ControllerCrash ==
    /\ "controller_crash" \in world
    /\ faults < MaxFault
    /\ faults' = faults + 1
    /\ up' = FALSE
    /\ conf' = NoDocs
    /\ job' = [t \in Threads |-> Resting]
    /\ subscribed' = FALSE
    /\ signals' = 0
    /\ alone' = [t \in Threads |-> TRUE]
    /\ UNCHANGED <<world, core, retained, cache, tmp, crossed>>

\* The broker drops the watcher's clean session; it has subscribed only once.
SessionLost ==
    /\ "session" \in world
    /\ subscribed' = FALSE
    /\ signals' = 0
    /\ UNCHANGED <<world, core, faults, retained, controller, history>>

--------------------------------------------------------------------------------
\* Core runs; the controller is started for the first time.
Init ==
    /\ world \in Worlds
    /\ file = [k \in Kind |-> First]
    /\ live = file
    /\ coreUp = TRUE
    /\ put = [r \in Requests |-> NoPut]
    /\ versions = 0
    /\ faults = 0
    /\ retained = FALSE
    /\ subscribed = FALSE
    /\ signals = 0
    /\ cache = NoDocs
    /\ tmp = NoDocs
    /\ conf = NoDocs
    /\ up = FALSE
    /\ job = [t \in Threads |-> Resting]
    /\ alone = [t \in Threads |-> TRUE]
    /\ crossed = [k \in Kind |-> FALSE]

PutStep(r) == PutPersist(r) \/ PutSwap(r) \/ PutEmit(r)

PullStep(t) == \/ Fetch(t) \/ FetchFails(t)
               \/ OpenTmp(t) \/ WriteTmp(t) \/ ReplaceTmp(t) \/ Load(t)

Next ==
    \/ \E r \in Requests : PutValidate(r) \/ PutStep(r)
    \/ CoreCrash
    \/ CoreStart
    \/ Boot
    \/ OnSignal
    \/ Backstop
    \/ \E t \in Threads : PullStep(t)
    \/ ControllerCrash
    \/ SessionLost

Spec == Init /\ [][Next]_vars

\* Both services are started whenever they are down, handlers and threads run,
\* and the backstop comes round.
FairSpec ==
    /\ Spec
    /\ WF_vars(CoreStart)
    /\ WF_vars(Boot)
    /\ WF_vars(OnSignal)
    /\ WF_vars(Backstop)
    /\ \A r \in Requests : WF_vars(PutStep(r))
    /\ \A t \in Threads : WF_vars(PullStep(t))

--------------------------------------------------------------------------------
TypeOK ==
    /\ world \in Worlds
    /\ file \in [Kind -> Doc]
    /\ live \in [Kind -> Doc]
    /\ coreUp \in BOOLEAN
    /\ put \in [Requests -> [step : {"idle", "validated", "persisted", "committed"},
                             kind : Kind, doc : Doc]]
    /\ versions \in 0..MaxPut
    /\ faults \in 0..MaxFault
    /\ retained \in BOOLEAN
    /\ subscribed \in BOOLEAN
    /\ signals \in Nat
    /\ cache \in [Kind -> Doc \cup {Torn, None}]
    /\ tmp \in [Kind -> Doc \cup {Torn, None}]
    /\ conf \in [Kind -> Doc \cup {None}]
    /\ up \in BOOLEAN
    /\ job \in [Threads -> Job]
    /\ alone \in [Threads -> BOOLEAN]
    /\ crossed \in [Kind -> BOOLEAN]

--------------------------------------------------------------------------------
\* Outside an update, core serves and uses one and the same document; or it
\* serves a valid one that its own environment breaks. Nothing invalid as it
\* was submitted is ever served (ConfigManager.update, two PUT handlers).
CoreAgrees ==
    coreUp /\ (\A r \in Requests : put[r].step # "persisted")
        => \A k \in Kind : \/ live[k] = file[k]
                           \/ Valid(file[k]) /\ ~Loads(file[k], "core")

\* Whenever the process dies, no cached document is half-written, unless two
\* threads have written that one at once, who share its .tmp file, and none has
\* written it alone since; and none is missing once the controller has come up
\* (CoreConfigClient.sync, by the boot, signal and backstop threads).
LastKnownGood ==
    /\ \A k \in Kind : cache[k] = Torn => crossed[k]
    /\ up => AllCached

\* Once core's documents stay the same and both services can load them, the
\* controller ends up with them, live and in its cache: in spite of lost
\* signals, crossing pulls, crashes and a core out of reach if it has the
\* backstop, and otherwise by the signals alone (ConfigWatcher).
Settled ==
    coreUp /\ \A k \in Kind : Loads(file[k], "core") /\ Loads(file[k], "controller")

Converges == <>[]Settled => <>[](up /\ conf = file /\ cache = file)

================================================================================

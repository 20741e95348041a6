----------------------------- MODULE ModelCache -----------------------------
(***************************************************************************)
(* The process-wide LRU cache of loaded models (services/model_cache.py)   *)
(* and the provider call around it (CachedModelProvider._get_model, then   *)
(* synthesize_chunks under the provider's per-model threading.Lock).       *)
(*                                                                         *)
(* A worker thread looks its key up, and on a miss validates, loads with   *)
(* the cache lock released, and installs; whoever pushes an entry out      *)
(* unloads it afterwards, again without the lock.  Each action is one      *)
(* critical section or one call between two of them.                       *)
(***************************************************************************)
EXTENDS Integers, FiniteSets, SequencesExt

CONSTANTS
  Threads,     \* worker threads that run provider calls
  Keys,        \* (provider, model_id) pairs
  Allowed,     \* the provider's allow-list; {} disables the check
  MaxSize,     \* TTS_MODEL_CACHE_SIZE
  Objects,     \* bound: identities for loaded model objects, reused when free
  None,
  HasUnload    \* whether a loaded object exposes unload()

ASSUME ModelCacheAssumption ==
  /\ MaxSize \in Nat \ {0}
  /\ Allowed \subseteq Keys
  /\ None \notin Objects \cup Keys
  /\ HasUnload \in BOOLEAN

VARIABLES
  entries,   \* keys of _entries, least recently used first
  model,     \* the object of each cached key
  call,      \* progress of each thread's call
  key,       \* the key of that call
  held,      \* the model object the call has in hand
  victim,    \* pending_unloads: the entry the call has popped
  unloaded,  \* objects whose unload() has run
  busy,      \* keys whose provider model lock is held
  since      \* history: the keys used since each key was last used

cacheVars == <<entries, model, call, key, held, victim, unloaded, busy, since>>

Resting == {"idle", "failed"}
Phases == Resting \cup {"loading", "loaded", "unloading", "ready", "generating"}

Cached == ToSet(entries)
Referenced ==
  {model[k] : k \in Keys} \cup {held[t] : t \in Threads}
    \cup {victim[t] : t \in Threads}

CacheInit ==
  /\ entries = << >>
  /\ model = [k \in Keys |-> None]
  /\ call = [t \in Threads |-> "idle"]
  /\ key = [t \in Threads |-> None]
  /\ held = [t \in Threads |-> None]
  /\ victim = [t \in Threads |-> None]
  /\ unloaded = {}
  /\ busy = {}
  /\ since = [k \in Keys |-> {}]

-----------------------------------------------------------------------------
Step(t, to) == call' = [call EXCEPT ![t] = to]

\* k becomes the most recently used key.
Use(k) ==
  since' = [j \in Keys |-> IF j = k THEN {} ELSE since[j] \cup {k}]

\* _entries.move_to_end(key)
MoveToEnd(k) ==
  /\ \E i \in DOMAIN entries :
       entries[i] = k /\ entries' = Append(RemoveAt(entries, i), k)
  /\ Use(k)

\* The call is over; it drops its reference to the model.
EndCall(t, outcome) ==
  /\ held' = [held EXCEPT ![t] = None]
  /\ key' = [key EXCEPT ![t] = None]
  /\ Step(t, outcome)

\* (faulty: a hit does not refresh the entry)
HitInPlace(t, k) ==
  /\ call[t] \in Resting
  /\ k \in Cached
  /\ Use(k)
  /\ held' = [held EXCEPT ![t] = model[k]]
  /\ key' = [key EXCEPT ![t] = k]
  /\ Step(t, "ready")
  /\ UNCHANGED <<entries, model, victim, unloaded, busy>>

\* get_or_load -> _try_hit finds the entry.
Hit(t, k) ==
  /\ call[t] \in Resting
  /\ k \in Cached
  /\ MoveToEnd(k)
  /\ held' = [held EXCEPT ![t] = model[k]]
  /\ key' = [key EXCEPT ![t] = k]
  /\ Step(t, "ready")
  /\ UNCHANGED <<model, victim, unloaded, busy>>

\* _validate_model raises unknown_model before anything is touched.
Reject(t, k) ==
  /\ call[t] \in Resting
  /\ k \notin Cached
  /\ Allowed # {} /\ k \notin Allowed
  /\ Step(t, "failed")
  /\ UNCHANGED <<entries, model, key, held, victim, unloaded, busy, since>>

Miss(t, k) ==
  /\ call[t] \in Resting
  /\ k \notin Cached
  /\ Allowed = {} \/ k \in Allowed
  /\ key' = [key EXCEPT ![t] = k]
  /\ Step(t, "loading")
  /\ UNCHANGED <<entries, model, held, victim, unloaded, busy, since>>

\* loader(): a new object, outside the cache lock
LoadReturns(t) ==
  /\ call[t] = "loading"
  /\ \E o \in Objects \ Referenced :
       /\ held' = [held EXCEPT ![t] = o]
       /\ unloaded' = unloaded \ {o}
  /\ Step(t, "loaded")
  /\ UNCHANGED <<entries, model, key, victim, busy, since>>

LoadRaises(t) ==
  /\ call[t] = "loading"
  /\ EndCall(t, "failed")
  /\ UNCHANGED <<entries, model, victim, unloaded, busy, since>>

\* (faulty: _install does not look whether somebody else was faster)
InsertTwice(t) ==
  LET k == key[t] IN
  /\ call[t] = "loaded"
  /\ entries' = Append(entries, k)
  /\ model' = [model EXCEPT ![k] = held[t]]
  /\ Use(k)
  /\ Step(t, "ready")
  /\ UNCHANGED <<key, held, victim, unloaded, busy>>

\* (faulty: the loser of the race drops both references)
AdoptNothing(t) ==
  /\ call[t] = "loaded"
  /\ key[t] \in Cached
  /\ MoveToEnd(key[t])
  /\ held' = [held EXCEPT ![t] = None]
  /\ Step(t, "ready")
  /\ UNCHANGED <<model, key, victim, unloaded, busy>>

\* _install lost the race: the earlier entry is used, the new object dropped.
Adopt(t) ==
  LET k == key[t] IN
  /\ call[t] = "loaded"
  /\ k \in Cached
  /\ MoveToEnd(k)
  /\ held' = [held EXCEPT ![t] = model[k]]
  /\ Step(t, "ready")
  /\ UNCHANGED <<model, key, victim, unloaded, busy>>

\* _install inserts.  The cache was within its bound, so the loop pops at
\* most one entry: the least recently used.
Insert(t) ==
  LET k    == key[t]
      full == Len(entries) = MaxSize
      lru  == Head(entries)
  IN
  /\ call[t] = "loaded"
  /\ k \notin Cached
  /\ Use(k)
  /\ \/ /\ ~full
        /\ entries' = Append(entries, k)
        /\ model' = [model EXCEPT ![k] = held[t]]
        /\ Step(t, "ready")
        /\ UNCHANGED victim
     \/ /\ full
        /\ entries' = Append(Tail(entries), k)
        /\ model' = [model EXCEPT ![k] = held[t], ![lru] = None]
        /\ victim' = [victim EXCEPT ![t] = model[lru]]
        /\ Step(t, "unloading")
  /\ UNCHANGED <<key, held, unloaded, busy>>

\* (faulty: an unload that raised is tried again)
UnloadAgain(t) ==
  /\ call[t] = "unloading"
  /\ unloaded' = IF HasUnload THEN unloaded \cup {victim[t]} ELSE unloaded
  /\ UNCHANGED <<entries, model, call, key, held, victim, busy, since>>

\* (faulty: the list of evicted entries outlives the call)
UnloadAndKeep(t) ==
  /\ call[t] = "unloading"
  /\ unloaded' = IF HasUnload THEN unloaded \cup {victim[t]} ELSE unloaded
  /\ Step(t, "ready")
  /\ UNCHANGED <<entries, model, key, held, victim, busy, since>>

\* unload_fn(evicted_model); what it raises is swallowed.
Unload(t) ==
  /\ call[t] = "unloading"
  /\ unloaded' = IF HasUnload THEN unloaded \cup {victim[t]} ELSE unloaded
  /\ victim' = [victim EXCEPT ![t] = None]
  /\ Step(t, "ready")
  /\ UNCHANGED <<entries, model, key, held, busy, since>>

\* with model_lock: generate runs on the object in hand.
Generate(t) ==
  /\ call[t] = "ready"
  /\ key[t] \notin busy
  /\ busy' = busy \cup {key[t]}
  /\ Step(t, "generating")
  /\ UNCHANGED <<entries, model, key, held, victim, unloaded, since>>

GenerateEnds(t, outcome) ==
  /\ call[t] = "generating"
  /\ busy' = busy \ {key[t]}
  /\ EndCall(t, outcome)
  /\ UNCHANGED <<entries, model, victim, unloaded, since>>

\* CachedModelProvider.preload, at startup: the model is only brought in.
PreloadEnds(t) ==
  /\ call[t] = "ready"
  /\ EndCall(t, "idle")
  /\ UNCHANGED <<entries, model, victim, unloaded, busy, since>>

-----------------------------------------------------------------------------
Call(t, k) == Hit(t, k) \/ Reject(t, k) \/ Miss(t, k)

Inside(t) ==
  \/ LoadReturns(t) \/ LoadRaises(t) \/ Adopt(t) \/ Insert(t) \/ Unload(t)
  \/ Generate(t)

CacheNext ==
  \E t \in Threads :
    \/ \E k \in Keys : Call(t, k)
    \/ Inside(t) \/ PreloadEnds(t)
    \/ \E outcome \in Resting : GenerateEnds(t, outcome)

CacheSpec == CacheInit /\ [][CacheNext]_cacheVars
-----------------------------------------------------------------------------
(* Properties *)

\* Type invariant; a call has a key while it runs and a model object from
\* the end of its load on, and holds the provider lock while it generates.
CacheTypeOK ==
  /\ entries \in Seq(Keys)
  /\ model \in [Keys -> Objects \cup {None}]
  /\ call \in [Threads -> Phases]
  /\ key \in [Threads -> Keys \cup {None}]
  /\ held \in [Threads -> Objects \cup {None}]
  /\ victim \in [Threads -> Objects \cup {None}]
  /\ unloaded \subseteq Objects
  /\ busy \subseteq Keys
  /\ since \in [Keys -> SUBSET Keys]
  /\ \A t \in Threads :
       /\ key[t] = None <=> call[t] \in Resting
       /\ held[t] = None <=> call[t] \in Resting \cup {"loading"}
       /\ call[t] = "generating" => key[t] \in busy

\* FR-CA-01: between critical sections the cache is within its bound, lists
\* each key once, and every listed key has its own live object: never one
\* that has been unloaded or that somebody is about to unload.
CacheCoherent ==
  /\ Len(entries) <= MaxSize
  /\ Cardinality(Cached) = Len(entries)
  /\ \A k \in Keys : k \in Cached <=> model[k] # None
  /\ \A j, k \in Cached : model[j] = model[k] => j = k
  /\ \A k \in Cached :
       /\ model[k] \notin unloaded
       /\ \A t \in Threads : victim[t] # model[k]

\* No object is unloaded twice: an evicted one belongs to exactly one call.
UnloadedOnce ==
  \A t \in Threads : victim[t] # None =>
    /\ victim[t] \notin unloaded
    /\ \A u \in Threads \ {t} : victim[u] # victim[t]

\* FR-CA-01 and FR-CA-03: a key leaves a full cache, in the step that
\* installs another (no call that fails or hits takes one out), and it is
\* one since whose last use every other cached key has been used.
EvictsLeastRecent ==
  [][\A k \in Cached : k \notin ToSet(entries') =>
       /\ Cached \ {k} \subseteq since[k]
       /\ Len(entries) = MaxSize
       /\ \E j \in ToSet(entries') : j \notin Cached]_cacheVars

\* FR-CA-02: eviction does not interrupt an in-flight request, that is, no
\* call ever has an unloaded object in hand.
NoUseAfterUnload ==
  \A t \in Threads : held[t] # None => held[t] \notin unloaded
=============================================================================

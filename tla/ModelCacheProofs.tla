-------------------------- MODULE ModelCacheProofs --------------------------
(***************************************************************************)
(* Theorems about the model cache, for any number of threads, keys and     *)
(* objects and any cache size.                                             *)
(***************************************************************************)
EXTENDS ModelCache, SequenceLemmas, FiniteSetTheorems, TLAPS

\* The list: one entry for each key, within the bound, ordered by use.
Listing ==
  /\ Len(entries) <= MaxSize
  /\ \A i, j \in 1..Len(entries) : entries[i] = entries[j] => i = j
  /\ \A i, j \in 1..Len(entries) : i < j => entries[j] \in since[entries[i]]

\* Which object is whose: of a cached key, of a call that will unload it, or
\* of a call that has just loaded it.
Ownership ==
  /\ \A k \in Keys : k \in Cached <=> model[k] # None
  /\ \A j, k \in Keys : model[j] = model[k] /\ model[j] # None => j = k
  /\ \A k \in Keys : model[k] # None =>
       model[k] \notin unloaded /\ \A t \in Threads : victim[t] # model[k]
  /\ UnloadedOnce
  /\ \A t \in Threads : call[t] = "unloading" => victim[t] # None
  /\ \A t \in Threads : call[t] = "loaded" =>
       /\ held[t] \notin unloaded
       /\ \A k \in Keys : model[k] # held[t]
       /\ \A u \in Threads : victim[u] # held[t]
       /\ \A u \in Threads \ {t} : call[u] = "loaded" => held[u] # held[t]

\* The provider lock of a key is held by one call.
OneGenerates ==
  \A t, u \in Threads :
    call[t] = "generating" /\ call[u] = "generating" /\ key[t] = key[u] => t = u

CacheInv == CacheTypeOK /\ Listing /\ Ownership /\ OneGenerates

-----------------------------------------------------------------------------
(* The list of entries                                                     *)

LEMMA CachedIsListed ==
  ASSUME entries \in Seq(Keys)
  PROVE  /\ \A k : k \in Cached <=> \E i \in 1..Len(entries) : entries[i] = k
         /\ Cached \subseteq Keys
  BY DEF Cached, ToSet

LEMMA CachedIsListedNext ==
  ASSUME entries' \in Seq(Keys)
  PROVE  \A k : k \in Cached' <=> \E i \in 1..Len(entries') : entries'[i] = k
  BY DEF Cached, ToSet

\* A hit, or a lost race, only moves an entry to the end.
LEMMA MoveToEndKeepsListing ==
  ASSUME CacheTypeOK, Listing, NEW k \in Keys, MoveToEnd(k)
  PROVE  /\ entries' \in Seq(Keys) /\ since' \in [Keys -> SUBSET Keys]
         /\ Cached' = Cached /\ Listing'
<1>1. PICK n \in 1..Len(entries) :
        entries[n] = k /\ entries' = Append(RemoveAt(entries, n), entries[n])
  <2>1. entries \in Seq(Keys)
    BY DEF CacheTypeOK
  <2>2. DOMAIN entries = 1..Len(entries)
    BY <2>1
  <2>3. PICK i \in DOMAIN entries :
          entries[i] = k /\ entries' = Append(RemoveAt(entries, i), k)
    BY DEF MoveToEnd
  <2> QED
    BY <2>2, <2>3
<1>2. /\ entries \in Seq(Keys) /\ Len(entries) \in Nat /\ n \in Nat /\ n <= Len(entries)
      /\ \A i \in 1..Len(entries) : entries[i] \in Keys
  BY DEF CacheTypeOK
<1>3. /\ entries' \in Seq(Keys) /\ Len(entries') = Len(entries)
      /\ \A i \in 1..Len(entries) :
           entries'[i] = IF i < n THEN entries[i]
                         ELSE IF i < Len(entries) THEN entries[i + 1] ELSE entries[n]
  BY <1>1, <1>2, MovedToEndSeq
<1>4. /\ since' \in [Keys -> SUBSET Keys]
      /\ \A j \in Keys \ {k} : since'[j] = since[j] \cup {k}
  BY DEF MoveToEnd, Use, CacheTypeOK
<1> DEFINE old(i) == IF i < n THEN i ELSE IF i < Len(entries) THEN i + 1 ELSE n
<1>5. \A i \in 1..Len(entries) : old(i) \in 1..Len(entries) /\ entries'[i] = entries[old(i)]
  BY <1>2, <1>3
<1>6. \A i, j \in 1..Len(entries) : old(i) = old(j) => i = j
  BY <1>2
<1>7. \A i \in 1..Len(entries) : \E j \in 1..Len(entries) : old(j) = i
  <2> TAKE i \in 1..Len(entries)
  <2>1. CASE i < n
    BY <1>2, <2>1
  <2>2. CASE i = n
    <3>1. Len(entries) \in 1..Len(entries) /\ old(Len(entries)) = n
      BY <1>2
    <3> QED
      BY <2>2, <3>1
  <2>3. CASE i > n
    <3>1. i - 1 \in 1..Len(entries) /\ old(i - 1) = i
      BY <1>2, <2>3
    <3> QED
      BY <3>1
  <2> QED
    BY <1>2, <2>1, <2>2, <2>3
<1>8. Cached' = Cached
  <2> HIDE DEF old
  <2>1. ASSUME NEW c \in Cached'
        PROVE  c \in Cached
    <3>1. PICK i \in 1..Len(entries) : entries'[i] = c
      BY <1>3, CachedIsListedNext
    <3> QED
      BY <1>2, <1>5, <3>1, CachedIsListed
  <2>2. ASSUME NEW c \in Cached
        PROVE  c \in Cached'
    <3>1. PICK i \in 1..Len(entries) : entries[i] = c
      BY <1>2, CachedIsListed
    <3>2. PICK j \in 1..Len(entries) : old(j) = i
      BY <1>7
    <3> QED
      BY <1>3, <1>5, <3>1, <3>2, CachedIsListedNext
  <2> QED
    BY <2>1, <2>2
<1>9. ASSUME NEW i \in 1..Len(entries), NEW j \in 1..Len(entries), i < j
      PROVE  entries'[j] \in since'[entries'[i]]
  <2>1. old(i) # n
    BY <1>2, <1>9
  <2>2. old(j) = n \/ old(i) < old(j)
    BY <1>2, <1>9
  <2>3. entries[old(i)] # k
    BY <1>1, <1>5, <2>1 DEF Listing
  <2>4. since'[entries[old(i)]] = since[entries[old(i)]] \cup {k}
    BY <1>2, <1>4, <1>5, <2>3
  <2>5. entries[old(j)] \in since[entries[old(i)]] \cup {k}
    BY <1>1, <1>5, <2>2 DEF Listing
  <2> QED
    BY <1>5, <2>4, <2>5
<1>10. \A i, j \in 1..Len(entries) : entries'[i] = entries'[j] => i = j
  <2> HIDE DEF old
  <2> QED
    BY <1>5, <1>6 DEF Listing
<1> QED
  BY <1>3, <1>4, <1>8, <1>9, <1>10 DEF Listing

\* A new entry comes last; a full cache gives up its first one for it.
LEMMA InsertKeepsListing ==
  ASSUME CacheTypeOK, Listing, NEW t \in Threads, Insert(t)
  PROVE  /\ entries' \in Seq(Keys) /\ since' \in [Keys -> SUBSET Keys] /\ Listing'
         /\ key[t] \in Keys
         /\ Len(entries) # MaxSize => Cached' = Cached \cup {key[t]}
         /\ Len(entries) = MaxSize =>
              /\ Head(entries) \in Cached
              /\ Cached' = (Cached \ {Head(entries)}) \cup {key[t]}
<1> DEFINE k == key[t]
<1>1. k \in Keys /\ k \notin Cached
  BY ModelCacheAssumption DEF Insert, CacheTypeOK, Resting
<1>2. /\ entries \in Seq(Keys) /\ Len(entries) \in Nat /\ MaxSize \in Nat \ {0}
      /\ \A i \in 1..Len(entries) : entries[i] \in Keys /\ entries[i] # k
  BY <1>1, ModelCacheAssumption, CachedIsListed DEF CacheTypeOK
<1>3. /\ since' \in [Keys -> SUBSET Keys]
      /\ \A j \in Keys \ {k} : since'[j] = since[j] \cup {k}
  BY <1>1 DEF Insert, Use, CacheTypeOK
<1>4. CASE Len(entries) # MaxSize
  <2>1. entries' = Append(entries, k)
    BY <1>4 DEF Insert
  <2>2. /\ entries' \in Seq(Keys) /\ Len(entries') = Len(entries) + 1
        /\ \A i \in 1..Len(entries) : entries'[i] = entries[i]
        /\ entries'[Len(entries) + 1] = k
    BY <1>1, <1>2, <2>1
  <2>3. Cached' = Cached \cup {k}
    <3>1. \A i \in 1..Len(entries') : i \in 1..Len(entries) \/ i = Len(entries) + 1
      BY <1>2, <2>2
    <3>2. 1..Len(entries) \subseteq 1..Len(entries') /\ Len(entries) + 1 \in 1..Len(entries')
      BY <1>2, <2>2
    <3> QED
      BY <1>2, <2>2, <3>1, <3>2, CachedIsListed, CachedIsListedNext
  <2>4. ASSUME NEW i \in 1..Len(entries'), NEW j \in 1..Len(entries'), i < j
        PROVE  entries'[i] # entries'[j] /\ entries'[j] \in since'[entries'[i]]
    <3>1. i \in 1..Len(entries) /\ (j \in 1..Len(entries) \/ j = Len(entries) + 1)
      BY <1>2, <2>2, <2>4
    <3>2. since'[entries[i]] = since[entries[i]] \cup {k}
      BY <1>2, <1>3, <3>1
    <3> QED
      BY <1>2, <2>2, <2>4, <3>1, <3>2 DEF Listing
  <2>5. \A i, j \in 1..Len(entries') : i < j \/ j < i \/ i = j
    BY <1>2, <2>2
  <2>6. Len(entries') <= MaxSize
    BY <1>2, <1>4, <2>2 DEF Listing
  <2>7. Listing'
    BY <2>4, <2>5, <2>6 DEF Listing
  <2> QED
    BY <1>1, <1>3, <1>4, <2>2, <2>3, <2>7
<1>5. CASE Len(entries) = MaxSize
  <2>1. entries' = Append(Tail(entries), k)
    BY <1>5 DEF Insert
  <2>2. /\ entries # << >> /\ Head(entries) = entries[1] /\ 1 \in 1..Len(entries)
        /\ Tail(entries) \in Seq(Keys) /\ Len(Tail(entries)) = Len(entries) - 1
        /\ \A i \in 1..(Len(entries) - 1) : Tail(entries)[i] = entries[i + 1]
    BY <1>2, <1>5
  <2>3. /\ entries' \in Seq(Keys) /\ Len(entries') = Len(entries)
        /\ \A i \in 1..(Len(entries) - 1) : entries'[i] = entries[i + 1]
        /\ entries'[Len(entries)] = k
    BY <1>1, <1>2, <2>1, <2>2
  <2>4. Head(entries) \in Cached
    BY <1>2, <2>2, CachedIsListed
  <2>5. Cached' = (Cached \ {Head(entries)}) \cup {k}
    <3>1. ASSUME NEW c \in Cached'
          PROVE  c \in (Cached \ {Head(entries)}) \cup {k}
      <4>1. PICK i \in 1..Len(entries) : entries'[i] = c
        BY <2>3, CachedIsListedNext
      <4>2. CASE i = Len(entries)
        BY <2>3, <4>1, <4>2
      <4>3. CASE i # Len(entries)
        <5>1. i \in 1..(Len(entries) - 1) /\ i + 1 \in 1..Len(entries) /\ i + 1 # 1
          BY <1>2, <4>3
        <5>2. c = entries[i + 1] /\ c # entries[1]
          BY <2>2, <2>3, <4>1, <5>1 DEF Listing
        <5> QED
          BY <1>2, <2>2, <5>1, <5>2, CachedIsListed
      <4> QED
        BY <4>2, <4>3
    <3>2. ASSUME NEW c \in (Cached \ {Head(entries)}) \cup {k}
          PROVE  c \in Cached'
      <4>1. CASE c = k
        <5>1. Len(entries) \in 1..Len(entries')
          BY <1>2, <2>2, <2>3
        <5> QED
          BY <2>3, <4>1, <5>1, CachedIsListedNext
      <4>2. CASE c # k
        <5>1. PICK i \in 1..Len(entries) : entries[i] = c
          BY <1>2, <4>2, <3>2, CachedIsListed
        <5>2. i # 1
          BY <2>2, <3>2, <4>2, <5>1
        <5>3. i - 1 \in 1..(Len(entries) - 1) /\ i - 1 \in 1..Len(entries')
              /\ (i - 1) + 1 = i
          BY <1>2, <2>3, <5>2
        <5>4. entries'[i - 1] = c
          BY <2>3, <5>1, <5>3
        <5> QED
          BY <2>3, <5>3, <5>4, CachedIsListedNext
      <4> QED
        BY <4>1, <4>2
    <3> QED
      BY <3>1, <3>2
  <2>6. ASSUME NEW i \in 1..Len(entries'), NEW j \in 1..Len(entries'), i < j
        PROVE  entries'[i] # entries'[j] /\ entries'[j] \in since'[entries'[i]]
    <3>1. /\ i \in 1..(Len(entries) - 1) /\ i + 1 \in 1..Len(entries)
          /\ \/ j \in 1..(Len(entries) - 1) /\ j + 1 \in 1..Len(entries) /\ i + 1 < j + 1
             \/ j = Len(entries)
      BY <1>2, <2>3, <2>6
    <3>2. since'[entries[i + 1]] = since[entries[i + 1]] \cup {k}
      BY <1>2, <1>3, <3>1
    <3>3. entries'[i] = entries[i + 1] /\ entries[i + 1] # k
      BY <1>2, <2>3, <3>1
    <3>4. CASE j = Len(entries)
      BY <2>3, <3>2, <3>3, <3>4
    <3>5. CASE j # Len(entries)
      <4>1. j + 1 \in 1..Len(entries) /\ i + 1 < j + 1 /\ entries'[j] = entries[j + 1]
        BY <2>3, <3>1, <3>5
      <4>2. entries[j + 1] \in since[entries[i + 1]]
        BY <3>1, <4>1 DEF Listing
      <4>3. entries[i + 1] # entries[j + 1]
        <5>1. i + 1 # j + 1
          BY <2>6
        <5> QED
          BY <3>1, <4>1, <5>1 DEF Listing
      <4> QED
        BY <3>2, <3>3, <4>1, <4>2, <4>3
    <3> QED
      BY <3>4, <3>5
  <2>7. \A i, j \in 1..Len(entries') : i < j \/ j < i \/ i = j
    BY <1>2, <2>3
  <2>8. Len(entries') <= MaxSize
    BY <1>2, <1>5, <2>3
  <2>9. Listing'
    BY <2>6, <2>7, <2>8 DEF Listing
  <2> QED
    BY <1>1, <1>3, <1>5, <2>3, <2>4, <2>5, <2>9
<1> QED
  BY <1>4, <1>5

-----------------------------------------------------------------------------
(* The steps                                                               *)

LEMMA HitKeepsInv ==
  ASSUME CacheInv, NEW t \in Threads, NEW k \in Keys, Hit(t, k)
  PROVE  CacheInv'
<1> USE DEF CacheInv
<1>1. /\ entries' \in Seq(Keys) /\ since' \in [Keys -> SUBSET Keys]
      /\ Cached' = Cached /\ Listing'
  BY MoveToEndKeepsListing DEF Hit
<1>2. model[k] \in Objects /\ model[k] # None /\ k # None
  BY ModelCacheAssumption DEF Hit, Ownership, CacheTypeOK
<1>3. CacheTypeOK'
  BY <1>1, <1>2 DEF CacheTypeOK, Hit, Step, Phases, Resting
<1>4. Ownership'
  BY <1>1 DEF Ownership, UnloadedOnce, Hit, Step, CacheTypeOK
<1>5. OneGenerates'
  BY DEF OneGenerates, Hit, Step, CacheTypeOK
<1> QED
  BY <1>1, <1>3, <1>4, <1>5

LEMMA AdoptKeepsInv ==
  ASSUME CacheInv, NEW t \in Threads, Adopt(t)
  PROVE  CacheInv'
<1> USE DEF CacheInv
<1>1. key[t] \in Keys
  BY ModelCacheAssumption DEF Adopt, CacheTypeOK, Resting
<1>2. /\ entries' \in Seq(Keys) /\ since' \in [Keys -> SUBSET Keys]
      /\ Cached' = Cached /\ Listing'
  BY <1>1, MoveToEndKeepsListing DEF Adopt
<1>3. model[key[t]] \in Objects /\ model[key[t]] # None
  BY <1>1 DEF Adopt, Ownership, CacheTypeOK
<1>4. CacheTypeOK'
  BY <1>2, <1>3 DEF CacheTypeOK, Adopt, Step, Phases, Resting
<1>5. Ownership'
  BY <1>2 DEF Ownership, UnloadedOnce, Adopt, Step, CacheTypeOK
<1>6. OneGenerates'
  BY DEF OneGenerates, Adopt, Step, CacheTypeOK
<1> QED
  BY <1>2, <1>4, <1>5, <1>6

LEMMA InsertKeepsInv ==
  ASSUME CacheInv, NEW t \in Threads, Insert(t)
  PROVE  CacheInv'
<1> USE DEF CacheInv
<1> DEFINE k == key[t]
           lru == Head(entries)
<1>1. /\ entries' \in Seq(Keys) /\ since' \in [Keys -> SUBSET Keys] /\ Listing'
      /\ k \in Keys
      /\ Len(entries) # MaxSize => Cached' = Cached \cup {k}
      /\ Len(entries) = MaxSize => lru \in Cached /\ Cached' = (Cached \ {lru}) \cup {k}
  BY InsertKeepsListing
<1>2. /\ k \notin Cached /\ call[t] = "loaded" /\ model[k] = None
      /\ held[t] \in Objects /\ held[t] # None
  BY <1>1 DEF Insert, Ownership, CacheTypeOK, Resting
<1>3. CASE Len(entries) # MaxSize
  <2>1. /\ model' = [model EXCEPT ![k] = held[t]] /\ Cached' = Cached \cup {k}
        /\ call' = [call EXCEPT ![t] = "ready"] /\ victim' = victim
        /\ UNCHANGED <<key, held, unloaded, busy>>
    BY <1>1, <1>3 DEF Insert, Step
  <2>2. CacheTypeOK'
    BY <1>1, <1>2, <2>1 DEF CacheTypeOK, Phases, Resting
  <2>3. Ownership'
    BY <1>1, <1>2, <2>1 DEF Ownership, UnloadedOnce, CacheTypeOK
  <2>4. OneGenerates'
    BY <2>1 DEF OneGenerates, CacheTypeOK
  <2> QED
    BY <1>1, <2>2, <2>3, <2>4
<1>4. CASE Len(entries) = MaxSize
  <2>1. /\ model' = [model EXCEPT ![k] = held[t], ![lru] = None]
        /\ lru \in Cached /\ Cached' = (Cached \ {lru}) \cup {k}
        /\ call' = [call EXCEPT ![t] = "unloading"]
        /\ victim' = [victim EXCEPT ![t] = model[lru]]
        /\ UNCHANGED <<key, held, unloaded, busy>>
    BY <1>1, <1>4 DEF Insert, Step
  <2>2. lru \in Keys /\ lru # k
    <3>1. entries \in Seq(Keys)
      BY DEF CacheTypeOK
    <3> QED
      BY <1>2, <2>1, <3>1, CachedIsListed
  <2>3. /\ model[lru] \in Objects /\ model[lru] # None /\ model[lru] \notin unloaded
        /\ \A u \in Threads : victim[u] # model[lru]
        /\ model'[lru] = None /\ model'[k] = held[t]
        /\ \A j \in Keys \ {k, lru} : model'[j] = model[j]
    BY <1>1, <2>1, <2>2 DEF Ownership, CacheTypeOK
  <2>4. CacheTypeOK'
    <3>1. /\ model' \in [Keys -> Objects \cup {None}]
          /\ victim' \in [Threads -> Objects \cup {None}]
          /\ call' \in [Threads -> Phases]
      BY <1>1, <1>2, <2>1, <2>2, <2>3 DEF CacheTypeOK, Phases, Resting
    <3> QED
      BY <1>1, <1>2, <2>1, <3>1 DEF CacheTypeOK, Resting
  <2>5. Ownership'
    <3>1. /\ \A j \in Keys : j \in Cached' <=> model'[j] # None
          /\ \A i, j \in Keys : model'[i] = model'[j] /\ model'[i] # None => i = j
      <4>1. ASSUME NEW j \in Keys
            PROVE  j \in Cached' <=> model'[j] # None
        BY <1>1, <1>2, <2>1, <2>2, <2>3 DEF Ownership
      <4>2. ASSUME NEW i \in Keys, NEW j \in Keys, model'[i] = model'[j], model'[i] # None
            PROVE  i = j
        <5>1. i # lru /\ j # lru
          BY <2>3, <4>2
        <5>2. \A c \in Keys : model[c] # held[t]
          BY <1>2 DEF Ownership
        <5>3. model[i] = model[j] /\ model[i] # None => i = j
          BY DEF Ownership
        <5> QED
          BY <2>3, <4>2, <5>1, <5>2, <5>3
      <4> QED
        BY <4>1, <4>2
    <3>2. /\ victim'[t] = model[lru] /\ \A u \in Threads \ {t} : victim'[u] = victim[u]
          /\ call'[t] = "unloading" /\ \A u \in Threads \ {t} : call'[u] = call[u]
      BY <2>1 DEF CacheTypeOK
    <3>3. \A j \in Keys : model'[j] # None =>
            model'[j] \notin unloaded /\ \A u \in Threads : victim'[u] # model'[j]
      BY <1>1, <1>2, <2>2, <2>3, <3>2 DEF Ownership
    <3>4. UnloadedOnce'
      BY <2>1, <2>3, <3>2 DEF UnloadedOnce, Ownership
    <3>5. ASSUME NEW u \in Threads, call'[u] = "loaded"
          PROVE  /\ held[u] \notin unloaded
                 /\ \A j \in Keys : model'[j] # held[u]
                 /\ \A v \in Threads : victim'[v] # held[u]
                 /\ \A v \in Threads \ {u} : call'[v] = "loaded" => held[v] # held[u]
      <4>1. u # t /\ call[u] = "loaded"
        BY <3>2, <3>5
      <4>2. held[u] # held[t] /\ held[u] # model[lru] /\ held[u] # None
        <5>1. held[u] # None
          BY <4>1 DEF CacheTypeOK, Resting
        <5>2. held[u] # held[t] /\ held[u] # model[lru]
          BY <1>2, <2>2, <4>1 DEF Ownership
        <5> QED
          BY <5>1, <5>2
      <4>3. \A v \in Threads : victim'[v] # held[u]
        BY <3>2, <4>1, <4>2 DEF Ownership
      <4>4. \A j \in Keys : model'[j] # held[u]
        BY <2>3, <4>1, <4>2 DEF Ownership
      <4> QED
        BY <3>2, <4>1, <4>3, <4>4 DEF Ownership
    <3>6. \A u \in Threads : call'[u] = "unloading" => victim'[u] # None
      BY <2>3, <3>2 DEF Ownership
    <3>7. UNCHANGED <<held, unloaded>>
      BY <2>1
    <3> QED
      BY <3>1, <3>3, <3>4, <3>5, <3>6, <3>7 DEF Ownership
  <2>6. OneGenerates'
    BY <2>1 DEF OneGenerates, CacheTypeOK
  <2> QED
    BY <1>1, <2>4, <2>5, <2>6
<1> QED
  BY <1>3, <1>4

\* The steps that leave the list alone.
LEMMA ListUntouched ==
  ASSUME Listing, UNCHANGED <<entries, since>>
  PROVE  Listing' /\ Cached' = Cached
  BY DEF Listing, Cached

LEMMA UnloadKeepsInv ==
  ASSUME CacheInv, NEW t \in Threads, Unload(t)
  PROVE  CacheInv'
<1> USE DEF CacheInv
<1>1. Listing' /\ Cached' = Cached
  BY ListUntouched DEF Unload
<1>2. victim[t] \in Objects /\ victim[t] # None
  BY DEF Unload, Ownership, CacheTypeOK
<1>3. CacheTypeOK'
  BY <1>2 DEF CacheTypeOK, Unload, Step, Phases, Resting
<1>4. Ownership'
  <2>1. /\ unloaded' \in {unloaded, unloaded \cup {victim[t]}}
        /\ victim'[t] = None /\ \A u \in Threads \ {t} : victim'[u] = victim[u]
        /\ call'[t] = "ready" /\ \A u \in Threads \ {t} : call'[u] = call[u]
        /\ UNCHANGED <<model, held>>
    BY DEF Unload, Step, CacheTypeOK
  <2>2. UnloadedOnce'
    BY <1>2, <2>1 DEF UnloadedOnce, Ownership
  <2>3. \A k \in Keys : model[k] # None =>
          model[k] \notin unloaded' /\ \A u \in Threads : victim'[u] # model[k]
    BY <2>1 DEF Ownership
  <2>4. ASSUME NEW u \in Threads, call'[u] = "loaded"
        PROVE  /\ held[u] \notin unloaded'
               /\ \A j \in Keys : model[j] # held[u]
               /\ \A v \in Threads : victim'[v] # held[u]
               /\ \A v \in Threads \ {u} : call'[v] = "loaded" => held[v] # held[u]
    <3>1. u # t /\ call[u] = "loaded" /\ held[u] # None
      BY <2>1, <2>4 DEF CacheTypeOK, Resting
    <3> QED
      BY <2>1, <2>4, <3>1 DEF Ownership
  <2> QED
    BY <1>1, <2>1, <2>2, <2>3, <2>4 DEF Ownership
<1>5. OneGenerates'
  BY DEF OneGenerates, Unload, Step, CacheTypeOK
<1> QED
  BY <1>1, <1>3, <1>4, <1>5

LEMMA LoadReturnsKeepsInv ==
  ASSUME CacheInv, NEW t \in Threads, LoadReturns(t)
  PROVE  CacheInv'
<1> USE DEF CacheInv
<1>1. Listing' /\ Cached' = Cached
  BY ListUntouched DEF LoadReturns
<1>2. PICK o \in Objects \ Referenced :
        held' = [held EXCEPT ![t] = o] /\ unloaded' = unloaded \ {o}
  BY DEF LoadReturns
<1>3. /\ o # None /\ \A j \in Keys : model[j] # o
      /\ \A u \in Threads : held[u] # o /\ victim[u] # o
  BY <1>2, ModelCacheAssumption DEF Referenced
<1>4. CacheTypeOK'
  BY <1>2, <1>3 DEF CacheTypeOK, LoadReturns, Step, Phases, Resting
<1>5. Ownership'
  BY <1>1, <1>2, <1>3 DEF Ownership, UnloadedOnce, LoadReturns, Step, CacheTypeOK
<1>6. OneGenerates'
  BY DEF OneGenerates, LoadReturns, Step, CacheTypeOK
<1> QED
  BY <1>1, <1>4, <1>5, <1>6

\* Refused, missing, generating, and the ends of a call.
LEMMA OtherStepsKeepInv ==
  ASSUME CacheInv, NEW t \in Threads,
         \/ \E k \in Keys : Reject(t, k) \/ Miss(t, k)
         \/ LoadRaises(t) \/ Generate(t) \/ PreloadEnds(t)
         \/ \E outcome \in Resting : GenerateEnds(t, outcome)
  PROVE  CacheInv'
<1> USE DEF CacheInv
<1>1. /\ UNCHANGED <<entries, model, victim, unloaded, since>>
      /\ \A u \in Threads \ {t} :
           call'[u] = call[u] /\ key'[u] = key[u] /\ held'[u] = held[u]
      /\ call'[t] \notin {"loaded", "unloading"}
  BY DEF Reject, Miss, LoadRaises, Generate, PreloadEnds, GenerateEnds, EndCall, Step, Resting,
     CacheTypeOK
<1>2. Listing' /\ Cached' = Cached
  BY <1>1, ListUntouched
<1>3. Ownership'
  BY <1>1, <1>2 DEF Ownership, UnloadedOnce
<1>4. CacheTypeOK' /\ OneGenerates'
  <2>1. CASE \E k \in Keys : Reject(t, k) \/ Miss(t, k)
    BY <2>1, ModelCacheAssumption DEF Reject, Miss, Step, CacheTypeOK, OneGenerates, Phases, Resting
  <2>2. CASE LoadRaises(t) \/ PreloadEnds(t)
    BY <2>2 DEF LoadRaises, PreloadEnds, EndCall, Step, CacheTypeOK, OneGenerates, Phases, Resting
  <2>3. CASE Generate(t)
    BY <2>3 DEF Generate, Step, CacheTypeOK, OneGenerates, Phases, Resting
  <2>4. CASE \E outcome \in Resting : GenerateEnds(t, outcome)
    BY <2>4 DEF GenerateEnds, EndCall, Step, CacheTypeOK, OneGenerates, Phases, Resting
  <2> QED
    BY <2>1, <2>2, <2>3, <2>4
<1> QED
  BY <1>2, <1>3, <1>4

-----------------------------------------------------------------------------
(* The theorems                                                            *)

THEOREM CacheInvHolds == CacheSpec => []CacheInv
<1>1. CacheInit => CacheInv
  BY ModelCacheAssumption
     DEF CacheInit, CacheInv, CacheTypeOK, Listing, Ownership, UnloadedOnce, OneGenerates,
         Cached, ToSet, Phases, Resting
<1>2. CacheInv /\ [CacheNext]_cacheVars => CacheInv'
  <2> SUFFICES ASSUME CacheInv, [CacheNext]_cacheVars
               PROVE  CacheInv'
    OBVIOUS
  <2>1. CASE UNCHANGED cacheVars
    BY <2>1 DEF cacheVars, CacheInv, CacheTypeOK, Listing, Ownership, UnloadedOnce,
       OneGenerates, Cached
  <2>2. CASE CacheNext
    <3>1. PICK t \in Threads :
            \/ \E k \in Keys : Call(t, k)
            \/ Inside(t) \/ PreloadEnds(t)
            \/ \E outcome \in Resting : GenerateEnds(t, outcome)
      BY <2>2 DEF CacheNext
    <3>2. CASE \E k \in Keys : Hit(t, k)
      BY <3>2, HitKeepsInv
    <3>3. CASE LoadReturns(t) \/ Adopt(t) \/ Insert(t) \/ Unload(t)
      BY <3>3, LoadReturnsKeepsInv, AdoptKeepsInv, InsertKeepsInv, UnloadKeepsInv
    <3>4. CASE \/ \E k \in Keys : Reject(t, k) \/ Miss(t, k)
               \/ LoadRaises(t) \/ Generate(t) \/ PreloadEnds(t)
               \/ \E outcome \in Resting : GenerateEnds(t, outcome)
      BY <3>4, OtherStepsKeepInv
    <3> QED
      BY <3>1, <3>2, <3>3, <3>4 DEF Call, Inside
  <2> QED
    BY <2>1, <2>2
<1> QED
  BY <1>1, <1>2, PTL DEF CacheSpec

\* The type invariant: a call has a key, an object and the provider lock
\* exactly from the step that gives it one to the step that takes it away.
THEOREM CacheTypeCorrect == CacheSpec => []CacheTypeOK
<1>1. CacheInv => CacheTypeOK
  BY DEF CacheInv
<1> QED
  BY <1>1, CacheInvHolds, PTL

\* FR-CA-01: the cache of get_or_load and _install keeps its bound and never
\* lists an object twice, nor one that has been or will be unloaded.
THEOREM CacheAlwaysCoherent == CacheSpec => []CacheCoherent
<1>1. CacheInv => CacheCoherent
  <2> SUFFICES ASSUME CacheInv
               PROVE  CacheCoherent
    OBVIOUS
  <2> USE DEF CacheInv
  <2>1. /\ entries \in Seq(Keys) /\ Len(entries) \in Nat
        /\ entries \in [1..Len(entries) -> Keys]
        /\ Cached \subseteq Keys
    BY CachedIsListed DEF CacheTypeOK
  <2>2. Cardinality(Cached) = Len(entries)
    <3>1. entries \in [1..Len(entries) -> Cached]
      BY <2>1, CachedIsListed
    <3>2. entries \in Injection(1..Len(entries), Cached)
      BY <3>1 DEF Injection, IsInjective, Listing
    <3>3. entries \in Surjection(1..Len(entries), Cached)
      BY <2>1, <3>1, CachedIsListed DEF Surjection
    <3>4. ExistsBijection(1..Len(entries), Cached)
      BY <3>2, <3>3 DEF ExistsBijection, Bijection
    <3> QED
      BY <2>1, <3>4, FS_CountingElements
  <2> QED
    BY <2>1, <2>2 DEF CacheCoherent, Listing, Ownership
<1> QED
  BY <1>1, CacheInvHolds, PTL

\* model_cache.py:8-13: pending_unloads belong to one call each.
THEOREM EachUnloadedOnce == CacheSpec => []UnloadedOnce
<1>1. CacheInv => UnloadedOnce
  BY DEF CacheInv, Ownership
<1> QED
  BY <1>1, CacheInvHolds, PTL

\* get_or_load: a call has an evicted entry only until its unload_fn returns.
VictimsAreUnloading == \A t \in Threads : victim[t] # None => call[t] = "unloading"

THEOREM VictimsAreDropped == CacheSpec => []VictimsAreUnloading
<1>1. CacheInit => VictimsAreUnloading
  BY DEF CacheInit, VictimsAreUnloading
<1>2. CacheInv /\ VictimsAreUnloading /\ [CacheNext]_cacheVars => VictimsAreUnloading'
  <2> SUFFICES ASSUME CacheTypeOK, VictimsAreUnloading, CacheNext
               PROVE  VictimsAreUnloading'
    BY DEF CacheInv, VictimsAreUnloading, cacheVars
  <2>1. PICK t \in Threads :
          \/ \E k \in Keys : Call(t, k)
          \/ Inside(t) \/ PreloadEnds(t)
          \/ \E outcome \in Resting : GenerateEnds(t, outcome)
    BY DEF CacheNext
  <2>2. /\ call \in [Threads -> Phases]
        /\ victim \in [Threads -> Objects \cup {None}]
    BY DEF CacheTypeOK
  <2>3. CASE Insert(t) \/ Unload(t)
    BY <2>2, <2>3 DEF Insert, Unload, Step, VictimsAreUnloading
  <2>4. CASE victim' = victim /\ call[t] # "unloading" /\ \E to : Step(t, to)
    BY <2>2, <2>4 DEF Step, VictimsAreUnloading
  <2>5. (\E k \in Keys : Call(t, k)) => victim' = victim /\ call[t] # "unloading" /\ \E to : Step(t, to)
    BY DEF Call, Hit, Reject, Miss, Resting
  <2> QED
    BY <2>1, <2>3, <2>4, <2>5
       DEF Inside, LoadReturns, LoadRaises, Adopt, Generate, PreloadEnds, GenerateEnds, EndCall
<1> QED
  BY <1>1, <1>2, CacheInvHolds, PTL DEF CacheSpec

\* FR-CA-01: whichever thread installs, and however hits, loads and lost
\* races of the others interleave, it evicts the least recently used key.
THEOREM EvictionFollowsUse == CacheSpec => EvictsLeastRecent
<1> DEFINE Evict ==
      \A k \in Cached : k \notin ToSet(entries') =>
        /\ Cached \ {k} \subseteq since[k]
        /\ Len(entries) = MaxSize
        /\ \E j \in ToSet(entries') : j \notin Cached
<1>1. CacheInv /\ [CacheNext]_cacheVars => [Evict]_cacheVars
  <2> SUFFICES ASSUME CacheInv, CacheNext, NEW k \in Cached, k \notin Cached'
               PROVE  /\ Cached \ {k} \subseteq since[k]
                      /\ Len(entries) = MaxSize
                      /\ \E j \in Cached' : j \notin Cached
    BY DEF Cached
  <2> USE DEF CacheInv
  <2>1. PICK t \in Threads :
          \/ \E j \in Keys : Call(t, j)
          \/ Inside(t) \/ PreloadEnds(t)
          \/ \E outcome \in Resting : GenerateEnds(t, outcome)
    BY DEF CacheNext
  <2>2. ASSUME entries' = entries
        PROVE  FALSE
    BY <2>2 DEF Cached
  <2>3. ASSUME NEW j \in Keys, Call(t, j)
        PROVE  FALSE
    <3>1. CASE Hit(t, j)
      BY <3>1, MoveToEndKeepsListing DEF Hit
    <3> QED
      BY <2>2, <2>3, <3>1 DEF Call, Reject, Miss
  <2>4. ASSUME Adopt(t)
        PROVE  FALSE
    <3>1. key[t] \in Keys
      BY <2>4, ModelCacheAssumption DEF Adopt, CacheTypeOK, Resting
    <3> QED
      BY <2>4, <3>1, MoveToEndKeepsListing DEF Adopt
  <2>5. Insert(t)
    BY <2>1, <2>2, <2>3, <2>4 DEF Inside, PreloadEnds, GenerateEnds, LoadReturns, LoadRaises,
       Unload, Generate
  <2>6. /\ Len(entries) # MaxSize => Cached' = Cached \cup {key[t]}
        /\ Len(entries) = MaxSize => Cached' = (Cached \ {Head(entries)}) \cup {key[t]}
        /\ key[t] \notin Cached
    BY <2>5, InsertKeepsListing DEF Insert
  <2>7. /\ Len(entries) = MaxSize /\ k = Head(entries)
        /\ key[t] \in Cached'
    BY <2>6
  <2>8. ASSUME NEW j \in Cached \ {k}
        PROVE  j \in since[k]
    <3>1. /\ entries \in Seq(Keys) /\ Len(entries) \in Nat /\ MaxSize \in Nat \ {0}
      BY ModelCacheAssumption DEF CacheTypeOK
    <3>2. Head(entries) = entries[1] /\ 1 \in 1..Len(entries)
      BY <2>7, <3>1
    <3>3. PICK i \in 1..Len(entries) : entries[i] = j
      BY <3>1, CachedIsListed
    <3>4. 1 < i
      BY <2>7, <2>8, <3>1, <3>2, <3>3
    <3> QED
      BY <2>7, <3>2, <3>3, <3>4 DEF Listing
  <2> QED
    BY <2>6, <2>7, <2>8
<1> QED
  BY <1>1, CacheInvHolds, PTL DEF EvictsLeastRecent, CacheSpec
=============================================================================

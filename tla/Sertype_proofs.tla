--------------------------- MODULE Sertype_proofs ---------------------------
(***************************************************************************)
(* Proofs about Sertype, for every set of topics and any number of         *)
(* serdata: the reference counts are the users, so what is released is     *)
(* used by nobody, and what nobody uses is released.                       *)
(***************************************************************************)
EXTENDS Sertype, FiniteSetTheorems, TLAPS

\* The parts of the state that are indexed by a serdata.
Shape ==
    /\ \E n \in Nat : DOMAIN serdata = 1 .. n
    /\ refc \in [DOMAIN serdata -> Nat]
    /\ freed \in [DOMAIN serdata -> Nat]
    /\ freeing \in [DOMAIN serdata -> Nat]
    /\ maker \subseteq DOMAIN serdata
    /\ cache \subseteq DOMAIN serdata
    /\ iovs \subseteq DOMAIN serdata
    /\ tkmap \subseteq DOMAIN instance
    /\ DOMAIN instance \subseteq DOMAIN serdata

\* Each user holds one reference ...
Counted == \A a \in DOMAIN serdata : refc[a] = Users(a)

\* ... and the release is due, or done, once, when the last one is dropped.
Released ==
    \A a \in DOMAIN serdata :
       IF refc[a] = 0 THEN freeing[a] + freed[a] = 1 ELSE freeing[a] = 0 /\ freed[a] = 0

\* The inductive invariant.
Counting == Shape /\ Counted /\ Released

\* A new serdata gets an id that none had before.
LEMMA NewIdLemma ==
    ASSUME Shape
    PROVE  \E n \in Nat : DOMAIN serdata = 1 .. n /\ NewId = n + 1
  <1>1. PICK n \in Nat : DOMAIN serdata = 1 .. n
    BY DEF Shape
  <1>2. Cardinality(1 .. n) = n
    BY FS_Interval
  <1> QED BY <1>1, <1>2 DEF NewId

\* Nothing exists at first.
LEMMA CountingInit == Init => Counting
  <1> SUFFICES ASSUME Init PROVE Counting
    OBVIOUS
  <1>1. DOMAIN serdata = {} /\ DOMAIN instance = {} /\ {} = 1 .. 0
    BY DEF Init, EmptyMap
  <1>2. Shape
    BY <1>1 DEF Init, EmptyMap, Shape
  <1> QED BY <1>1, <1>2 DEF Counting, Counted, Released

\* The constructors (sertype.rs: sd_from_sample, sd_from_ser, sd_from_keyhash)
\* begin with the one reference of the maker.
LEMMA MakeCounts ==
    ASSUME Counting, NEW x, Make(x)
    PROVE  Counting'
  <1>1. PICK n \in Nat : DOMAIN serdata = 1 .. n /\ NewId = n + 1
    BY NewIdLemma DEF Counting
  <1> DEFINE new == n + 1
  <1>2. DOMAIN serdata' = 1 .. new /\ new \notin DOMAIN serdata
    BY <1>1 DEF Make, insert
  <1>3. /\ refc' = [a \in 1 .. new |-> IF a = new THEN 1 ELSE refc[a]]
        /\ freed' = [a \in 1 .. new |-> IF a = new THEN 0 ELSE freed[a]]
        /\ freeing' = [a \in 1 .. new |-> IF a = new THEN 0 ELSE freeing[a]]
        /\ maker' = maker \cup {new}
        /\ UNCHANGED <<instance, tkmap, cache, iovs>>
    BY <1>1 DEF Make, insert, Counting, Shape
  <1>4. Shape'
    BY <1>1, <1>2, <1>3, SMTT(30) DEF Counting, Shape
  <1>5. \A a \in 1 .. n : Users(a)' = Users(a)
    BY <1>1, <1>3 DEF Users
  <1>6. Users(new)' = 1
    BY <1>1, <1>2, <1>3 DEF Users, Counting, Shape
  <1>7. Counted' /\ Released'
    BY <1>1, <1>2, <1>3, <1>5, <1>6, SMTT(30) DEF Counting, Counted, Released, Shape
  <1> QED BY <1>4, <1>7 DEF Counting

\* A user that comes takes a reference (serdata_ref, sertype.rs:91-95); there
\* is another user already, so the serdata is alive.
LEMMA RefCounts ==
    ASSUME Counting, NEW a \in DOMAIN serdata, serdata_ref(a), Shape',
           Users(a) > 0, Users(a)' = Users(a) + 1,
           \A b \in DOMAIN serdata : b # a => Users(b)' = Users(b)
    PROVE  Counting'
  <1>1. /\ serdata' = serdata /\ freed' = freed /\ freeing' = freeing
        /\ refc[a] \in Nat /\ refc[a] = Users(a)
        /\ \A b \in DOMAIN serdata : refc'[b] = IF b = a THEN refc[a] + 1 ELSE refc[b]
    BY DEF Counting, Counted, Shape, serdata_ref
  <1>2. Counted'
    <2> SUFFICES ASSUME NEW b \in DOMAIN serdata PROVE refc'[b] = Users(b)'
      BY <1>1 DEF Counted
    <2> QED BY <1>1 DEF Counting, Counted
  <1>3. Released'
    BY <1>1 DEF Counting, Released
  <1> QED BY <1>2, <1>3 DEF Counting

\* What a new reference leaves alone.
LEMMA RefShape ==
    ASSUME Counting, NEW a \in DOMAIN serdata, serdata_ref(a),
           maker' = maker, cache' \subseteq cache \cup {a}, iovs' \subseteq iovs \cup {a},
           tkmap' \subseteq DOMAIN instance', DOMAIN instance' \subseteq DOMAIN serdata
    PROVE  Shape'
  <1>1. refc[a] + 1 \in Nat
    BY DEF Counting, Shape
  <1>2. refc' \in [DOMAIN serdata -> Nat]
    BY <1>1 DEF Counting, Shape, serdata_ref
  <1> QED BY <1>2 DEF Counting, Shape, serdata_ref

\* What a dropped reference leaves alone.
LEMMA UnrefShape ==
    ASSUME Counting, NEW a \in DOMAIN serdata, serdata_unref(a), Users(a) > 0,
           maker' \subseteq maker, tkmap' \subseteq tkmap, cache' \subseteq cache,
           iovs' \subseteq iovs, instance' = instance
    PROVE  Shape'
  <1>1. refc[a] - 1 \in Nat /\ freeing[a] + 1 \in Nat
    BY DEF Counting, Counted, Shape
  <1> QED BY <1>1 DEF Counting, Shape, serdata_unref

\* A user that goes drops its reference (serdata_unref, sertype.rs:97-103).
LEMMA UnrefCounts ==
    ASSUME Counting, NEW a \in DOMAIN serdata, serdata_unref(a), Shape',
           Users(a) > 0, Users(a)' = Users(a) - 1,
           \A b \in DOMAIN serdata : b # a => Users(b)' = Users(b)
    PROVE  Counting'
  <1>1. /\ serdata' = serdata /\ freed' = freed
        /\ refc[a] \in Nat /\ refc[a] = Users(a)
        /\ \A b \in DOMAIN serdata : refc'[b] = IF b = a THEN refc[a] - 1 ELSE refc[b]
        /\ \A b \in DOMAIN serdata :
              freeing'[b] = IF b = a /\ refc[a] = 1 THEN freeing[b] + 1 ELSE freeing[b]
    BY DEF Counting, Counted, Shape, serdata_unref
  <1>2. Counted'
    <2> SUFFICES ASSUME NEW b \in DOMAIN serdata PROVE refc'[b] = Users(b)'
      BY <1>1 DEF Counted
    <2> QED BY <1>1 DEF Counting, Counted
  <1>3. Released'
    <2> SUFFICES ASSUME NEW b \in DOMAIN serdata
                 PROVE  IF refc'[b] = 0 THEN freeing'[b] + freed[b] = 1
                        ELSE freeing'[b] = 0 /\ freed[b] = 0
      BY <1>1 DEF Released
    <2>1. /\ freeing[b] \in Nat /\ freed[b] \in Nat
          /\ IF refc[b] = 0 THEN freeing[b] + freed[b] = 1
             ELSE freeing[b] = 0 /\ freed[b] = 0
      BY DEF Counting, Released, Shape
    <2> QED BY <1>1, <2>1
  <1> QED BY <1>2, <1>3 DEF Counting

\* sd_free does what was due.
LEMMA FreeCounts ==
    ASSUME Counting, NEW a \in DOMAIN serdata, sd_free(a)
    PROVE  Counting'
  <1>1. /\ UNCHANGED <<serdata, refc, maker, instance, tkmap, cache, iovs>>
        /\ freeing[a] \in Nat /\ freed[a] \in Nat /\ freeing[a] > 0
        /\ freeing' = [freeing EXCEPT ![a] = freeing[a] - 1]
        /\ freed' = [freed EXCEPT ![a] = freed[a] + 1]
    BY DEF sd_free, Counting, Shape
  <1>2. Shape'
    <2>1. freeing[a] - 1 \in Nat /\ freed[a] + 1 \in Nat
      BY <1>1
    <2>2. freeing' \in [DOMAIN serdata -> Nat] /\ freed' \in [DOMAIN serdata -> Nat]
      BY <1>1, <2>1 DEF Counting, Shape
    <2> QED BY <1>1, <2>2 DEF Counting, Shape
  <1>3. Counted'
    BY <1>1 DEF Counting, Counted, Users
  <1>4. Released'
    <2> SUFFICES ASSUME NEW b \in DOMAIN serdata
                 PROVE  IF refc[b] = 0 THEN freeing'[b] + freed'[b] = 1
                        ELSE freeing'[b] = 0 /\ freed'[b] = 0
      BY <1>1 DEF Released
    <2>1. /\ freeing[b] \in Nat /\ freed[b] \in Nat
          /\ IF refc[b] = 0 THEN freeing[b] + freed[b] = 1
             ELSE freeing[b] = 0 /\ freed[b] = 0
      BY DEF Counting, Released, Shape
    <2>2. /\ freeing'[b] = IF b = a THEN freeing[a] - 1 ELSE freeing[b]
          /\ freed'[b] = IF b = a THEN freed[a] + 1 ELSE freed[b]
      BY <1>1 DEF Counting, Shape
    <2> QED BY <1>1, <2>1, <2>2
  <1> QED BY <1>2, <1>3, <1>4 DEF Counting

\* Steps that touch neither a count nor a user.
LEMMA FrameCounts ==
    ASSUME Counting, UNCHANGED <<serdata, refc, freed, freeing, maker, tkmap, cache, iovs>>,
           DOMAIN instance \subseteq DOMAIN instance',
           DOMAIN instance' \subseteq DOMAIN serdata
    PROVE  Counting'
  BY DEF Counting, Shape, Counted, Released, Users

\* Every use of a serdata by Cyclone keeps the invariant.
LEMMA UseCounts ==
    ASSUME Counting, NEW a \in DOMAIN serdata, Use(a)
    PROVE  Counting'
  <1> USE DEF Users
  <1>1. CASE LookupFinds(a)
    BY <1>1, FrameCounts DEF LookupFinds, insert, Counting, Shape
  <1>2. CASE sd_to_untyped(a)
    <2>1. /\ serdata_ref(a) /\ tkmap' = tkmap \cup {a} /\ a \notin tkmap /\ a \in maker
          /\ DOMAIN instance' = DOMAIN instance \cup {a}
          /\ UNCHANGED <<maker, cache, iovs>>
      BY <1>2 DEF sd_to_untyped, insert, Counting, Shape
    <2>2. Shape'
      BY <2>1, RefShape DEF Counting, Shape
    <2> QED BY <2>1, <2>2, RefCounts
  <1>3. CASE Store(a)
    <2>1. /\ serdata_ref(a) /\ cache' = cache \cup {a} /\ a \notin cache /\ a \in maker
          /\ UNCHANGED <<maker, instance, tkmap, iovs>>
      BY <1>3 DEF Store
    <2>2. Shape'
      BY <2>1, RefShape DEF Counting, Shape
    <2> QED BY <2>1, <2>2, RefCounts
  <1>4. CASE Drop(a)
    <2>1. /\ serdata_unref(a) /\ maker' = maker \ {a} /\ a \in maker
          /\ UNCHANGED <<instance, tkmap, cache, iovs>>
      BY <1>4 DEF Drop
    <2>2. Shape'
      BY <2>1, UnrefShape
    <2> QED BY <2>1, <2>2, UnrefCounts
  <1>5. CASE sd_to_ser_ref(a)
    <2>1. /\ serdata_ref(a) /\ iovs' = iovs \cup {a} /\ a \notin iovs /\ a \in maker
          /\ UNCHANGED <<maker, instance, tkmap, cache>>
      BY <1>5 DEF sd_to_ser_ref
    <2>2. Shape'
      BY <2>1, RefShape DEF Counting, Shape
    <2> QED BY <2>1, <2>2, RefCounts
  <1>6. CASE sd_to_ser_unref(a)
    <2>1. /\ serdata_unref(a) /\ iovs' = iovs \ {a} /\ a \in iovs
          /\ UNCHANGED <<maker, instance, tkmap, cache>>
      BY <1>6 DEF sd_to_ser_unref
    <2>2. Shape'
      BY <2>1, UnrefShape
    <2> QED BY <2>1, <2>2, UnrefCounts
  <1>7. CASE sd_to_sample(a)
    <2>1. /\ serdata_unref(a) /\ cache' = cache \ {a} /\ a \in cache
          /\ UNCHANGED <<maker, instance, tkmap, iovs>>
      BY <1>7 DEF sd_to_sample
    <2>2. Shape'
      BY <2>1, UnrefShape
    <2> QED BY <2>1, <2>2, UnrefCounts
  <1>8. CASE Forget(a)
    <2>1. /\ serdata_unref(a) /\ tkmap' = tkmap \ {a} /\ a \in tkmap
          /\ UNCHANGED <<maker, instance, cache, iovs>>
      BY <1>8 DEF Forget
    <2>2. Shape'
      BY <2>1, UnrefShape
    <2> QED BY <2>1, <2>2, UnrefCounts
  <1>9. CASE sd_free(a)
    BY <1>9, FreeCounts
  <1> QED
    BY <1>1, <1>2, <1>3, <1>4, <1>5, <1>6, <1>7, <1>8, <1>9 DEF Use

\* Every step keeps the invariant.
LEMMA CountingStep == Counting /\ [Next]_vars => Counting'
  <1> SUFFICES ASSUME Counting, [Next]_vars PROVE Counting'
    OBVIOUS
  <1>1. ASSUME NEW x, Make(x) PROVE Counting'
    BY <1>1, MakeCounts
  <1>2. ASSUME NEW a \in DOMAIN serdata, Use(a) PROVE Counting'
    BY <1>2, UseCounts
  <1>3. CASE free_sample_data
    BY <1>3, FrameCounts DEF free_sample_data, Counting, Shape
  <1>4. CASE UNCHANGED vars
    BY <1>4, FrameCounts DEF vars, Counting, Shape
  <1> QED
    BY <1>1, <1>2, <1>3, <1>4 DEF Next, sd_from_sample, sd_from_ser, sd_from_keyhash

\* Reference counts are exact, whatever Cyclone's threads do in which order.
LEMMA CountingInvariant == Spec => []Counting
  BY CountingInit, CountingStep, PTL DEF Spec

\* No serdata is used after, or while, sd_free releases it, and none is
\* released twice (sertype.rs:91-103).
THEOREM NeverUsedAfterFree == Spec => []NoUseAfterFree
  <1>1. Counting => NoUseAfterFree
    <2> SUFFICES ASSUME Counting, NEW a \in DOMAIN serdata
                 PROVE  /\ Users(a) > 0 => freeing[a] = 0 /\ freed[a] = 0
                        /\ freeing[a] + freed[a] <= 1
      BY DEF NoUseAfterFree
    <2>1. /\ refc[a] = Users(a) /\ refc[a] \in Nat
          /\ freeing[a] \in Nat /\ freed[a] \in Nat
      BY DEF Counting, Counted, Shape
    <2>2. IF refc[a] = 0 THEN freeing[a] + freed[a] = 1 ELSE freeing[a] = 0 /\ freed[a] = 0
      BY DEF Counting, Released
    <2> QED BY <2>1, <2>2
  <1> QED BY <1>1, CountingInvariant, PTL

\* Every serdata is released once its last user is gone.
THEOREM NothingEverLeaks == Spec => []NothingLeaks
  <1>1. Counting => NothingLeaks
    BY DEF Counting, Counted, Released, NothingLeaks
  <1> QED BY <1>1, CountingInvariant, PTL

-----------------------------------------------------------------------------
(* Instances.                                                              *)

\* A serdata is hashed by its key bytes if it has any, else by the type name.
Wrapped ==
    \A a \in DOMAIN serdata :
       serdata[a].hash = IF serdata[a].key # <<>> THEN murmurhash3(serdata[a].key) ELSE st_hash

\* The key data of two serdata of the topic agree.
Alike(a, b) == OneKey(serdata[a], serdata[b], topic.fields)

\* One serdata stands for the instance of a key, and it is the one that all
\* samples of the key in use were given.
Standing ==
    /\ \A m, k \in tkmap : Alike(m, k) => m = k
    /\ \A a \in InUse : instance[a] \in tkmap /\ Alike(instance[a], a)

\* The inductive invariant, beside Shape.
Keyed == Wrapped /\ Standing

\* To agree on the key is an equivalence: keys_equal compares field by field.
LEMMA AlikeEquivalence ==
    ASSUME NEW a, NEW b, NEW c
    PROVE  /\ Alike(a, a)
           /\ Alike(a, b) => Alike(b, a)
           /\ Alike(a, b) /\ Alike(b, c) => Alike(a, c)
  BY DEF Alike, OneKey, keys_equal

\* What the hash table goes by, the hash and then sd_eqkey, is that equivalence:
\* of two serdata of which one has key bytes the hashes differ already.
LEMMA SameKeyIsAlike ==
    ASSUME Wrapped, NEW a \in DOMAIN serdata, NEW b \in DOMAIN serdata
    PROVE  SameKey(serdata[a], serdata[b], topic.fields) <=> Alike(a, b)
  <1> DEFINE x == serdata[a]
             y == serdata[b]
  <1>1. /\ x.hash = IF x.key # <<>> THEN murmurhash3(x.key) ELSE st_hash
        /\ y.hash = IF y.key # <<>> THEN murmurhash3(y.key) ELSE st_hash
    BY DEF Wrapped
  <1>2. CASE x.key # <<>> /\ y.key # <<>>
    BY <1>1, <1>2 DEF SameKey, sd_eqkey, Alike, OneKey
  <1>3. CASE x.key = <<>> /\ y.key = <<>>
    BY <1>1, <1>3 DEF SameKey, sd_eqkey, Alike, OneKey
  <1>4. CASE (x.key = <<>>) # (y.key = <<>>)
    <2>1. \A k : murmurhash3(k) = st_hash => k = <<>>
      BY DEF murmurhash3, st_hash
    <2>2. x.hash # y.hash
      BY <1>1, <1>4, <2>1
    <2> QED BY <1>4, <2>2 DEF SameKey, Alike, OneKey
  <1> QED BY <1>2, <1>3, <1>4

\* Steps that add no serdata and no instance, and forget none in use.
LEMMA KeyedFrame ==
    ASSUME Keyed, topic' = topic, serdata' = serdata, instance' = instance,
           tkmap' \subseteq tkmap,
           (maker \cup cache)' \cap DOMAIN instance \subseteq maker \cup cache,
           \A a \in InUse : instance[a] \in tkmap => instance[a] \in tkmap'
    PROVE  Keyed'
  <1>1. \A a, b : Alike(a, b)' = Alike(a, b)
    BY DEF Alike
  <1> QED BY <1>1 DEF Keyed, Wrapped, Standing, InUse

\* A new serdata is of no instance yet.
LEMMA KeyedMake ==
    ASSUME Shape, Keyed, NEW x \in topic.samples, Make(x)
    PROVE  Keyed'
  <1>1. PICK n \in Nat : DOMAIN serdata = 1 .. n /\ NewId = n + 1
    BY NewIdLemma
  <1>2. /\ DOMAIN serdata' = 1 .. (n + 1)
        /\ serdata'[n + 1] = Wrap(x)
        /\ \A a \in 1 .. n : serdata'[a] = serdata[a]
        /\ maker' = maker \cup {n + 1}
        /\ UNCHANGED <<topic, instance, tkmap, cache>>
    BY <1>1 DEF Make, insert
  <1>3. Wrapped'
    <2> SUFFICES ASSUME NEW a \in 1 .. (n + 1)
                 PROVE  serdata'[a].hash = IF serdata'[a].key # <<>>
                           THEN murmurhash3(serdata'[a].key) ELSE st_hash
      BY <1>2 DEF Wrapped, murmurhash3, st_hash
    <2>1. CASE a = n + 1
      BY <1>2, <2>1 DEF Wrap
    <2>2. CASE a \in 1 .. n
      BY <1>1, <1>2, <2>2 DEF Keyed, Wrapped
    <2> QED BY <2>1, <2>2
  <1>4. Standing'
    <2>1. /\ \A a \in DOMAIN instance : a \in 1 .. n /\ a # n + 1
          /\ tkmap \subseteq DOMAIN instance
      BY <1>1 DEF Shape
    <2>2. \A a, b \in 1 .. n : Alike(a, b)' = Alike(a, b)
      BY <1>2 DEF Alike
    <2>3. \A m, k \in tkmap : Alike(m, k)' => m = k
      BY <2>1, <2>2 DEF Keyed, Standing
    <2>4. ASSUME NEW a \in InUse'
          PROVE  instance[a] \in tkmap /\ Alike(instance[a], a)'
      <3>1. a \in InUse /\ a \in 1 .. n
        BY <1>2, <2>1, <2>4 DEF InUse
      <3>2. instance[a] \in tkmap /\ Alike(instance[a], a) /\ instance[a] \in 1 .. n
        BY <2>1, <3>1 DEF Keyed, Standing
      <3> QED BY <1>2, <2>2, <3>1, <3>2
    <2> QED BY <1>2, <2>3, <2>4 DEF Standing
  <1> QED BY <1>3, <1>4 DEF Keyed

\* Finding an instance by hash and sd_eqkey, or making one of what finds none.
LEMMA KeyedLookup ==
    ASSUME Shape, Keyed, NEW a \in DOMAIN serdata, LookupFinds(a) \/ sd_to_untyped(a)
    PROVE  Keyed'
  <1>0. UNCHANGED <<topic, serdata, maker, cache>> /\ tkmap \subseteq DOMAIN serdata
    BY DEF LookupFinds, sd_to_untyped, serdata_ref, Shape
  <1>1. (\A b, c : Alike(b, c)' = Alike(b, c)) /\ Wrapped'
    BY <1>0 DEF Alike, Keyed, Wrapped
  <1>2. CASE LookupFinds(a)
    <2>1. PICK m \in Found(a) : instance' = insert(instance, a, m)
      BY <1>2 DEF LookupFinds
    <2>2. m \in tkmap /\ Alike(m, a)
      BY <1>0, <2>1, SameKeyIsAlike DEF Found, Keyed
    <2>3. /\ DOMAIN instance' = DOMAIN instance \cup {a} /\ instance'[a] = m
          /\ \A b \in DOMAIN instance : b # a => instance'[b] = instance[b]
          /\ tkmap' = tkmap
      BY <1>2, <2>1 DEF LookupFinds, insert
    <2> QED BY <1>0, <1>1, <2>2, <2>3 DEF Keyed, Standing, InUse
  <1>3. CASE sd_to_untyped(a)
    <2>1. \A m \in tkmap : ~Alike(m, a) /\ ~Alike(a, m)
      BY <1>0, <1>3, SameKeyIsAlike, AlikeEquivalence DEF sd_to_untyped, Found, Keyed
    <2>2. /\ DOMAIN instance' = DOMAIN instance \cup {a} /\ instance'[a] = a
          /\ \A b \in DOMAIN instance : b # a => instance'[b] = instance[b]
          /\ tkmap' = tkmap \cup {a}
      BY <1>3 DEF sd_to_untyped, serdata_ref, insert
    <2>3. Alike(a, a)
      BY AlikeEquivalence
    <2> QED BY <1>0, <1>1, <2>1, <2>2, <2>3 DEF Keyed, Standing, InUse
  <1> QED BY <1>2, <1>3

\* Every step keeps the instances right.
LEMMA KeyedStep ==
    ASSUME Shape, Keyed, [Next]_vars
    PROVE  Keyed'
  <1>1. ASSUME NEW a \in DOMAIN serdata, Use(a) PROVE Keyed'
    <2>1. CASE LookupFinds(a) \/ sd_to_untyped(a)
      BY <2>1, KeyedLookup
    <2>2. CASE Store(a) \/ sd_to_ser_ref(a)
      BY <2>2, KeyedFrame DEF Store, sd_to_ser_ref, serdata_ref
    <2>3. CASE Drop(a) \/ sd_to_ser_unref(a) \/ sd_to_sample(a)
      BY <2>3, KeyedFrame DEF Drop, sd_to_ser_unref, sd_to_sample, serdata_unref
    <2>4. CASE Forget(a)
      BY <2>4, KeyedFrame DEF Forget, serdata_unref, InUse
    <2>5. CASE sd_free(a)
      BY <2>5, KeyedFrame DEF sd_free
    <2> QED BY <1>1, <2>1, <2>2, <2>3, <2>4, <2>5 DEF Use
  <1>2. CASE sd_from_sample \/ sd_from_ser \/ sd_from_keyhash
    BY <1>2, KeyedMake DEF sd_from_sample, sd_from_ser, sd_from_keyhash
  <1>3. CASE free_sample_data
    BY <1>3, KeyedFrame DEF free_sample_data
  <1>4. CASE UNCHANGED vars
    BY <1>4, KeyedFrame DEF vars
  <1> QED BY <1>1, <1>2, <1>3, <1>4 DEF Next

\* On any topics, those that mix samples with and without key bytes included,
\* the instances of the samples in use are told apart by the key data alone,
\* whatever is stored, taken, released and forgotten in which order: the hash
\* and sd_eqkey (sertype.rs:316-347) amount to an equivalence, although sd_eqkey
\* by itself is none.
THEOREM InstancesAlwaysFollowKeyData == Spec => []InstancesFollowKeyData
  <1>1. Init => Keyed
    BY DEF Init, EmptyMap, Keyed, Wrapped, Standing, InUse
  <1>2. Counting /\ Keyed /\ [Next]_vars => Keyed'
    BY KeyedStep DEF Counting
  <1>3. Counting /\ Keyed => InstancesFollowKeyData
    <2> SUFFICES ASSUME Counting, Keyed, NEW a \in InUse, NEW b \in InUse
                 PROVE  (instance[a] = instance[b]) <=> Alike(a, b)
      BY DEF InstancesFollowKeyData, Alike
    <2>1. /\ instance[a] \in tkmap /\ Alike(instance[a], a)
          /\ instance[b] \in tkmap /\ Alike(instance[b], b)
      BY DEF Keyed, Standing
    <2>2. ASSUME instance[a] = instance[b] PROVE Alike(a, b)
      BY <2>1, <2>2, AlikeEquivalence
    <2>3. ASSUME Alike(a, b) PROVE instance[a] = instance[b]
      <3>1. Alike(instance[a], instance[b])
        BY <2>1, <2>3, AlikeEquivalence
      <3> QED BY <2>1, <3>1 DEF Keyed, Standing
    <2> QED BY <2>2, <2>3
  <1> QED BY <1>1, <1>2, <1>3, CountingInvariant, PTL DEF Spec
=============================================================================

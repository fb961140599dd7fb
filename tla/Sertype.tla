------------------------------ MODULE Sertype ------------------------------
(***************************************************************************)
(* The opaque sertype of src/dds/sertype.rs: the serdata that wrap the     *)
(* samples of one topic, their reference counts and buffers, and the key   *)
(* functions by which Cyclone DDS tells instances apart.                   *)
(*                                                                         *)
(* Cyclone is external.  It calls the constructors (dds_write and its      *)
(* kin, or the receive thread), looks the instance up in its hash table,   *)
(* keeps the sample in the reader's cache, sends it out of an iovec that   *)
(* points into it, and hands it to dds_take; threads do so in any order.   *)
(*                                                                         *)
(* Hashes are ideal: a hash is the term that was hashed.  A u32 inside CDR *)
(* data is WordBytes long, 4 in the code.                                  *)
(***************************************************************************)
EXTENDS Integers, FiniteSets, SequencesExt, Maps

CONSTANTS
    WordBytes,
    Topics,       \* what a topic is used for: [fields, samples]
    MaxSerdata    \* bound: how many serdata a behaviour makes

VARIABLES
    topic,      \* the topic: the key_fields of its sertype and its samples
    serdata,    \* id -> data, key and hash of an OpaqueSerdata, also once freed
    refc,       \* id -> its reference count
    freed,      \* id -> how often sd_free has released it
    freeing,    \* id -> how many sd_free calls are due
    maker,      \* ids whose maker has not dropped its reference yet
    instance,   \* external: id -> the serdata that stands for its instance
    tkmap,      \* external: the serdata that stand for instances
    cache,      \* external: the ids in the reader's cache
    iovs,       \* external: the ids being sent out of an iovec
    sample      \* the SampleWrapper of take_samples

vars == <<topic, serdata, refc, freed, freeing, maker, instance, tkmap, cache, iovs, sample>>

-----------------------------------------------------------------------------
(* Keys in the data.                                                       *)

Slice(data, from, to) ==
    SubSeq(data, from + 1, IF to < Len(data) THEN to ELSE Len(data))

\* Byte 1 of the encapsulation header tells the byte order.
read_u32_cdr(data, offset) ==
    LET b == Slice(data, offset, offset + WordBytes)
    IN  IF data[2] % 2 = 1 THEN FoldRight(LAMBDA x, high : x + 256 * high, b, 0)
        ELSE FoldLeft(LAMBDA high, x : x + 256 * high, 0, b)

\* Mutant of extract_key_bytes: a string takes the declared size.
extract_key_bytes_Fixed(data, field) == Slice(data, field.offset, field.offset + field.size)

\* The bytes of one key field, clipped to the data.
extract_key_bytes(data, field) ==
    CASE field.offset >= Len(data) -> <<>>
      [] field.hint = "String" /\ field.offset + WordBytes > Len(data) -> <<>>
      [] field.hint = "String" /\ field.offset + WordBytes <= Len(data) ->
            Slice(data, field.offset,
                  field.offset + WordBytes + read_u32_cdr(data, field.offset))
      [] OTHER -> Slice(data, field.offset, field.offset + field.size)

keys_equal(a, b, fields) ==
    \A i \in DOMAIN fields : extract_key_bytes(a, fields[i]) = extract_key_bytes(b, fields[i])

\* The string of bytes that hash_key_bytes hashes.
hash_key_bytes(data, fields) ==
    FlattenSeq([i \in DOMAIN fields |-> extract_key_bytes(data, fields[i])])

-----------------------------------------------------------------------------
(* Keys of serdata: the key bytes of the client if there are any.          *)

\* Without key_fields everything is equal; data is never null here.
sd_eqkey(x, y, key_fields) ==
    IF x.key # <<>> /\ y.key # <<>> THEN x.key = y.key
    ELSE keys_equal(x.data, y.data, key_fields)

\* Key bytes up to 16 are the keyhash itself, padded; longer ones and those of
\* the fallback are hashed.
sd_get_keyhash(x, key_fields, force_md5) ==
    IF x.key # <<>>
    THEN IF ~force_md5 /\ Len(x.key) <= 16
         THEN [by |-> "key", of |-> [i \in 1 .. 16 |-> IF i <= Len(x.key) THEN x.key[i] ELSE 0]]
         ELSE [by |-> "md5", of |-> x.key]
    ELSE IF key_fields = <<>> \/ x.data = <<>>
         THEN [by |-> "zero", of |-> <<>>]
         ELSE [by |-> "fnv", of |-> hash_key_bytes(x.data, key_fields)]

\* The hash of the type name, and of key bytes with it as the seed.
st_hash == [seed |-> "type_name", of |-> <<>>]
murmurhash3(key) == [seed |-> "type_name", of |-> key]

-----------------------------------------------------------------------------
(* Construction and reference counts.                                      *)

Init ==
    /\ topic \in Topics
    /\ serdata = EmptyMap /\ refc = EmptyMap /\ freed = EmptyMap
    /\ freeing = EmptyMap
    /\ instance = EmptyMap
    /\ maker = {} /\ tkmap = {} /\ cache = {} /\ iovs = {}
    /\ sample = <<>>

NewId == Cardinality(DOMAIN serdata) + 1

\* Mutant of Wrap: one hash for all, as if sd_eqkey alone told keys apart.
Wrap_OneHash(x) ==
    [data |-> x.data, key |-> IF x.via = "sample" THEN x.key ELSE <<>>,
     via |-> x.via, of |-> x.of, hash |-> st_hash]

\* What wraps a sample: only sd_from_sample has key bytes and hashes them.
Wrap(x) ==
    LET key == IF x.via = "sample" THEN x.key ELSE <<>>
    IN  [data |-> x.data, key |-> key, via |-> x.via, of |-> x.of,
         hash |-> IF key # <<>> THEN murmurhash3(key) ELSE st_hash]

\* A serdata with one reference, its maker's (ddsi_serdata_init).
Make(x) ==
    /\ NewId <= MaxSerdata
    /\ serdata' = insert(serdata, NewId, Wrap(x))
    /\ refc' = insert(refc, NewId, 1)
    /\ freed' = insert(freed, NewId, 0)
    /\ freeing' = insert(freeing, NewId, 0)
    /\ maker' = maker \cup {NewId}
    /\ UNCHANGED <<topic, instance, tkmap, cache, iovs, sample>>

\* DdsWriter::write, dispose and write_dispose: both slices are copied.
sd_from_sample == \E x \in topic.samples : x.via = "sample" /\ Make(x)

\* sd_from_ser and sd_from_ser_iov: data from the network has no key bytes.
sd_from_ser == \E x \in topic.samples : x.via = "ser" /\ Make(x)

\* Only a keyhash came: its 16 bytes become the data.
sd_from_keyhash == \E x \in topic.samples : x.via = "keyhash" /\ Make(x)

\* Mutant of serdata_ref: the count stays as it is.
serdata_ref_Forgotten(a) == UNCHANGED <<serdata, refc, freed, freeing>>

serdata_ref(a) ==
    /\ refc' = [refc EXCEPT ![a] = @ + 1]
    /\ UNCHANGED <<serdata, freed, freeing>>

\* Mutant of serdata_unref: fetch_sub returns the value before, not after.
serdata_unref_After(a) ==
    /\ refc' = [refc EXCEPT ![a] = @ - 1]
    /\ freeing' = IF refc[a] = 0 THEN [freeing EXCEPT ![a] = @ + 1] ELSE freeing
    /\ UNCHANGED <<serdata, freed>>

\* The fetch_sub; whoever took the last reference goes on to sd_free.
serdata_unref(a) ==
    /\ refc' = [refc EXCEPT ![a] = @ - 1]
    /\ freeing' = IF refc[a] = 1 THEN [freeing EXCEPT ![a] = @ + 1] ELSE freeing
    /\ UNCHANGED <<serdata, freed>>

\* Both buffers and the box.
sd_free(a) ==
    /\ freeing[a] > 0
    /\ freeing' = [freeing EXCEPT ![a] = @ - 1]
    /\ freed' = [freed EXCEPT ![a] = @ + 1]
    /\ UNCHANGED <<topic, serdata, refc, maker, instance, tkmap, cache, iovs, sample>>

-----------------------------------------------------------------------------
(* What Cyclone does with a serdata.                                       *)

\* The instance is looked up by hash and then by sd_eqkey.
SameKey(x, y, key_fields) == x.hash = y.hash /\ sd_eqkey(x, y, key_fields)
Found(a) == {m \in tkmap : SameKey(serdata[m], serdata[a], topic.fields)}

LookupFinds(a) ==
    /\ a \in maker /\ a \notin DOMAIN instance
    /\ \E m \in Found(a) : instance' = insert(instance, a, m)
    /\ UNCHANGED <<topic, serdata, refc, freed, freeing, maker, tkmap, cache, iovs, sample>>

\* A new instance keeps the serdata as its key: sd_to_untyped.
sd_to_untyped(a) ==
    /\ a \in maker /\ a \notin DOMAIN instance
    /\ Found(a) = {}
    /\ serdata_ref(a)
    /\ tkmap' = tkmap \cup {a}
    /\ instance' = insert(instance, a, a)
    /\ UNCHANGED <<topic, maker, cache, iovs, sample>>

\* The sample enters the reader's cache, with a reference of its own.
Store(a) ==
    /\ a \in maker /\ a \in DOMAIN instance /\ a \notin cache
    /\ serdata_ref(a)
    /\ cache' = cache \cup {a}
    /\ UNCHANGED <<topic, maker, instance, tkmap, iovs, sample>>

\* The maker is done with it.
Drop(a) ==
    /\ a \in maker /\ a \in DOMAIN instance
    /\ serdata_unref(a)
    /\ maker' = maker \ {a}
    /\ UNCHANGED <<topic, instance, tkmap, cache, iovs, sample>>

\* What was written here goes out: an iovec points into the data until
\* sd_to_ser_unref.
sd_to_ser_ref(a) ==
    /\ a \in maker /\ serdata[a].via = "sample" /\ a \notin iovs
    /\ serdata_ref(a)
    /\ iovs' = iovs \cup {a}
    /\ UNCHANGED <<topic, maker, instance, tkmap, cache, sample>>

sd_to_ser_unref(a) ==
    /\ a \in iovs
    /\ serdata_unref(a)
    /\ iovs' = iovs \ {a}
    /\ UNCHANGED <<topic, maker, instance, tkmap, cache, sample>>

\* dds_take: sd_to_sample copies the data into a buffer of its own, none for
\* empty data, and the cache gives its reference up.
sd_to_sample(a) ==
    /\ sample = <<>>
    /\ a \in cache
    /\ sample' = <<[of |-> a, buffer |-> serdata[a].data # <<>>]>>
    /\ serdata_unref(a)
    /\ cache' = cache \ {a}
    /\ UNCHANGED <<topic, maker, instance, tkmap, iovs>>

\* take_samples copies the buffer and frees it, forwarded or not.
free_sample_data ==
    /\ sample # <<>>
    /\ sample' = <<>>
    /\ UNCHANGED <<topic, serdata, refc, freed, freeing, maker, instance, tkmap, cache, iovs>>

\* An instance that no sample refers to any more is forgotten.
Forget(m) ==
    /\ m \in tkmap
    /\ \A a \in (maker \cup cache) \cap DOMAIN instance : instance[a] # m
    /\ serdata_unref(m)
    /\ tkmap' = tkmap \ {m}
    /\ UNCHANGED <<topic, maker, instance, cache, iovs, sample>>

Use(a) ==
    \/ LookupFinds(a) \/ sd_to_untyped(a) \/ Store(a) \/ Drop(a)
    \/ sd_to_ser_ref(a) \/ sd_to_ser_unref(a) \/ sd_to_sample(a)
    \/ Forget(a) \/ sd_free(a)

Next ==
    \/ sd_from_sample \/ sd_from_ser \/ sd_from_keyhash
    \/ \E a \in DOMAIN serdata : Use(a)
    \/ free_sample_data

Spec == Init /\ [][Next]_vars

-----------------------------------------------------------------------------
(* Properties.                                                             *)

\* How many of the four may still touch a serdata.
Users(a) ==
    LET One(S) == IF a \in S THEN 1 ELSE 0
    IN  One(maker) + One(tkmap) + One(cache) + One(iovs)

\* Nobody touches a serdata that sd_free has released or is about to release,
\* whichever threads drop their references in whichever order, and no serdata
\* is released twice (serdata_ref and serdata_unref, sertype.rs:91-103).
NoUseAfterFree ==
    \A a \in DOMAIN serdata :
       /\ Users(a) > 0 => freeing[a] = 0 /\ freed[a] = 0
       /\ freeing[a] + freed[a] <= 1

\* A serdata nobody can reach any more is released or about to be.
NothingLeaks ==
    \A a \in DOMAIN serdata : Users(a) = 0 => freeing[a] + freed[a] = 1

\* Two serdata have one keyhash.
SameKeyhash(x, y, key_fields, force_md5) ==
    sd_get_keyhash(x, key_fields, force_md5) = sd_get_keyhash(y, key_fields, force_md5)

\* What the key data of two serdata say: with key bytes from a client on either
\* side the key bytes decide, else the data at the topic's key descriptors.
OneKey(x, y, key_fields) ==
    IF x.key = <<>> /\ y.key = <<>> THEN keys_equal(x.data, y.data, key_fields)
    ELSE x.key = y.key

InUse == (maker \cup cache) \cap DOMAIN instance

\* Samples in use are of one instance exactly if OneKey says so, whatever was
\* stored, taken and forgotten meanwhile.  Against sd_from_ser's "correctness is
\* not affected" (sertype.rs:388-392), that parts a sample with key bytes from
\* every sample of its key that came without: their hashes differ, and sd_eqkey
\* is never asked.
InstancesFollowKeyData ==
    \A a, b \in InUse :
       (instance[a] = instance[b]) <=> OneKey(serdata[a], serdata[b], topic.fields)

\* Samples that came the same way, all with key bytes or all without, are of one
\* instance exactly if they are of one key: in the reader's hash table, and for
\* whoever goes by the keyhash that is sent with them.
InstancesAreKeys ==
    \A a, b \in InUse :
       LET same == serdata[a].of = serdata[b].of
       IN  (serdata[a].key = <<>>) = (serdata[b].key = <<>>) =>
              /\ (instance[a] = instance[b]) <=> same
              /\ \A force_md5 \in BOOLEAN :
                    sd_get_keyhash(serdata[a], topic.fields, force_md5)
                       = sd_get_keyhash(serdata[b], topic.fields, force_md5) <=> same
=============================================================================

------------------------------ MODULE TTLCache ------------------------------
(***************************************************************************)
(* cachetools.TTLCache as the code uses it: a bounded number of entries,   *)
(* the least recently used of which makes room for a new one, and one      *)
(* lifetime for every entry, which only an assignment renews.  A cache is  *)
(* the sequence of its keys, the one used longest ago first; when a        *)
(* lifetime ends is up to the module that uses the cache.                  *)
(***************************************************************************)
EXTENDS Integers, Sequences, SequencesExt

\* del cache[key], or the end of its lifetime; an absent key is no matter.
DelItem(cache, key) ==
    IF key \in ToSet(cache)
    THEN RemoveAt(cache, CHOOSE i \in DOMAIN cache : cache[i] = key)
    ELSE cache

\* cache.get(key): a hit becomes the entry used last.
Touch(cache, key) ==
    IF key \in ToSet(cache) THEN Append(DelItem(cache, key), key) ELSE cache

\* cache[key] = value: a new key makes room, a present one evicts nobody.
SetItem(cache, key, maxsize) ==
    LET rest == DelItem(cache, key) IN
    IF key \notin ToSet(cache) /\ Len(cache) >= maxsize
    THEN Append(Tail(rest), key)
    ELSE Append(rest, key)

\* The caches reachable by the operations above.
IsCache(cache, Keys, maxsize) ==
    /\ cache \in Seq(Keys)
    /\ Len(cache) <= maxsize
    /\ \A i, j \in DOMAIN cache : cache[i] = cache[j] => i = j
=============================================================================

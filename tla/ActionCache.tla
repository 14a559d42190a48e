---------------------------- MODULE ActionCache ----------------------------
(***************************************************************************)
(* What the R2 cache promises to actions/cache: entries are immutable.  A  *)
(* key holds at most one archive; saving never replaces an entry, only     *)
(* eviction removes it, and an archive that is gone never comes back under *)
(* any key.  RunnerCache implements this (Implementation there).           *)
(***************************************************************************)
CONSTANTS Archives, Keys, None

VARIABLES
    entries,  \* key -> the archive a restore of that key finds
    gone      \* archives that are not in the cache and will not be again

vars == <<entries, gone>>

Init ==
    /\ entries \in [Keys -> Archives \cup {None}]
    /\ gone \subseteq Archives
    /\ \A k \in Keys : entries[k] \notin gone

Save(k, a) ==
    /\ entries[k] = None
    /\ a \notin gone
    /\ entries' = [entries EXCEPT ![k] = a]
    /\ UNCHANGED gone

Evict(k) ==
    /\ entries[k] # None
    /\ entries' = [entries EXCEPT ![k] = None]
    /\ gone' \in {gone, gone \cup {entries[k]}}

Discard(a) ==
    /\ \A k \in Keys : entries[k] # a
    /\ gone' = gone \cup {a}
    /\ UNCHANGED entries

Next ==
    \/ \E k \in Keys, a \in Archives : Save(k, a)
    \/ \E k \in Keys : Evict(k)
    \/ \E a \in Archives : Discard(a)

Spec == Init /\ [][Next]_vars
=============================================================================

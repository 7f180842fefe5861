------------------------------ MODULE CacheSpec ------------------------------
(***************************************************************************)
(* What DiskLruCache promises its clients, as they see it whenever no call *)
(* is in progress: an entry is shown or not, a shown entry has one value   *)
(* per index, an edit collects values and publishes them together or not   *)
(* at all.  Entries may be lost at any time (it is a cache), by eviction,  *)
(* removal, a failed edit or a crash, but none is altered by that and none *)
(* that was lost comes back.                                               *)
(***************************************************************************)
EXTENDS Naturals

CONSTANTS Keys,      \* the keys of the cache
          Idx,       \* the value indexes of an entry
          Contents,  \* the contents a value can have
          NoFile,    \* no value at an index
          NoDraft    \* no edit in progress

VARIABLES value,  \* per key and index, the content published last
          shown,  \* is the entry readable?
          draft   \* what the edit in progress has written so far

cacheVars == <<value, shown, draft>>

NoValue == [i \in Idx |-> NoFile]

(* The values of an entry after its edit has been published: an index the  *)
(* edit did not write keeps its value.                                     *)
Merged(old, new) == [i \in Idx |-> IF new[i] = NoFile THEN old[i] ELSE new[i]]

Full(v) == \A i \in Idx : v[i] # NoFile

CacheInit ==
    /\ value = [k \in Keys |-> NoValue]
    /\ shown = [k \in Keys |-> FALSE]
    /\ draft = [k \in Keys |-> NoDraft]

BeginEdit(k) ==
    /\ draft[k] = NoDraft
    /\ draft' = [draft EXCEPT ![k] = NoValue]
    /\ UNCHANGED <<value, shown>>

WriteValue(k, i) ==
    /\ draft[k] # NoDraft
    /\ \E c \in Contents \cup {NoFile} : draft' = [draft EXCEPT ![k][i] = c]
    /\ UNCHANGED <<value, shown>>

(* A shown entry shows the new values; an entry that is not shown needs a  *)
(* full set of values to be certain of being shown.                        *)
Publish(k) ==
    /\ draft[k] # NoDraft
    /\ value' = [value EXCEPT ![k] = Merged(@, draft[k])]
    /\ \/ shown[k] /\ UNCHANGED shown
       \/ /\ Full(Merged(value[k], draft[k]))
          /\ shown' = [shown EXCEPT ![k] = TRUE]
       \/ /\ ~shown[k] /\ ~Full(draft[k])
          /\ UNCHANGED shown
    /\ draft' = [draft EXCEPT ![k] = NoDraft]

(* Entries and edits may be lost, but nothing is altered by that.          *)
Lose ==
    /\ \E s \in SUBSET Keys : shown' = [k \in Keys |-> shown[k] /\ k \notin s]
    /\ \E s \in SUBSET Keys :
         draft' = [k \in Keys |-> IF k \in s THEN NoDraft ELSE draft[k]]
    /\ UNCHANGED value

(* A restart ends all edits.  An edit whose commit the crash interrupted   *)
(* may have been published; otherwise its entry, which may hold a part of  *)
(* the new values, is not shown.                                           *)
Recover ==
    /\ draft' = [k \in Keys |-> NoDraft]
    /\ \E p \in [Keys -> SUBSET Idx] :
         /\ \A k \in Keys : draft[k] = NoDraft => p[k] = {}
         /\ value' = [k \in Keys |-> [i \in Idx |->
                        IF i \in p[k] /\ draft[k][i] # NoFile
                        THEN draft[k][i] ELSE value[k][i]]]
    /\ \E s \in SUBSET Keys :
         /\ \A k \in s : \/ shown[k] /\ value'[k] = value[k]
                         \/ /\ draft[k] # NoDraft
                            /\ value'[k] = Merged(value[k], draft[k]) /\ Full(value'[k])
         /\ shown' = [k \in Keys |-> k \in s]

CacheNext ==
    \/ \E k \in Keys : BeginEdit(k) \/ Publish(k) \/ \E i \in Idx : WriteValue(k, i)
    \/ Lose
    \/ Recover

CacheSpecification == CacheInit /\ [][CacheNext]_cacheVars
==============================================================================

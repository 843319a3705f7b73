----------------------------- MODULE LoadableMap -----------------------------
(***************************************************************************)
(* What immutable_hash_table.h promises, without buckets and chains: a map *)
(* that is filled between beginLoading and endLoading and read otherwise.  *)
(* Keys are never overwritten, and a read during loading finds nothing.    *)
(***************************************************************************)
CONSTANTS
  Keys, Values,
  NullPtr     \* no entry

VARIABLES
  content,    \* content[k]: the value of k, or NullPtr
  loading,    \* between beginLoading and endLoading
  result      \* what the last insert or find returned

vars == <<content, loading, result>>

Init == /\ content = [k \in Keys |-> NullPtr]
        /\ loading = FALSE /\ result = NullPtr

BeginLoading == /\ content' = [k \in Keys |-> NullPtr]
                /\ loading' = TRUE
                /\ UNCHANGED result

EndLoading == loading' = FALSE /\ UNCHANGED <<content, result>>

\* A new key, while loading.
Add(k, v) == /\ loading /\ content[k] = NullPtr
             /\ content' = [content EXCEPT ![k] = v]
             /\ result' = v
             /\ UNCHANGED loading

Refuse(k) == /\ ~loading \/ content[k] # NullPtr
             /\ result' = NullPtr
             /\ UNCHANGED <<content, loading>>

Find(k) == /\ result' = IF loading THEN NullPtr ELSE content[k]
           /\ UNCHANGED <<content, loading>>

Next == \/ BeginLoading \/ EndLoading
        \/ \E k \in Keys : Refuse(k) \/ Find(k) \/ \E v \in Values : Add(k, v)

Spec == Init /\ [][Next]_vars
===============================================================================

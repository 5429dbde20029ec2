---------------------------- MODULE MemoryStore ----------------------------
(***************************************************************************)
(* The long-term memory of middlewares/memory_saver.py, which every        *)
(* session keeps under one namespace of the shared store.  After a final   *)
(* answer a session has a model extract memories and saves each under a    *)
(* hash of its description, unless it finds the key taken.                 *)
(*                                                                         *)
(* Looking for a key and writing it are two calls on the store, and other  *)
(* sessions may come between them.                                         *)
(***************************************************************************)
EXTENDS Integers, FiniteSets

CONSTANTS
    Session,   \* the lead processes that share the store
    Key,       \* hashes of descriptions: twelve digits of an md5
    NoMemory   \* a key that is not in the store

ASSUME MemoryAssumption == NoMemory \notin Session /\ IsFiniteSet(Key)

VARIABLES
    memory,   \* the store: which session wrote the content under a key
    saving    \* what each session has extracted and not saved yet

memoryVars == <<memory, saving>>

NotSaving == [todo |-> {}, free |-> {}]

MemoryInit ==
    /\ memory = [k \in Key |-> NoMemory]
    /\ saving = [s \in Session |-> NotSaving]

\* _extract_memories: nothing, when the reply is empty or is no JSON.
Extract(s, keys) ==
    /\ saving[s].todo = {}
    /\ saving' = [saving EXCEPT ![s].todo = keys]
    /\ UNCHANGED memory

\* _save_memory: store.aget; a key that is taken is left alone ...
LookUp(s, k) ==
    /\ k \in saving[s].todo /\ saving[s].free = {}
    /\ saving' = IF memory[k] = NoMemory THEN [saving EXCEPT ![s].free = {k}]
                 ELSE [saving EXCEPT ![s].todo = @ \ {k}]
    /\ UNCHANGED memory

\* ... and store.aput
Save(s, k) ==
    /\ k \in saving[s].free
    /\ memory' = [memory EXCEPT ![k] = s]
    /\ saving' = [saving EXCEPT ![s] = [todo |-> @.todo \ {k}, free |-> {}]]

\* The session's call on the store fails, or the session ends: the rest is dropped.
GiveUpSaving(s) ==
    /\ saving' = [saving EXCEPT ![s] = NotSaving]
    /\ UNCHANGED memory

Saving(s) == saving[s].todo # {}
=============================================================================

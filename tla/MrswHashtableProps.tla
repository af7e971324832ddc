-------------------------- MODULE MrswHashtableProps ---------------------------
(***************************************************************************)
(* What the writing side of the hash table should satisfy.                 *)
(***************************************************************************)
EXTENDS MrswHashtable

Outcomes == {"none", "kOk", "kErrSetSameValue", "kErrNotEnoughSpace",
             "kErrInvalidParams", "kErrStoreKVFailed", "kErrOther"}

\* Types of the variables.
TypeOK ==
  /\ created \in {"no", "zero", "yes"}
  /\ DOMAIN map \subseteq Keys
  /\ map \in [DOMAIN map -> Values]
  /\ lruMem \in [Procs -> Seq(Keys)]
  /\ pc \in [Procs -> {"down", "create", "idle", "put", "evict"}]
  /\ key \in [Procs -> Keys \cup {None}]
  /\ val \in [Procs -> Values \cup {None}]
  /\ reply \in Outcomes
  /\ store \in [Keys -> [by : Procs \cup {None}, at : 0..MaxOps]]
  /\ since \in [Procs -> 0..MaxOps]
  /\ ops \in 0..MaxOps
  /\ deaths \in 0..MaxDeaths

\* What the table holds that p stored itself, or found when it attached; another
\* writer's later stores are unknown to its list.
Knows(p) == {k \in DOMAIN map : store[k].by = p \/ store[k].at <= since[p]}

\* A process's list names every key of the table that it knows, each once,
\* whatever deletions, clears, half-done sets, restarts and calls of other
\* writers went before: so evicting can remove all of them.
LruCoversTable ==
  \A p \in Eliminating :
    pc[p] # "down" =>
      /\ Knows(p) \subseteq ToSet(lruMem[p])
      /\ \A i, j \in DOMAIN lruMem[p] : lruMem[p][i] = lruMem[p][j] => i = j

\* "LRU elimination while shm space is full" (README.md:18): setValue fails only
\* if the value does not fit beside the keys that its process does not know, or
\* the creator of the table did not get to the end of init.  With one writer there
\* are no such keys, and every value that the table can hold fits.
RoomIsFound ==
  [][\A p \in Eliminating :
       InSet(p) /\ pc'[p] = "idle" /\ reply' # "kOk" =>
         \/ created = "zero"
         \/ Blocks[val[p]] + Table!Used(Restrict(map, DOMAIN map \ Knows(p)))
              > maxslots]_vars

\* When p stored a key; what it found when it attached is older.
StoredAt(p, k) == IF store[k].at <= since[p] THEN 0 ELSE store[k].at

\* What setValue evicts was stored longest ago of all stored keys its process
\* knows.
EvictsOldest ==
  [][\A p \in Procs :
       pc[p] = "evict" =>
         \A k \in (DOMAIN map \ DOMAIN map') \cap Knows(p),
            j \in DOMAIN map' \cap Knows(p) :
           StoredAt(p, k) <= StoredAt(p, j)]_vars

\* The eviction loop ends, also for values that never fit and with keys in the
\* list that the table lost long ago.
SetReturns ==
  \A p \in Procs : InSet(p) ~> pc[p] \in {"idle", "down"}
================================================================================

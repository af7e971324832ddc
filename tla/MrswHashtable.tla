----------------------------- MODULE MrswHashtable -----------------------------
(***************************************************************************)
(* The writing side of shmutil/shm_mrsw_hashtable.cc: setValue, deleteKey  *)
(* and clearTable over the slot table, with the list of simple_lru.h that  *)
(* decides which key makes room when the table is full.  Several processes *)
(* may write, one call at a time, under a lock of their own (README.md:12).*)
(* The table is in shared memory, the list in each process: it is rebuilt  *)
(* when a process attaches and knows nothing of what others store later.   *)
(*                                                                         *)
(* The table is KVTable, which QHashArr implements for its one writer      *)
(* (TableSpec); a step is one call of it.                                  *)
(***************************************************************************)
EXTENDS Integers, SequencesExt

CONSTANTS
  Procs,            \* the writing processes
  Eliminating,      \* those that call init with isLruEliminate
  Keys, Values, None,
  maxslots,         \* slots of the table
  Blocks,           \* slots that each value takes
  MaxOps,           \* bound: calls
  MaxDeaths         \* bound: deaths of processes

ASSUME WrapperAssumption ==
  /\ Eliminating \subseteq Procs
  /\ maxslots \in Nat \ {0}
  /\ Blocks \in [Values -> Nat \ {0}]
  /\ None \notin Keys \cup Values \cup Procs
  /\ MaxOps \in Nat
  /\ MaxDeaths \in Nat

VARIABLES
  created,        \* the segment: "no", "zero" (maxslots is 0 yet), or "yes"
  map, tblReply,  \* the table, and what its last call returned
  lruMem,         \* each process's lru_.lruMem_, front first
  pc, key, val,   \* where each process's setValue is, and its arguments
  reply,          \* what the last call returned
  store,          \* history: who stored each key of the table, and when
  since,          \* history: when each process attached
  ops, deaths     \* counters for the bounds

vars == <<created, map, tblReply, lruMem, pc, key, val, reply, store, since, ops, deaths>>
call == <<key, val>>

Table == INSTANCE KVTable WITH
  Key <- Keys, Val <- Values, Capacity <- maxslots, reply <- tblReply

Goto(p, l) == pc' = [pc EXCEPT ![p] = l]

\* The arguments of a call that is over are of no further use.
Return(p, err) ==
  /\ Goto(p, "idle")
  /\ reply' = err
  /\ key' = [key EXCEPT ![p] = None]
  /\ val' = [val EXCEPT ![p] = None]

\* Faulty variant: writers do not wait for each other.
Alone_NoLock(p) == TRUE

\* The external lock: nobody else is in a call.  It goes with a process that dies.
Alone(p) == \A q \in Procs \ {p} : pc[q] \in {"down", "create", "idle"}

Begin(p) == pc[p] = "idle" /\ Alone(p) /\ ops < MaxOps /\ ops' = ops + 1

-------------------------------------------------------------------------------
(* simple_lru.h                                                            *)

\* Faulty variant: a key that is in the list stays where it is.
visitKey_Stays(p, k) ==
  lruMem' = [lruMem EXCEPT ![p] = IF k \in ToSet(@) THEN @ ELSE <<k>> \o @]

\* keyToIter_: where the key is in the list.
keyToIter(list, k) == CHOOSE i \in DOMAIN list : list[i] = k

Erased(list, k) == IF k \in ToSet(list) THEN RemoveAt(list, keyToIter(list, k)) ELSE list

visitKey(p, k) == lruMem' = [lruMem EXCEPT ![p] = <<k>> \o Erased(@, k)]

\* Faulty variants: removes two keys, or none.
removeKey_Two(p) == lruMem' = [lruMem EXCEPT ![p] = SubSeq(@, 1, Len(@) - 2)]
removeKey_None(p) == UNCHANGED lruMem

removeKey(p) == lruMem' = [lruMem EXCEPT ![p] = Front(@)]

-------------------------------------------------------------------------------
(* init: create the table or attach to the one there is.                   *)

\* Faulty variants: initLruMem is not called, or visits the empty key, too.
initLruMem_Skipped(p) == {<< >>}
initLruMem_NoTest(p) == {<<None>> \o s : s \in SetToSeqs(DOMAIN map)}

\* initLruMem visits the stored keys in the order of their slots, whichever it is
\* (CalmTraversal of QHashArrProps; beside a call of another writer init may fail,
\* which leaves the process down).
initLruMem(p) == IF p \in Eliminating THEN SetToSeqs(DOMAIN map) ELSE {<< >>}

NeverStored == [by |-> None, at |-> 0]

InSet(p) == pc[p] \in {"put", "evict"}

\* The history dates by calls: the calls that are over.
Over == IF \E p \in Procs : InSet(p) THEN ops - 1 ELSE ops

\* The history forgets the keys that left the table.
StoresKept ==
  store' = [k \in Keys |-> IF k \in DOMAIN map' THEN store[k] ELSE NeverStored]

\* The first process creates the segment, which others may attach to at once ...
Create(p) ==
  /\ pc[p] = "down"
  /\ created = "no"
  /\ created' = "zero"
  /\ Goto(p, "create")
  /\ UNCHANGED <<map, tblReply, lruMem, call, reply, store, since, ops, deaths>>

\* ... and qhasharr() sets maxslots.  (A put between that store and those of the
\* two counters behind it is left out.)
Publish(p) ==
  /\ pc[p] = "create"
  /\ created' = "yes"
  /\ Return(p, "none")
  /\ UNCHANGED <<map, tblReply, lruMem, store, since, ops, deaths>>

Attach(p) ==
  /\ pc[p] = "down"
  /\ created # "no"
  /\ \E list \in initLruMem(p) : lruMem' = [lruMem EXCEPT ![p] = list]
  /\ since' = [since EXCEPT ![p] = Over]
  /\ Return(p, "none")
  /\ UNCHANGED <<created, map, tblReply, store, ops, deaths>>

\* The process ends, between two table calls; the table may never get its slots.
Die(p) ==
  /\ pc[p] # "down"
  /\ deaths < MaxDeaths
  /\ deaths' = deaths + 1
  /\ Goto(p, "down")
  /\ reply' = "none"
  /\ lruMem' = [lruMem EXCEPT ![p] = << >>]
  /\ key' = [key EXCEPT ![p] = None]
  /\ val' = [val EXCEPT ![p] = None]
  /\ since' = [since EXCEPT ![p] = 0]
  /\ UNCHANGED <<created, map, tblReply, store, ops>>

-------------------------------------------------------------------------------
(* The calls.                                                              *)

\* setValue stops if the key has that value.
SetValue(p, k, v) ==
  /\ Begin(p)
  /\ \/ /\ k \in DOMAIN map /\ map[k] = v
        /\ Return(p, "kErrSetSameValue")
     \/ /\ ~(k \in DOMAIN map /\ map[k] = v)
        /\ Goto(p, "put")
        /\ reply' = "none"
        /\ key' = [key EXCEPT ![p] = k]
        /\ val' = [val EXCEPT ![p] = v]
  /\ UNCHANGED <<created, map, tblReply, lruMem, store, since, deaths>>

\* __setValue: store the key, or free space for it and try again.  A table without
\* slots takes nothing and leaves errno to whatever call set it last: after an
\* ENOBUFS elimination begins, and ends at once, the list is empty as the table is.
PutNowhere(p) ==
  /\ pc[p] = "put"
  /\ created = "zero"
  /\ \/ Return(p, "kErrStoreKVFailed")
     \/ p \notin Eliminating /\ Return(p, "kErrNotEnoughSpace")
     \/ p \in Eliminating /\ Return(p, "kErrInvalidParams")
  /\ UNCHANGED <<created, map, tblReply, lruMem, store, since, ops, deaths>>

PutOk(p) ==
  /\ pc[p] = "put"
  /\ created = "yes"
  /\ Table!PutStored(key[p], val[p])
  /\ visitKey(p, key[p])
  /\ store' = [store EXCEPT ![key[p]] = [by |-> p, at |-> ops]]
  /\ Return(p, "kOk")
  /\ UNCHANGED <<created, since, ops, deaths>>

PutFull(p) ==
  /\ pc[p] = "put"
  /\ created = "yes"
  /\ Table!PutRefused(key[p], val[p]) \/ Table!PutFailed(key[p], val[p])
  /\ \/ p \in Eliminating /\ Goto(p, "evict") /\ UNCHANGED <<reply, call>>
     \/ p \notin Eliminating /\ Return(p, "kErrNotEnoughSpace")
  /\ StoresKept
  /\ UNCHANGED <<created, lruMem, since, ops, deaths>>

\* deleteKey of the list's last key, whether the table has it or not; with an
\* empty list that is deleteKey(""), and setValue gives up.
Evict(p) ==
  /\ pc[p] = "evict"
  /\ \/ /\ lruMem[p] = << >>
        /\ Return(p, "kErrInvalidParams")
        /\ UNCHANGED <<map, tblReply, lruMem>>
     \/ /\ lruMem[p] # << >>
        /\ Table!Remove(Last(lruMem[p]))
        /\ removeKey(p)
        /\ Goto(p, "put")
        /\ UNCHANGED <<reply, call>>
  /\ StoresKept
  /\ UNCHANGED <<created, since, ops, deaths>>

\* deleteKey and clearTable leave the list as it is.  Without slots the result is by
\* an errno of earlier calls, too: kOk after an ENOENT.
DeleteKey(p, k) ==
  /\ Begin(p)
  /\ \/ /\ created = "yes"
        /\ Table!Remove(k)
        /\ Return(p, "kOk")
     \/ /\ created = "zero"
        /\ \E err \in {"kOk", "kErrOther"} : Return(p, err)
        /\ UNCHANGED <<map, tblReply>>
  /\ StoresKept
  /\ UNCHANGED <<created, lruMem, since, deaths>>

ClearTable(p) ==
  /\ Begin(p)
  /\ Table!Clear
  /\ Return(p, "kOk")
  /\ StoresKept
  /\ UNCHANGED <<created, lruMem, since, deaths>>

-------------------------------------------------------------------------------
Init ==
  /\ created = "no"
  /\ Table!Init
  /\ lruMem = [p \in Procs |-> << >>]
  /\ pc = [p \in Procs |-> "down"]
  /\ key = [p \in Procs |-> None]
  /\ val = [p \in Procs |-> None]
  /\ reply = "none"
  /\ store = [k \in Keys |-> NeverStored]
  /\ since = [p \in Procs |-> 0]
  /\ ops = 0
  /\ deaths = 0

SetStep(p) == PutNowhere(p) \/ PutOk(p) \/ PutFull(p) \/ Evict(p)

Next ==
  \E p \in Procs :
    \/ Create(p) \/ Publish(p) \/ Attach(p) \/ Die(p) \/ SetStep(p) \/ ClearTable(p)
    \/ \E k \in Keys : DeleteKey(p, k) \/ \E v \in Values : SetValue(p, k, v)

Spec == Init /\ [][Next]_vars

\* A call of setValue goes on.
FairSpec == Spec /\ \A p \in Procs : WF_vars(SetStep(p))
================================================================================

-------------------------------- MODULE KVTable --------------------------------
(***************************************************************************)
(* What the slot table promises its one writer: a map of bounded size.     *)
(* Every value takes a fixed number of blocks, wherever it is stored, and  *)
(* a call touches no key but its own.  reply is the last call: what it     *)
(* asked for, and, once it is over, what it returned.                      *)
(***************************************************************************)
EXTENDS Integers, Functions

CONSTANTS Key, Val, None, Capacity, Blocks

VARIABLES map, reply

Used(m) == SumFunction([k \in DOMAIN m |-> Blocks[m[k]]])

Without(k) == Restrict(map, DOMAIN map \ {k})
With(k, v) == [x \in DOMAIN map \cup {k} |-> IF x = k THEN v ELSE map[x]]

Reply(op, k, v, err) == reply' = [op |-> op, key |-> k, val |-> v, err |-> err]

Init ==
  /\ map = << >>
  /\ reply = [op |-> "none", key |-> None, val |-> None, err |-> "none"]

\* A call begins.  It takes effect when it returns, and none begins before that.
Asked(op, k, v) == reply = [op |-> op, key |-> k, val |-> v, err |-> "none"]

Call(op, k, v) ==
  /\ reply.op = "none" \/ reply.err # "none"
  /\ Reply(op, k, v, "none")
  /\ UNCHANGED map

\* A full table takes nothing, not even a new value for a key it has.
PutRefused(k, v) ==
  /\ Used(map) >= Capacity
  /\ Reply("put", k, v, "ENOBUFS")
  /\ UNCHANGED map

\* Otherwise the value the key had goes first, whether or not the new one fits.
PutStored(k, v) ==
  /\ Used(map) < Capacity
  /\ Used(With(k, v)) <= Capacity
  /\ Reply("put", k, v, "ok")
  /\ map' = With(k, v)

PutFailed(k, v) ==
  /\ Used(map) < Capacity
  /\ Used(With(k, v)) > Capacity
  /\ Reply("put", k, v, "ENOBUFS")
  /\ map' = Without(k)

Remove(k) ==
  /\ Reply("remove", k, None, IF k \in DOMAIN map THEN "ok" ELSE "ENOENT")
  /\ map' = Without(k)

Clear ==
  /\ Reply("clear", None, None, "ok")
  /\ map' = << >>

Next ==
  \/ Call("clear", None, None)
  \/ Asked("clear", None, None) /\ Clear
  \/ \E k \in Key :
       \/ Call("remove", k, None)
       \/ Asked("remove", k, None) /\ Remove(k)
       \/ \E v \in Val :
            \/ Call("put", k, v)
            \/ Asked("put", k, v) /\ (PutRefused(k, v) \/ PutStored(k, v) \/ PutFailed(k, v))

Spec == Init /\ [][Next]_<<map, reply>>
===============================================================================

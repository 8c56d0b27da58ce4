------------------------------ MODULE Storage ------------------------------
(***************************************************************************)
(* ResourceStorage: an amount of every resource.  The code keeps a map     *)
(* from resource id to amount and erases an entry that reaches zero; here  *)
(* a storage is a total function and an absent entry is the amount 0.      *)
(***************************************************************************)
EXTENDS Width

CONSTANT Resource   (* resource ids, known to the data registry or not       *)

Storages == [Resource -> U64]

EmptyStorage == [r \in Resource |-> 0]

IsEmpty(s) == \A r \in Resource : s[r] = 0

(* ResourceStorage::add refuses the amount 0 and a sum that does not fit.  *)
CanPut(s, r, n) == n > 0 /\ CanAdd(s[r], n)

Put(s, r, n) == [s EXCEPT ![r] = WrapAdd(s[r], n)]

(* ResourceStorage::try_remove refuses the amount 0 and a shortage.        *)
CanTake(s, r, n) == n > 0 /\ s[r] >= n

Take(s, r, n) == [s EXCEPT ![r] = s[r] - n]

(* ResourceStorage::remove_up_to: how much it takes away.                  *)
RemovedUpTo(s, r, n) == AtMost(s[r], n)
=============================================================================

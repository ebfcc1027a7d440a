------------------------------ MODULE PropStore ------------------------------
(***************************************************************************)
(* What apple_dt.h promises of the mutators, with no pointer, no heap and  *)
(* no linked list in sight: each node is a sequence of entries, and an     *)
(* operation either does exactly its edit and returns 0, or returns -1 and *)
(* changes nothing. Which call may get which answer is said in PropCalls.  *)
(***************************************************************************)
EXTENDS Integers, Sequences

CONSTANTS
  Node,      \* the nodes of the tree
  Name,      \* the names a caller may pass
  Val,       \* byte strings
  NoBytes,   \* the byte string of length 0
  Stored     \* the part of a name that fits the 32-byte field

VARIABLES
  store,     \* store[n]: the entries of node n, in order of appearance
  open,      \* FALSE once the tree has been released
  ret        \* what the last operation returned

Entry == [name : Name, val : Val, flag : BOOLEAN]

Hit(n, nm) == {i \in DOMAIN store[n] : store[n][i].name = nm}

\* dt_get_prop and dt_delete_prop stop at the first entry that matches.
IsFirst(n, nm, i) == i \in Hit(n, nm) /\ \A j \in Hit(n, nm) : i <= j

Without(s, i) == [j \in 1..(Len(s) - 1) |-> IF j < i THEN s[j] ELSE s[j + 1]]

-----------------------------------------------------------------------------
\* apple_dt.h:78-80: -1 when the property does not exist (or no memory is left).
Set(n, nm, v) ==
  \E i \in DOMAIN store[n] :
    /\ IsFirst(n, nm, i)
    /\ store' = [store EXCEPT ![n] =
                   [store[n] EXCEPT ![i] = [store[n][i] EXCEPT !.val = v]]]
    /\ ret' = 0

\* apple_dt.h:87-90: appended, no check for duplicates.
Add(n, nm, v) ==
  /\ store' = [store EXCEPT ![n] =
                 Append(store[n], [name |-> Stored[nm], val |-> v, flag |-> FALSE])]
  /\ ret' = 0

\* apple_dt.h:94-95: modify when present, create when not.
Upsert(n, nm, v) == IF Hit(n, nm) # {} THEN Set(n, nm, v) ELSE Add(n, nm, v)

\* apple_dt.h:100-102
Delete(n, nm) ==
  \E i \in DOMAIN store[n] :
    /\ IsFirst(n, nm, i)
    /\ store' = [store EXCEPT ![n] = Without(store[n], i)]
    /\ ret' = 0

Refuse == ret' = -1 /\ UNCHANGED store

Release == open' = FALSE /\ store' = [n \in Node |-> <<>>] /\ UNCHANGED ret
=============================================================================

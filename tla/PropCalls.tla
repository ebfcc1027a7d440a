------------------------------ MODULE PropCalls ------------------------------
(***************************************************************************)
(* PropStore with its caller: each call is recorded, and the step that     *)
(* answers it is the edit of that node, name and value, or a refusal where *)
(* apple_dt.h has -1 for that call. An allocation may fail in any call     *)
(* that makes one: a property more, or a copy of bytes.                    *)
(***************************************************************************)
EXTENDS PropStore

VARIABLE call      \* the last call and its arguments

vars == <<store, open, ret, call>>

Init ==
  /\ store \in [Node -> Seq(Entry)]
  /\ open = TRUE
  /\ ret = 0
  /\ call = <<"dt_parse">>

\* apple_dt.h:78-80: no such property, or no memory for its new bytes.
AnswerSet(n, nm, v) ==
  \/ Set(n, nm, v)
  \/ Refuse /\ (Hit(n, nm) = {} \/ v # NoBytes)

\* apple_dt.h:87-90: no memory for the property or its bytes.
AnswerAdd(n, nm, v) == Add(n, nm, v) \/ Refuse

\* apple_dt.h:94-95: one of the two, as the property is there or not.
AnswerUpsert(n, nm, v) ==
  IF Hit(n, nm) # {} THEN AnswerSet(n, nm, v) ELSE AnswerAdd(n, nm, v)

\* apple_dt.h:100-102: no such property, and no other way to fail.
AnswerDelete(n, nm) ==
  \/ Delete(n, nm)
  \/ Refuse /\ Hit(n, nm) = {}

Answer ==
  \/ \E n \in Node, nm \in Name, v \in Val :
       \/ call' = <<"dt_set_prop_data", n, nm, v>> /\ AnswerSet(n, nm, v)
       \/ call' = <<"dt_add_prop", n, nm, v>> /\ AnswerAdd(n, nm, v)
       \/ call' = <<"dt_upsert_prop_data", n, nm, v>> /\ AnswerUpsert(n, nm, v)
  \/ \E n \in Node, nm \in Name :
       call' = <<"dt_delete_prop", n, nm>> /\ AnswerDelete(n, nm)

Next ==
  /\ open
  /\ \/ Answer /\ UNCHANGED open
     \/ call' = <<"dt_free">> /\ Release

Spec == Init /\ [][Next]_vars
=============================================================================

---------------------------- MODULE MCLockTable -----------------------------
(***************************************************************************)
(* Instance of LockTable for TLC: three processes of one thread and one    *)
(* open file description, over a byte and the three bytes around it.       *)
(***************************************************************************)
EXTENDS LockTable

CONSTANTS p, q, r, d, file

Owners == {<<"process", x>> : x \in {p, q, r}} \cup {<<"description", d>>}
Asking == [x \in {p, q, r} |-> {<<"process", x>>, <<"description", d>>}]
Nested == {<<1, 1>>, <<0, 2>>}
Symmetric == Permutations({p, q, r})
=============================================================================

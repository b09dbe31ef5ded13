----------------------------- MODULE AccountLedger -----------------------------
(***************************************************************************)
(* What the accounts promise whatever overlaps: nothing undoes a lock, and *)
(* it takes enough wrong passwords; a reset code changes one password; and *)
(* no change forgets a password that must not come back.                   *)
(***************************************************************************)
EXTENDS Naturals, Sequences

CONSTANTS Accounts, Passwords, LockAfter, KeptPasswords

VARIABLES
    wrong,          \* wrong[a]: wrong passwords that were answered, up to LockAfter
    locked,         \* the accounts that are locked
    code,           \* code[a]: whether a reset code is out
    kept            \* kept[a]: the last passwords of a, the newest first

ledger == <<wrong, locked, code, kept>>

Init ==
    /\ wrong = [a \in Accounts |-> 0]
    /\ locked = {}
    /\ code = [a \in Accounts |-> FALSE]
    /\ kept = [a \in Accounts |-> <<>>]

Open(a) == \E p \in Passwords :
    /\ kept[a] = <<>>
    /\ kept' = [kept EXCEPT ![a] = <<p>>]
    /\ UNCHANGED <<wrong, locked, code>>

Guess(a) ==
    /\ wrong' = [wrong EXCEPT ![a] = IF @ < LockAfter THEN @ + 1 ELSE @]
    /\ \/ UNCHANGED locked
       \/ wrong'[a] >= LockAfter /\ locked' = locked \cup {a}
    /\ UNCHANGED <<code, kept>>

Generate(a) ==
    /\ code' = [code EXCEPT ![a] = TRUE]
    /\ UNCHANGED <<wrong, locked, kept>>

Change(a) == \E p \in Passwords :
    /\ code[a] /\ code' = [code EXCEPT ![a] = FALSE]
    /\ \A i \in DOMAIN kept[a] : kept[a][i] # p
    /\ LET k == <<p>> \o kept[a] IN
       kept' = [kept EXCEPT ![a] = SubSeq(k, 1, IF Len(k) < KeptPasswords THEN Len(k)
                                                                       ELSE KeptPasswords)]
    /\ UNCHANGED <<wrong, locked>>

Next == \E a \in Accounts : Open(a) \/ Guess(a) \/ Generate(a) \/ Change(a)

Spec == Init /\ [][Next]_ledger
================================================================================

--------------------------- MODULE AccountProperties ---------------------------
(***************************************************************************)
(* What the accounts promise.                                              *)
(***************************************************************************)
EXTENDS UserAccount

Created == Users \ Seeded

(* The accounts that users have created keep the ledger: no stale save      *)
(* unlocks one or locks it too early, and overlapping resets neither use a  *)
(* code twice nor lose a password from the history.                         *)
Ledger == INSTANCE AccountLedger WITH
    Accounts <- Created,
    wrong  <- [u \in Created |-> wrong[u]],
    locked <- {u \in Created : Exists(u) /\ accounts[u].locked},
    code   <- [u \in Created |-> Exists(u) /\ accounts[u].passwordResetToken # None],
    kept   <- [u \in Created |-> IF Exists(u) THEN accounts[u].previous ELSE <<>>]

ImplementsLedger == Ledger!Spec

Checked(s, u) == CheckPassword(s) /\ user[s] = u
Guess(u) == \E s \in Sessions : Checked(s, u) /\ ~Matches(s)
ResetsCount(u) ==
    \E s \in Sessions :
        \/ Checked(s, u) /\ Matches(s)
        \/ SaveReset(s) /\ user[s] = u /\ Allowed(s) /\ SameVersion(s)

(* Parallel guesses lose counts to each other, but who goes on guessing     *)
(* locks the account in the end, unless the right password, or a reset,     *)
(* sets the count back to 0 again and again.                                *)
GuessingLocks ==
    \A u \in Created :
        []<><<Guess(u)>>_vars /\ <>[][~ResetsCount(u)]_vars
            => <>(Exists(u) /\ accounts[u].locked)

(* A locked account gets no more tokens once the logins that found it       *)
(* unlocked are over.                                                       *)
LockHolds ==
    \A u \in Created :
        <>(Exists(u) /\ accounts[u].locked)
            => <>[][~\E s \in Sessions : user[s] = u /\ IssueToken(s)]_vars
================================================================================

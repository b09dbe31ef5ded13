------------------------------ MODULE UserAccount ------------------------------
(***************************************************************************)
(* The accounts of components/user: creation (user.service.ts), login      *)
(* (auth.service.ts, auth.jwt.ts), and the methods of user.model.ts for    *)
(* refresh tokens, password resets and verification, which no route calls  *)
(* yet.                                                                    *)
(*                                                                         *)
(* A session is a call in progress: it finds a document, and after an      *)
(* await it saves what it has changed of it, whatever happened to the      *)
(* account meanwhile.  A save sets the changed fields and no others.       *)
(***************************************************************************)
EXTENDS Naturals, Sequences

CONSTANTS
    Users,
    Seeded,         \* the accounts the migrations insert, which have no __v
    Sessions,
    Passwords,
    Acceptable,     \* those with eight characters, a letter and a number
    FirstPassword,  \* the one the migrations set
    Codes,          \* four-digit codes
    None,           \* an absent field, document or user
    LockAfter,      \* wrong passwords until the account is locked
    KeptPasswords,  \* length of previousPasswords
    MaxCount,       \* bound: wrong passwords are tried up to the count MaxCount[u]
    MaxCalls        \* bound: codes generated and passwords that age

NoVersion == 0      \* the version of a document without __v

(* A document of the collection users, of what matters of it.              *)
Account ==
    [password : Passwords, previous : UNION {[1 .. n -> Passwords] : n \in 0 .. KeptPasswords},
     version : Nat, count : Nat, locked : BOOLEAN, verified : BOOLEAN,
     passwordOld : BOOLEAN, refreshToken : BOOLEAN,
     passwordResetToken : Codes \cup {None}, verificationToken : Codes \cup {None}]

ASSUME AccountAssumption ==
    /\ Seeded \subseteq Users /\ FirstPassword \in Acceptable
    /\ Acceptable \subseteq Passwords
    /\ None \notin Users \cup Passwords \cup Codes \cup Account
    /\ {LockAfter, KeptPasswords} \subseteq Nat \ {0} /\ MaxCalls \in Nat
    /\ MaxCount \in [Users -> Nat]

VARIABLES
    accounts,       \* the collection users, by their email
    pc, user,       \* what each session awaits, for which account
    doc,            \* the fields it yet uses of the document it found
    input,          \* the password it was given
    wrong,          \* history: wrong passwords answered, counted up to LockAfter
    calls           \* counts towards MaxCalls

session == <<pc, user, doc, input>>
vars == <<accounts, session, wrong, calls>>

Steps == {"idle", "check", "token", "spend", "reset", "verify"}

Exists(u) == accounts[u] # None

(* An account counts up to the lock before it is locked, and a password is  *)
(* the newest of its history from the first time it is set.                 *)
TypeOK ==
    /\ \A u \in Users : Exists(u) =>
         /\ accounts[u] \in Account
         /\ accounts[u].count >= LockAfter => accounts[u].locked
         /\ accounts[u].previous = <<>> => accounts[u].version = NoVersion
         /\ accounts[u].previous # <<>> => Head(accounts[u].previous) = accounts[u].password
    /\ pc \in [Sessions -> Steps] /\ user \in [Sessions -> Users \cup {None}]
    /\ input \in [Sessions -> Passwords \cup {None}]
    /\ \A s \in Sessions : pc[s] = "idle" <=> user[s] = None
    /\ wrong \in [Users -> 0 .. LockAfter] /\ calls \in 0 .. MaxCalls

NewAccount(p) ==
    [password |-> p, previous |-> <<p>>, version |-> 1, count |-> 0, locked |-> FALSE,
     verified |-> FALSE, passwordOld |-> FALSE, refreshToken |-> FALSE,
     passwordResetToken |-> None, verificationToken |-> None]

SeededAccount(p) ==
    [NewAccount(p) EXCEPT !.previous = <<>>, !.version = NoVersion, !.verified = TRUE]

Init ==
    /\ accounts = [u \in Users |-> IF u \in Seeded THEN SeededAccount(FirstPassword) ELSE None]
    /\ pc = [s \in Sessions |-> "idle"] /\ user = [s \in Sessions |-> None]
    /\ doc = [s \in Sessions |-> None] /\ input = [s \in Sessions |-> None]
    /\ wrong = [u \in Users |-> 0] /\ calls = 0

Call == calls < MaxCalls /\ calls' = calls + 1

Begin(s, step, u, d, p) ==
    /\ pc[s] = "idle"
    /\ pc' = [pc EXCEPT ![s] = step] /\ user' = [user EXCEPT ![s] = u]
    /\ doc' = [doc EXCEPT ![s] = d] /\ input' = [input EXCEPT ![s] = p]

End(s) ==
    /\ pc' = [pc EXCEPT ![s] = "idle"] /\ user' = [user EXCEPT ![s] = None]
    /\ doc' = [doc EXCEPT ![s] = None] /\ input' = [input EXCEPT ![s] = None]

With(a, fields) == [f \in DOMAIN a |-> IF f \in DOMAIN fields THEN fields[f] ELSE a[f]]

(* Mutant: a save writes the document back, not just what was changed.      *)
SaveWhole(s, fields) ==
    accounts' = [accounts EXCEPT ![user[s]] = With(With(@, doc[s]), fields)]

(* document.save(): a $set or $unset of the fields that were modified.      *)
Save(s, fields) == accounts' = [accounts EXCEPT ![user[s]] = With(@, fields)]

Fetched(u, fields) == [f \in fields |-> accounts[u][f]]

--------------------------------------------------------------------------------
(* Creation *)

(* UserService.create; an account that is there already is a 409.           *)
Create(u, p) ==
    /\ ~Exists(u) /\ p \in Acceptable
    /\ accounts' = [accounts EXCEPT ![u] = NewAccount(p)]
    /\ UNCHANGED <<session, wrong, calls>>

--------------------------------------------------------------------------------
(* Login *)

(* findOne; an email without account is a 404.                              *)
BeginLogin(s, u, p) ==
    /\ Exists(u)
    /\ p = accounts[u].password \/ accounts[u].count < MaxCount[u]
    /\ Begin(s, "check", u, Fetched(u, {"password", "count", "locked", "passwordOld"}), p)
    /\ UNCHANGED <<accounts, wrong, calls>>

Matches(s) == input[s] = doc[s].password

(* Mutant: a wrong password is counted in the document and not saved.       *)
CountFailureUnsaved(s) == <<>>

(* Wrong password: one more, of those the document had when it was found.   *)
CountFailure(s) ==
    LET n == doc[s].count + 1
    IN IF n >= LockAfter THEN [count |-> n, locked |-> TRUE] ELSE [count |-> n]

(* A count that was 0 is not modified by setting it to 0.                   *)
ResetCount(s) == IF doc[s].count # 0 THEN [count |-> 0] ELSE <<>>

(* Mutant: login does not look at isLocked.                                 *)
IsLockedIgnored(s) == FALSE

(* user.isLocked after checkPassword, of the document in memory.            *)
IsLocked(s) == doc[s].locked \/ (~Matches(s) /\ doc[s].count + 1 >= LockAfter)

(* checkPassword saves whatever the outcome, and login answers 423 for a    *)
(* locked account before it looks at the password or its age.               *)
CheckPassword(s) ==
    /\ pc[s] = "check"
    /\ Save(s, IF Matches(s) THEN ResetCount(s) ELSE CountFailure(s))
    /\ wrong' = [wrong EXCEPT ![user[s]] =
                    IF Matches(s) \/ @ = LockAfter THEN @ ELSE @ + 1]
    /\ IF ~IsLocked(s) /\ Matches(s) /\ ~doc[s].passwordOld
       THEN /\ pc' = [pc EXCEPT ![s] = "token"] /\ UNCHANGED user
            /\ doc' = [doc EXCEPT ![s] = <<>>] /\ input' = [input EXCEPT ![s] = None]
       ELSE End(s)
    /\ UNCHANGED calls

(* createToken: the JWT is signed, and the login answers with it once a     *)
(* new refresh token is saved.                                              *)
IssueToken(s) ==
    /\ pc[s] = "token"
    /\ Save(s, [refreshToken |-> TRUE])
    /\ End(s)
    /\ UNCHANGED <<wrong, calls>>

--------------------------------------------------------------------------------
(* Refresh tokens: verifyRefreshToken *)

(* The token presented is the one the account has.                          *)
BeginRefresh(s, u) ==
    /\ Exists(u) /\ accounts[u].refreshToken
    /\ Begin(s, "spend", u, Fetched(u, {}), None)
    /\ UNCHANGED <<accounts, wrong, calls>>

(* The token the account has by now is removed, whether the one presented   *)
(* has expired or not; only the answer differs.                             *)
Spend(s) ==
    /\ pc[s] = "spend"
    /\ Save(s, [refreshToken |-> FALSE])
    /\ End(s)
    /\ UNCHANGED <<wrong, calls>>

--------------------------------------------------------------------------------
(* Password resets and verification *)

Purposes == {"passwordResetToken", "verificationToken"}

(* generatePasswordResetToken, generateVerificationToken: a code that       *)
(* another account has runs into the unique index.                          *)
GenerateCode(u, c, purpose) ==
    /\ Call
    /\ Exists(u)
    /\ \A v \in Users \ {u} : Exists(v) => accounts[v][purpose] # c
    /\ accounts' = [accounts EXCEPT ![u][purpose] = c]
    /\ UNCHANGED <<session, wrong>>

(* applyPasswordResetWithToken refuses a locked account.  Its findOne does  *)
(* not select passwordResetTokenSetAt, so no code is ever too old for it.   *)
BeginReset(s, c, p) == \E u \in Users :
    /\ Exists(u) /\ accounts[u].passwordResetToken = c /\ ~accounts[u].locked
    /\ Begin(s, "reset", u, Fetched(u, {"previous", "count", "version"}), p)
    /\ UNCHANGED <<accounts, wrong, calls>>

(* Mutant: previousPasswords grows.                                         *)
KeepAll(p, previous) == <<p>> \o previous

Keep(p, previous) ==
    LET all == <<p>> \o previous
    IN IF Len(all) > KeptPasswords THEN SubSeq(all, 1, KeptPasswords) ELSE all

(* What preValidate lets through.                                           *)
Allowed(s) ==
    /\ input[s] \in Acceptable
    /\ \A i \in DOMAIN doc[s].previous : doc[s].previous[i] # input[s]

(* Mutant: the save does not compare __v.                                   *)
SameVersionAlways(s) == TRUE

(* previousPasswords is set as a whole, so mongoose compares __v, if there  *)
(* is one, and increments it.                                               *)
SameVersion(s) == doc[s].version \in {NoVersion, accounts[user[s]].version}

SaveReset(s) ==
    /\ pc[s] = "reset"
    /\ IF Allowed(s) /\ SameVersion(s)
       THEN Save(s, [password |-> input[s], previous |-> Keep(input[s], doc[s].previous),
                          version |-> accounts[user[s]].version + 1, passwordOld |-> FALSE,
                          passwordResetToken |-> None,
                          count |-> IF doc[s].count # 0 THEN 0 ELSE accounts[user[s]].count])
       ELSE UNCHANGED accounts
    /\ End(s)
    /\ UNCHANGED <<wrong, calls>>

(* verifyWithToken, whose codes never get too old either.                   *)
BeginVerify(s, c) == \E u \in Users :
    /\ Exists(u) /\ accounts[u].verificationToken = c
    /\ Begin(s, "verify", u, Fetched(u, {}), None)
    /\ UNCHANGED <<accounts, wrong, calls>>

SaveVerify(s) ==
    /\ pc[s] = "verify"
    /\ Save(s, [verified |-> TRUE, verificationToken |-> None])
    /\ End(s)
    /\ UNCHANGED <<wrong, calls>>

--------------------------------------------------------------------------------
(* Time and failures *)

(* The password of an account outlives passwordTtl.                         *)
Age(u) ==
    /\ Call
    /\ Exists(u) /\ accounts' = [accounts EXCEPT ![u].passwordOld = TRUE]
    /\ UNCHANGED <<session, wrong>>

(* A save fails, or the process dies before it.                             *)
Fail(s) ==
    /\ pc[s] # "idle"
    /\ End(s)
    /\ UNCHANGED <<accounts, wrong, calls>>

(* All but the end of a login, where its token comes into being.            *)
OtherStep ==
    \/ \E u \in Users :
         \/ \E p \in Passwords : Create(u, p)
         \/ \E c \in Codes, purpose \in Purposes : GenerateCode(u, c, purpose)
         \/ Age(u)
    \/ \E s \in Sessions :
         \/ \E u \in Users, p \in Passwords : BeginLogin(s, u, p)
         \/ \E u \in Users : BeginRefresh(s, u)
         \/ \E c \in Codes : BeginVerify(s, c) \/ \E p \in Passwords : BeginReset(s, c, p)
         \/ Spend(s) \/ SaveReset(s) \/ SaveVerify(s)

Next ==
    \/ OtherStep
    \/ \E s \in Sessions : CheckPassword(s) \/ IssueToken(s) \/ Fail(s)

Spec == Init /\ [][Next]_vars
================================================================================

----------------------------- MODULE AccountProofs -----------------------------
(***************************************************************************)
(* Machine-checked proofs about UserAccount: its types, and that the       *)
(* accounts users create keep the ledger, for any users, passwords, codes  *)
(* and sessions.                                                           *)
(***************************************************************************)
EXTENDS AccountProperties, TLAPS

Histories == UNION {[1 .. n -> Passwords] : n \in 0 .. KeptPasswords}

Collection ==
    /\ accounts \in [Users -> Account \cup {None}]
    /\ pc \in [Sessions -> Steps] /\ user \in [Sessions -> Users \cup {None}]
    /\ doc = [s \in Sessions |-> doc[s]]
    /\ input \in [Sessions -> Passwords \cup {None}]
    /\ wrong \in [Users -> 0 .. LockAfter] /\ calls \in 0 .. MaxCalls

(* No count, in an account or read from one, is ahead of the wrong          *)
(* passwords that were answered.                                            *)
Answered(u, n) == n <= wrong[u] \/ wrong[u] = LockAfter

Valid(u) ==
    Exists(u) =>
      /\ accounts[u].count >= LockAfter => accounts[u].locked
      /\ accounts[u].previous = <<>> => accounts[u].version = NoVersion
      /\ accounts[u].previous # <<>> => Head(accounts[u].previous) = accounts[u].password
      /\ Answered(u, accounts[u].count)
      /\ u \in Created => accounts[u].version # NoVersion

(* A reset that finds the version it has read finds the history it has      *)
(* read, and the code.                                                      *)
Current(u, version, previous) ==
    /\ version # NoVersion /\ version <= accounts[u].version
    /\ version = accounts[u].version =>
         previous = accounts[u].previous /\ accounts[u].passwordResetToken # None

(* What a session knows of the account it works on.                         *)
Knows(s) ==
    /\ pc[s] = "idle" <=> user[s] = None
    /\ pc[s] # "idle" => user[s] \in Users /\ Exists(user[s])
    /\ pc[s] = "check" =>
         /\ doc[s].password \in Passwords /\ doc[s].count \in Nat
         /\ input[s] \in Passwords /\ Answered(user[s], doc[s].count)
    /\ pc[s] = "reset" =>
         /\ doc[s].previous \in Histories /\ doc[s].version \in Nat /\ doc[s].count \in Nat
         /\ input[s] \in Passwords
         /\ user[s] \in Created => Current(user[s], doc[s].version, doc[s].previous)

IInv ==
    /\ Collection
    /\ \A s \in Sessions : Knows(s)
    /\ \A u \in Users : Valid(u)

--------------------------------------------------------------------------------
USE AccountAssumption DEF Steps, NoVersion

(* Histories are the short sequences of passwords.                          *)
LEMMA HistorySeq ==
    ASSUME NEW q \in Histories
    PROVE  q \in Seq(Passwords) /\ Len(q) \in 0 .. KeptPasswords /\ DOMAIN q = 1 .. Len(q)
<1>1. PICK n \in 0 .. KeptPasswords : q \in [1 .. n -> Passwords]
  BY DEF Histories
<1>2. q \in Seq(Passwords) /\ Len(q) = n
  BY <1>1
<1> QED
  BY <1>1, <1>2

LEMMA SeqHistory ==
    ASSUME NEW q \in Seq(Passwords), Len(q) <= KeptPasswords
    PROVE  q \in Histories
<1>1. Len(q) \in 0 .. KeptPasswords /\ q \in [1 .. Len(q) -> Passwords]
  OBVIOUS
<1> QED
  BY <1>1 DEF Histories

(* A new password becomes the newest of a history that stays short.         *)
LEMMA KeepHistory ==
    ASSUME NEW p \in Passwords, NEW q \in Histories
    PROVE  /\ Keep(p, q) \in Histories /\ Keep(p, q) # <<>> /\ Head(Keep(p, q)) = p
           /\ LET k == <<p>> \o q IN
              Keep(p, q) = SubSeq(k, 1, IF Len(k) < KeptPasswords THEN Len(k) ELSE KeptPasswords)
<1> DEFINE k == <<p>> \o q
<1>1. /\ k \in Seq(Passwords) /\ Len(k) \in Nat \ {0} /\ k[1] = p
  BY HistorySeq
<1> HIDE DEF k
<1>2. CASE Len(k) > KeptPasswords
  <2>1. Keep(p, q) = SubSeq(k, 1, KeptPasswords)
    BY <1>2 DEF Keep, k
  <2>2. /\ SubSeq(k, 1, KeptPasswords) \in Seq(Passwords)
        /\ Len(SubSeq(k, 1, KeptPasswords)) = KeptPasswords
        /\ SubSeq(k, 1, KeptPasswords)[1] = k[1]
    BY <1>1, <1>2
  <2>3. SubSeq(k, 1, KeptPasswords) # <<>> /\ Head(SubSeq(k, 1, KeptPasswords)) = p
    BY <1>1, <2>2
  <2> QED
    <3>1. Keep(p, q) \in Histories
      <4>1. KeptPasswords \in Nat /\ KeptPasswords <= KeptPasswords
        OBVIOUS
      <4> QED
        BY <2>1, <2>2, <4>1, SeqHistory
    <3>2. (IF Len(k) < KeptPasswords THEN Len(k) ELSE KeptPasswords) = KeptPasswords
      BY <1>1, <1>2
    <3> QED
      BY <2>1, <2>3, <3>1, <3>2 DEF k
<1>3. CASE Len(k) <= KeptPasswords
  <2>1. Keep(p, q) = k
    BY <1>1, <1>3 DEF Keep, k
  <2>2. SubSeq(k, 1, Len(k)) = k
    BY <1>1
  <2>3. Len(k) < KeptPasswords \/ Len(k) = KeptPasswords
    BY <1>1, <1>3
  <2>4. k # <<>> /\ Head(k) = p
    BY <1>1
  <2> QED
    BY <1>1, <1>3, <2>1, <2>2, <2>3, <2>4, SeqHistory DEF k
<1> QED
  BY <1>1, <1>2, <1>3

(* What a save makes of a document.                                         *)
Visible(a) ==
    <<a.password, a.previous, a.version, a.count, a.locked, a.passwordResetToken>>

LEMMA SavedCount ==
    ASSUME NEW a \in Account, NEW n \in Nat
    PROVE  /\ With(a, <<>>) = a
           /\ With(a, [count |-> n]) \in Account
           /\ Visible(With(a, [count |-> n]))
                = <<a.password, a.previous, a.version, n, a.locked, a.passwordResetToken>>
           /\ With(a, [count |-> n, locked |-> TRUE]) \in Account
           /\ Visible(With(a, [count |-> n, locked |-> TRUE]))
                = <<a.password, a.previous, a.version, n, TRUE, a.passwordResetToken>>
<1>1. With(a, <<>>) = a
  BY DEF Account, With
<1>2. /\ With(a, [count |-> n]) \in Account
      /\ Visible(With(a, [count |-> n]))
           = <<a.password, a.previous, a.version, n, a.locked, a.passwordResetToken>>
  BY DEF Account, With, Visible
<1>3. With(a, [count |-> n, locked |-> TRUE]) \in Account
  BY DEF Account, With
<1>4. Visible(With(a, [count |-> n, locked |-> TRUE]))
        = <<a.password, a.previous, a.version, n, TRUE, a.passwordResetToken>>
  BY DEF Account, With, Visible
<1> QED
  BY <1>1, <1>2, <1>3, <1>4

LEMMA SavedToken ==
    ASSUME NEW a \in Account, NEW b \in BOOLEAN
    PROVE  /\ With(a, [refreshToken |-> b]) \in Account
           /\ Visible(With(a, [refreshToken |-> b])) = Visible(a)
           /\ With(a, [verified |-> TRUE, verificationToken |-> None]) \in Account
           /\ Visible(With(a, [verified |-> TRUE, verificationToken |-> None])) = Visible(a)
<1>1. /\ With(a, [refreshToken |-> b]) \in Account
      /\ Visible(With(a, [refreshToken |-> b])) = Visible(a)
  BY DEF Account, With, Visible
<1>2. With(a, [verified |-> TRUE, verificationToken |-> None]) \in Account
  BY DEF Account, With
<1>3. Visible(With(a, [verified |-> TRUE, verificationToken |-> None])) = Visible(a)
  BY DEF Account, With, Visible
<1> QED
  BY <1>1, <1>2, <1>3

LEMMA SavedReset ==
    ASSUME NEW a \in Account, NEW p \in Passwords, NEW q \in Histories,
           NEW n \in Nat, NEW m \in Nat
    PROVE  LET b == With(a, [password |-> p, previous |-> q, version |-> n, passwordOld |-> FALSE,
                             passwordResetToken |-> None, count |-> m])
           IN  b \in Account /\ Visible(b) = <<p, q, n, m, a.locked, None>>
<1> DEFINE b == With(a, [password |-> p, previous |-> q, version |-> n, passwordOld |-> FALSE,
                         passwordResetToken |-> None, count |-> m])
<1>1. b \in Account
  BY DEF Account, With, Histories
<1>2. Visible(b) = <<p, q, n, m, a.locked, None>>
  BY DEF Account, With, Visible
<1> QED
  BY <1>1, <1>2

--------------------------------------------------------------------------------
(* What a step does to the accounts *)

Opened(u, p) ==
    /\ u \in Users /\ p \in Passwords /\ ~Exists(u)
    /\ accounts' = [accounts EXCEPT ![u] = NewAccount(p)]
    /\ UNCHANGED wrong

Written(u, b) ==
    /\ u \in Users /\ Exists(u) /\ b \in Account
    /\ accounts' = [accounts EXCEPT ![u] = b]

(* Nothing of the ledger changes, but for a new reset code.                 *)
Quiet(u, b) ==
    /\ Written(u, b)
    /\ \E n \in {0, accounts[u].count}, c \in Codes \cup {accounts[u].passwordResetToken} :
         Visible(b) = <<accounts[u].password, accounts[u].previous, accounts[u].version,
                        n, accounts[u].locked, c>>
    /\ UNCHANGED wrong

(* A wrong password, counted from what was read.                            *)
Guessed(s, b) ==
    LET u == user[s]
        n == doc[s].count + 1
    IN /\ pc[s] = "check" /\ Written(u, b)
       /\ Visible(b) =
            <<accounts[u].password, accounts[u].previous, accounts[u].version, n,
              IF n >= LockAfter THEN TRUE ELSE accounts[u].locked,
              accounts[u].passwordResetToken>>
       /\ wrong' = [wrong EXCEPT ![u] = IF @ = LockAfter THEN @ ELSE @ + 1]

(* A password that is not in the history becomes its newest.                *)
Changed(s, b) ==
    LET u == user[s] IN
    /\ pc[s] = "reset" /\ Allowed(s) /\ SameVersion(s) /\ Written(u, b)
    /\ \E n \in {0, accounts[u].count} :
         Visible(b) = <<input[s], Keep(input[s], doc[s].previous), accounts[u].version + 1,
                        n, accounts[u].locked, None>>
    /\ UNCHANGED wrong

AccountEffect ==
    \/ UNCHANGED <<accounts, wrong>>
    \/ \E u, p : Opened(u, p)
    \/ \E u, b : Quiet(u, b)
    \/ \E s \in Sessions : \E b : Guessed(s, b) \/ Changed(s, b)

(* The account of a session that is not idle, and what a save does to it.   *)
LEMMA Busy ==
    ASSUME IInv, NEW s \in Sessions, pc[s] # "idle"
    PROVE  user[s] \in Users /\ Exists(user[s]) /\ accounts[user[s]] \in Account
<1>1. user[s] \in Users /\ Exists(user[s])
  BY DEF IInv, Knows
<1> QED
  BY <1>1 DEF IInv, Collection, Exists

LEMMA AccountFields ==
    ASSUME NEW a \in Account
    PROVE  /\ a.password \in Passwords /\ a.previous \in Histories /\ a.version \in Nat
           /\ a.count \in Nat /\ a.locked \in BOOLEAN
           /\ a.passwordResetToken \in Codes \cup {None}
  BY DEF Account, Histories

LEMMA SavesQuietly ==
    ASSUME IInv, NEW s \in Sessions, pc[s] # "idle", NEW fields, Save(s, fields),
           With(accounts[user[s]], fields) \in Account,
           Visible(With(accounts[user[s]], fields)) = Visible(accounts[user[s]]),
           UNCHANGED wrong
    PROVE  AccountEffect
<1> DEFINE u == user[s]
           b == With(accounts[u], fields)
<1>1. Written(u, b)
  BY Busy DEF Written, Save
<1>2. Quiet(u, b)
  BY <1>1 DEF Quiet, Visible
<1> QED
  BY <1>2 DEF AccountEffect

LEMMA CheckEffect ==
    ASSUME IInv, NEW s \in Sessions, CheckPassword(s)
    PROVE  AccountEffect
<1> DEFINE u == user[s]
           a == accounts[u]
<1>1. pc[s] = "check" /\ u \in Users /\ Exists(u) /\ a \in Account /\ doc[s].count \in Nat
  <2>1. pc[s] = "check"
    BY DEF CheckPassword
  <2> QED
    BY <2>1, Busy DEF IInv, Knows
<1>2. CASE Matches(s)
  <2>1. wrong' = wrong
    BY <1>2 DEF CheckPassword, IInv, Collection
  <2>2. CASE doc[s].count = 0
    <3>1. Save(s, <<>>)
      BY <1>2, <2>2 DEF CheckPassword, ResetCount
    <3> QED
      BY <1>1, <2>1, <3>1, SavedCount, SavesQuietly
  <2>3. CASE doc[s].count # 0
    <3>1. Save(s, [count |-> 0])
      BY <1>2, <2>3 DEF CheckPassword, ResetCount
    <3> DEFINE b == With(a, [count |-> 0])
    <3>2. b \in Account /\ Visible(b) =
            <<a.password, a.previous, a.version, 0, a.locked, a.passwordResetToken>>
      BY <1>1, SavedCount
    <3>3. Written(u, b)
      BY <1>1, <3>1, <3>2 DEF Written, Save
    <3> HIDE DEF b
    <3>4. Quiet(u, b)
      BY <2>1, <3>2, <3>3 DEF Quiet
    <3> QED
      BY <3>4 DEF AccountEffect
  <2> QED
    BY <2>2, <2>3
<1>3. CASE ~Matches(s)
  <2> DEFINE n == doc[s].count + 1
             b == With(a, CountFailure(s))
  <2>1. Save(s, CountFailure(s))
    BY <1>3 DEF CheckPassword
  <2>2. wrong' = [wrong EXCEPT ![u] = IF @ = LockAfter THEN @ ELSE @ + 1]
    BY <1>3 DEF CheckPassword
  <2>3. n \in Nat
    BY <1>1
  <2>4. b \in Account /\ Visible(b) =
          <<a.password, a.previous, a.version, n, IF n >= LockAfter THEN TRUE ELSE a.locked,
            a.passwordResetToken>>
    <3>1. CASE n >= LockAfter
      <4>1. CountFailure(s) = [count |-> n, locked |-> TRUE]
        BY <3>1 DEF CountFailure
      <4> QED
        BY <1>1, <2>3, <3>1, <4>1, SavedCount
    <3>2. CASE ~(n >= LockAfter)
      <4>1. CountFailure(s) = [count |-> n]
        BY <3>2 DEF CountFailure
      <4> QED
        BY <1>1, <2>3, <3>2, <4>1, SavedCount
    <3> QED
      BY <3>1, <3>2
  <2>5. Written(u, b)
    BY <1>1, <2>1, <2>4 DEF Written, Save
  <2> HIDE DEF b
  <2>6. Guessed(s, b)
    BY <1>1, <2>2, <2>4, <2>5 DEF Guessed
  <2> QED
    BY <2>6 DEF AccountEffect
<1> QED
  BY <1>2, <1>3

LEMMA ResetEffect ==
    ASSUME IInv, NEW s \in Sessions, SaveReset(s)
    PROVE  AccountEffect
<1> DEFINE u == user[s]
           a == accounts[u]
           m == IF doc[s].count # 0 THEN 0 ELSE a.count
           b == With(a, [password |-> input[s], previous |-> Keep(input[s], doc[s].previous),
                         version |-> a.version + 1, passwordOld |-> FALSE,
                         passwordResetToken |-> None, count |-> m])
<1>1. /\ pc[s] = "reset" /\ u \in Users /\ Exists(u) /\ a \in Account
      /\ doc[s].previous \in Histories /\ input[s] \in Passwords
  <2>1. pc[s] = "reset"
    BY DEF SaveReset
  <2> QED
    BY <2>1, Busy DEF IInv, Knows
<1>2. /\ a.version + 1 \in Nat /\ m \in Nat /\ m \in {0, a.count}
      /\ Keep(input[s], doc[s].previous) \in Histories
  <2>1. a.version \in Nat /\ a.count \in Nat
    BY <1>1, AccountFields
  <2>2. a.version + 1 \in Nat /\ m \in Nat /\ m \in {0, a.count}
    BY <2>1
  <2> QED
    BY <1>1, <2>2, KeepHistory
<1>3. b \in Account /\ Visible(b) = <<input[s], Keep(input[s], doc[s].previous), a.version + 1,
                                      m, a.locked, None>>
  BY <1>1, <1>2, SavedReset
<1>4. CASE Allowed(s) /\ SameVersion(s)
  <2>1. Written(u, b)
    BY <1>1, <1>3, <1>4 DEF Written, SaveReset, Save
  <2>2. wrong' = wrong
    BY DEF SaveReset
  <2> HIDE DEF b, m
  <2>3. Changed(s, b)
    BY <1>1, <1>2, <1>3, <1>4, <2>1, <2>2 DEF Changed
  <2> QED
    BY <2>3 DEF AccountEffect
<1>5. CASE ~(Allowed(s) /\ SameVersion(s))
  BY <1>5 DEF SaveReset, AccountEffect
<1> QED
  BY <1>4, <1>5

LEMMA NextEffect ==
    ASSUME IInv, Next
    PROVE  AccountEffect
<1>1. ASSUME NEW u \in Users, NEW p \in Passwords, Create(u, p)
      PROVE  AccountEffect
  <2>1. Opened(u, p)
    BY <1>1 DEF Create, Opened
  <2> QED
    BY <2>1 DEF AccountEffect
<1>2. ASSUME NEW u \in Users, NEW c \in Codes, NEW purpose \in Purposes,
             GenerateCode(u, c, purpose)
      PROVE  AccountEffect
  <2>1. u \in Users /\ Exists(u) /\ accounts[u] \in Account /\ wrong' = wrong
    BY <1>2 DEF GenerateCode, IInv, Collection, Exists
  <2> DEFINE b == [accounts[u] EXCEPT ![purpose] = c]
  <2>2. accounts' = [accounts EXCEPT ![u] = b]
    BY <1>2 DEF GenerateCode
  <2>3. b \in Account /\ \E d \in Codes \cup {accounts[u].passwordResetToken} :
          Visible(b) = <<accounts[u].password, accounts[u].previous, accounts[u].version,
                         accounts[u].count, accounts[u].locked, d>>
    <3>1. CASE purpose = "passwordResetToken"
      <4>1. b \in Account
        BY <2>1, <3>1 DEF Account
      <4>2. Visible(b) = <<accounts[u].password, accounts[u].previous, accounts[u].version,
                           accounts[u].count, accounts[u].locked, c>>
        BY <2>1, <3>1 DEF Account, Visible
      <4> QED
        BY <4>1, <4>2
    <3>2. CASE purpose = "verificationToken"
      <4>1. b \in Account
        BY <2>1, <3>2 DEF Account
      <4>2. Visible(b) = Visible(accounts[u])
        BY <2>1, <3>2 DEF Account, Visible
      <4> QED
        BY <4>1, <4>2 DEF Visible
    <3> QED
      BY <1>2, <3>1, <3>2 DEF Purposes
  <2>4. Written(u, b)
    BY <2>1, <2>2, <2>3 DEF Written
  <2> HIDE DEF b
  <2>5. Quiet(u, b)
    BY <2>1, <2>3, <2>4 DEF Quiet
  <2> QED
    BY <2>5 DEF AccountEffect
<1>3. ASSUME NEW u \in Users, Age(u)
      PROVE  AccountEffect
  <2>1. u \in Users /\ Exists(u) /\ accounts[u] \in Account /\ wrong' = wrong
    BY <1>3 DEF Age, IInv, Collection, Exists
  <2> DEFINE b == [accounts[u] EXCEPT !.passwordOld = TRUE]
  <2>2. accounts' = [accounts EXCEPT ![u] = b]
    BY <1>3 DEF Age
  <2>3. b \in Account /\ Visible(b) = Visible(accounts[u])
    BY <2>1 DEF Account, Visible
  <2>4. Written(u, b)
    BY <2>1, <2>2, <2>3 DEF Written
  <2>5. Quiet(u, b)
    BY <2>1, <2>3, <2>4 DEF Quiet, Visible
  <2> QED
    BY <2>5 DEF AccountEffect
<1>4. ASSUME NEW s \in Sessions, IssueToken(s) \/ Spend(s) \/ SaveVerify(s)
      PROVE  AccountEffect
  <2>1. pc[s] # "idle" /\ accounts[user[s]] \in Account /\ wrong' = wrong
    BY <1>4, Busy DEF IssueToken, Spend, SaveVerify
  <2> QED
    BY <1>4, <2>1, SavedToken, SavesQuietly DEF IssueToken, Spend, SaveVerify
<1> QED
  BY <1>1, <1>2, <1>3, <1>4, CheckEffect, ResetEffect
  DEF Next, OtherStep, BeginLogin, BeginRefresh, BeginVerify, BeginReset, Fail, AccountEffect

--------------------------------------------------------------------------------
(* Accounts only grow *)

(* An account stays, its version only rises, and while it does not, the     *)
(* history stays and so does a reset code.                                  *)
Grown(u) ==
    /\ Exists(u)'
    /\ accounts'[u].version >= accounts[u].version
    /\ accounts'[u].version = accounts[u].version =>
         /\ accounts'[u].previous = accounts[u].previous
         /\ accounts[u].passwordResetToken # None => accounts'[u].passwordResetToken # None

Grows ==
    /\ accounts' \in [Users -> Account \cup {None}]
    /\ wrong' \in [Users -> 0 .. LockAfter]
    /\ \A u \in Users : Valid(u)'
    /\ \A u \in Users : Exists(u) => Grown(u)
    /\ \A u \in Users, n \in Nat : Answered(u, n) => Answered(u, n)'

LEMMA SameGrows ==
    ASSUME IInv, UNCHANGED <<accounts, wrong>>
    PROVE  Grows
<1>1. \A u \in Users : Valid(u)'
  BY DEF IInv, Valid, Exists, Answered
<1>2. \A u \in Users : Exists(u) => Grown(u)
  <2> SUFFICES ASSUME NEW u \in Users, Exists(u)
               PROVE  Grown(u)
    OBVIOUS
  <2>1. accounts[u] \in Account
    BY DEF IInv, Collection, Exists
  <2> QED
    BY <2>1, AccountFields DEF Grown, Exists
<1> QED
  BY <1>1, <1>2 DEF Grows, IInv, Collection, Answered

LEMMA NewAccounts ==
    ASSUME NEW p \in Passwords
    PROVE  NewAccount(p) \in Account
<1>1. <<p>> \in Seq(Passwords) /\ Len(<<p>>) = 1 /\ 1 <= KeptPasswords
  OBVIOUS
<1>2. <<p>> \in Histories
  BY <1>1, SeqHistory
<1> QED
  BY <1>2 DEF NewAccount, Account, Histories

LEMMA OpenedGrows ==
    ASSUME IInv, NEW u, NEW p, Opened(u, p)
    PROVE  Grows
<1>1. /\ u \in Users /\ p \in Passwords /\ accounts[u] = None
      /\ accounts' = [accounts EXCEPT ![u] = NewAccount(p)]
      /\ wrong' = wrong
  BY DEF Opened, Exists
<1>2. NewAccount(p) \in Account
  BY <1>1, NewAccounts
<1>3. accounts' \in [Users -> Account \cup {None}] /\ wrong' \in [Users -> 0 .. LockAfter]
  BY <1>1, <1>2 DEF IInv, Collection
<1>4. ASSUME NEW v \in Users
      PROVE  Valid(v)' /\ (Exists(v) => Grown(v))
  <2>1. CASE v = u
    <3>1. accounts'[v] = NewAccount(p)
      BY <1>1, <2>1 DEF IInv, Collection
    <3>2. wrong'[v] \in 0 .. LockAfter
      BY <1>3
    <3> QED
      BY <1>1, <2>1, <3>1, <3>2 DEF Valid, Answered, NewAccount, Exists
  <2>2. CASE v # u
    <3>1. accounts'[v] = accounts[v]
      BY <1>1, <2>2 DEF IInv, Collection
    <3>2. Exists(v) => accounts[v] \in Account
      BY DEF IInv, Collection, Exists
    <3> QED
      BY <1>1, <3>1, <3>2, AccountFields DEF IInv, Valid, Answered, Grown, Exists
  <2> QED
    BY <2>1, <2>2
<1> QED
  BY <1>1, <1>3, <1>4 DEF Grows, Answered

(* One account is written, its password with its history or not at all.     *)
LEMMA WrittenGrows ==
    ASSUME IInv, NEW u, NEW b, Written(u, b),
           wrong' = wrong \/ wrong' = [wrong EXCEPT ![u] = IF @ = LockAfter THEN @ ELSE @ + 1],
           b.count >= LockAfter => b.locked,
           \/ /\ b.password = accounts[u].password /\ b.previous = accounts[u].previous
              /\ b.version = accounts[u].version
              /\ accounts[u].passwordResetToken # None => b.passwordResetToken # None
           \/ /\ b.previous # <<>> /\ Head(b.previous) = b.password
              /\ b.version = accounts[u].version + 1,
           b.count <= wrong'[u] \/ wrong'[u] = LockAfter
    PROVE  Grows
<1>1. /\ u \in Users /\ accounts[u] # None /\ accounts[u] \in Account
      /\ b \in Account /\ b # None
      /\ accounts' = [accounts EXCEPT ![u] = b]
  BY DEF Written, Exists, IInv, Collection
<1>2. wrong \in [Users -> 0 .. LockAfter]
  BY DEF IInv, Collection
<1>3. /\ accounts' \in [Users -> Account \cup {None}] /\ wrong' \in [Users -> 0 .. LockAfter]
      /\ accounts'[u] = b /\ \A v \in Users \ {u} : accounts'[v] = accounts[v]
  BY <1>1, <1>2 DEF IInv, Collection
<1>4. ASSUME NEW v \in Users, NEW n \in Nat, Answered(v, n)
      PROVE  Answered(v, n)'
  <2>1. \/ wrong'[v] = wrong[v]
        \/ wrong[v] # LockAfter /\ wrong'[v] = wrong[v] + 1
    BY <1>1, <1>2
  <2>2. wrong[v] \in 0 .. LockAfter
    BY <1>2
  <2> QED
    BY <1>4, <2>1, <2>2 DEF Answered
<1>5. Valid(u)' /\ Grown(u)
  <2>1. /\ accounts[u].version \in Nat /\ b.version \in Nat /\ accounts[u].version + 1 # 0
    BY <1>1, AccountFields
  <2>2. Grown(u)
    BY <1>1, <1>3, <2>1 DEF Grown, Exists
  <2>3. Valid(u)
    BY <1>1 DEF IInv
  <2>4. Valid(u)'
    BY <1>1, <1>3, <2>1, <2>3 DEF Valid, Answered, Exists
  <2> QED
    BY <2>2, <2>4
<1>6. ASSUME NEW v \in Users, v # u
      PROVE  Valid(v)' /\ (Exists(v) => Grown(v))
  <2>1. accounts'[v] = accounts[v] /\ Valid(v) /\ (Exists(v) => accounts[v] \in Account)
    BY <1>3, <1>6 DEF IInv, Collection, Exists
  <2>2. Exists(v) => accounts[v].count \in Nat /\ accounts[v].version \in Nat
    BY <2>1, AccountFields
  <2> QED
    BY <1>4, <2>1, <2>2 DEF Valid, Grown, Exists
<1> QED
  BY <1>1, <1>3, <1>4, <1>5, <1>6 DEF Grows

LEMMA EffectGrows ==
    ASSUME IInv, AccountEffect
    PROVE  Grows
<1>1. ASSUME NEW u, NEW b, Quiet(u, b)
      PROVE  Grows
  <2>1. u \in Users /\ Exists(u) /\ accounts[u] \in Account /\ Valid(u) /\ wrong' = wrong
    BY <1>1 DEF Quiet, Written, IInv, Collection, Exists
  <2>2. PICK n \in {0, accounts[u].count}, c \in Codes \cup {accounts[u].passwordResetToken} :
          Visible(b) = <<accounts[u].password, accounts[u].previous, accounts[u].version,
                         n, accounts[u].locked, c>>
    BY <1>1 DEF Quiet
  <2>3. /\ b.password = accounts[u].password /\ b.previous = accounts[u].previous
        /\ b.version = accounts[u].version /\ b.count = n /\ b.locked = accounts[u].locked
        /\ b.passwordResetToken = c
    BY <2>2 DEF Visible
  <2>4. b.count >= LockAfter => b.locked
    BY <2>1, <2>3 DEF Valid
  <2>5. b.count <= wrong[u] \/ wrong[u] = LockAfter
    <3>1. wrong[u] \in 0 .. LockAfter
      BY <2>1 DEF IInv, Collection
    <3> QED
      BY <2>1, <2>3, <3>1 DEF Valid, Answered
  <2>6. Written(u, b)
    BY <1>1 DEF Quiet
  <2> QED
    BY <2>1, <2>3, <2>4, <2>5, <2>6, WrittenGrows
<1>2. ASSUME NEW s \in Sessions, NEW b, Guessed(s, b)
      PROVE  Grows
  <2> DEFINE u == user[s]
             n == doc[s].count + 1
  <2>1. /\ pc[s] = "check" /\ u \in Users /\ accounts[u] \in Account /\ Valid(u) /\ Exists(u)
        /\ doc[s].count \in Nat /\ Answered(u, doc[s].count) /\ Written(u, b)
        /\ wrong' = [wrong EXCEPT ![u] = IF @ = LockAfter THEN @ ELSE @ + 1]
    <3>1. pc[s] = "check" /\ Written(u, b)
          /\ wrong' = [wrong EXCEPT ![u] = IF @ = LockAfter THEN @ ELSE @ + 1]
      BY <1>2 DEF Guessed
    <3> QED
      BY <3>1, Busy DEF IInv, Knows
  <2>2. /\ b.password = accounts[u].password /\ b.previous = accounts[u].previous
        /\ b.version = accounts[u].version /\ b.count = n
        /\ b.locked = IF n >= LockAfter THEN TRUE ELSE accounts[u].locked
        /\ b.passwordResetToken = accounts[u].passwordResetToken
    BY <1>2 DEF Guessed, Visible
  <2>3. n <= wrong'[u] \/ wrong'[u] = LockAfter
    BY <2>1 DEF Answered, IInv, Collection
  <2>4. b.count >= LockAfter => b.locked
    BY <2>2
  <2> QED
    BY <2>1, <2>2, <2>3, <2>4, WrittenGrows
<1>3. ASSUME NEW s \in Sessions, NEW b, Changed(s, b)
      PROVE  Grows
  <2> DEFINE u == user[s]
             k == Keep(input[s], doc[s].previous)
  <2>1. /\ u \in Users /\ Exists(u) /\ accounts[u] \in Account /\ Valid(u)
        /\ Written(u, b) /\ wrong' = wrong
        /\ input[s] \in Passwords /\ doc[s].previous \in Histories
    <3>1. pc[s] = "reset" /\ Written(u, b) /\ wrong' = wrong
      BY <1>3 DEF Changed
    <3> QED
      BY <3>1, Busy DEF IInv, Knows
  <2>2. PICK n \in {0, accounts[u].count} :
          Visible(b) = <<input[s], k, accounts[u].version + 1, n, accounts[u].locked, None>>
    BY <1>3 DEF Changed
  <2>3. /\ b.password = input[s] /\ b.previous = k /\ b.version = accounts[u].version + 1
        /\ b.count = n /\ b.locked = accounts[u].locked
    BY <2>2 DEF Visible
  <2>4. k # <<>> /\ Head(k) = input[s]
    BY <2>1, KeepHistory
  <2>5. b.count >= LockAfter => b.locked
    BY <2>1, <2>3 DEF Valid
  <2>6. b.count <= wrong[u] \/ wrong[u] = LockAfter
    <3>1. wrong[u] \in 0 .. LockAfter
      BY <2>1 DEF IInv, Collection
    <3> QED
      BY <2>1, <2>3, <3>1 DEF Valid, Answered
  <2> HIDE DEF k
  <2> QED
    BY <2>1, <2>3, <2>4, <2>5, <2>6, WrittenGrows
<1> QED
  BY <1>1, <1>2, <1>3, OpenedGrows, SameGrows DEF AccountEffect

--------------------------------------------------------------------------------
(* What sessions know *)

(* A session that does nothing knows what it knew, whatever others do.      *)
LEMMA StillKnows ==
    ASSUME IInv, Grows, NEW s \in Sessions, pc'[s] = pc[s], user'[s] = user[s],
           doc'[s] = doc[s], input'[s] = input[s]
    PROVE  Knows(s)'
<1>1. Knows(s)
  BY DEF IInv
<1>2. CASE pc[s] = "idle"
  BY <1>1, <1>2 DEF Knows
<1>3. CASE pc[s] # "idle"
  <2> DEFINE u == user[s]
  <2>1. u \in Users /\ u # None /\ Exists(u) /\ accounts[u] \in Account /\ Grown(u)
    BY <1>3, Busy DEF Grows
  <2>2. /\ accounts[u].version \in Nat /\ accounts'[u].version \in Nat
    <3>1. accounts'[u] \in Account
      BY <2>1 DEF Grows, Grown, Exists
    <3> QED
      BY <2>1, <3>1, AccountFields
  <2>3. pc[s] = "check" => Answered(u, doc[s].count)'
    BY <1>1, <2>1 DEF Knows, Grows
  <2>4. pc[s] = "reset" /\ u \in Created => Current(u, doc[s].version, doc[s].previous)'
    <3> SUFFICES ASSUME pc[s] = "reset", u \in Created
                 PROVE  Current(u, doc[s].version, doc[s].previous)'
      OBVIOUS
    <3>1. Current(u, doc[s].version, doc[s].previous) /\ doc[s].version \in Nat
      BY <1>1 DEF Knows
    <3> QED
      BY <2>1, <2>2, <3>1 DEF Current, Grown
  <2>5. Exists(u)'
    BY <2>1 DEF Grown
  <2> QED
    BY <1>1, <1>3, <2>1, <2>3, <2>4, <2>5 DEF Knows, Answered, Current, Exists
<1> QED
  BY <1>2, <1>3

(* One session moves.                                                       *)
Moves(s) ==
    /\ \E l \in Steps : pc' = [pc EXCEPT ![s] = l]
    /\ \E u \in Users \cup {None} : user' = [user EXCEPT ![s] = u]
    /\ \E d : doc' = [doc EXCEPT ![s] = d]
    /\ \E i \in Passwords \cup {None} : input' = [input EXCEPT ![s] = i]

LEMMA OneMoves ==
    ASSUME IInv, Grows, NEW s \in Sessions, Moves(s), Knows(s)', calls' \in 0 .. MaxCalls
    PROVE  IInv'
<1>1. PICK l \in Steps, u \in Users \cup {None}, i \in Passwords \cup {None} :
        pc' = [pc EXCEPT ![s] = l] /\ user' = [user EXCEPT ![s] = u]
          /\ input' = [input EXCEPT ![s] = i]
  BY DEF Moves
<1>2. PICK d : doc' = [doc EXCEPT ![s] = d]
  BY DEF Moves
<1>3. doc = [t \in Sessions |-> doc[t]]
  BY DEF IInv, Collection
<1>4. doc' = [t \in Sessions |-> doc'[t]]
  BY <1>2, <1>3
<1>5. Collection'
  BY <1>1, <1>4 DEF IInv, Collection, Grows
<1>6. ASSUME NEW t \in Sessions, t # s
      PROVE  Knows(t)'
  <2>1. doc'[t] = doc[t]
    BY <1>2, <1>3, <1>6
  <2>2. pc'[t] = pc[t] /\ user'[t] = user[t] /\ input'[t] = input[t]
    BY <1>1, <1>6 DEF IInv, Collection
  <2> QED
    BY <2>1, <2>2, StillKnows
<1> QED
  BY <1>5, <1>6 DEF IInv, Grows

LEMMA NoneMoves ==
    ASSUME IInv, Grows, UNCHANGED session, calls' \in 0 .. MaxCalls
    PROVE  IInv'
<1>1. Collection'
  BY DEF IInv, Collection, Grows, session
<1>2. ASSUME NEW t \in Sessions
      PROVE  Knows(t)'
  BY StillKnows DEF session
<1> QED
  BY <1>1, <1>2 DEF IInv, Grows

LEMMA EndKnows ==
    ASSUME IInv, NEW s \in Sessions, End(s)
    PROVE  Moves(s) /\ Knows(s)'
<1>1. Moves(s)
  BY DEF Moves, End
<1>2. pc'[s] = "idle" /\ user'[s] = None
  BY DEF End, IInv, Collection
<1> QED
  BY <1>1, <1>2 DEF Knows

LEMMA BeginMoves ==
    ASSUME IInv, NEW s \in Sessions, NEW l \in Steps \ {"idle"}, NEW u \in Users, Exists(u),
           NEW d, NEW i \in Passwords \cup {None}, Begin(s, l, u, d, i), UNCHANGED accounts
    PROVE  /\ Moves(s) /\ pc'[s] = l /\ user'[s] = u /\ doc'[s] = d /\ input'[s] = i
           /\ pc'[s] # "idle" /\ user'[s] \in Users /\ user'[s] # None /\ Exists(user[s])'
<1>1. Moves(s)
  <2>1. /\ pc' = [pc EXCEPT ![s] = l] /\ user' = [user EXCEPT ![s] = u]
        /\ doc' = [doc EXCEPT ![s] = d] /\ input' = [input EXCEPT ![s] = i]
    BY DEF Begin
  <2>2. l \in Steps /\ u \in Users \cup {None}
    OBVIOUS
  <2> QED
    BY <2>1, <2>2 DEF Moves
<1>2. doc = [t \in Sessions |-> doc[t]]
  BY DEF IInv, Collection
<1>3. pc'[s] = l /\ user'[s] = u /\ doc'[s] = d /\ input'[s] = i
  BY <1>2 DEF Begin, IInv, Collection
<1> QED
  BY <1>1, <1>3 DEF Exists

LEMMA LoginKnows ==
    ASSUME IInv, NEW s \in Sessions, NEW u \in Users, NEW p \in Passwords, BeginLogin(s, u, p)
    PROVE  Moves(s) /\ Knows(s)'
<1> DEFINE d == Fetched(u, {"password", "count", "locked", "passwordOld"})
<1>1. Exists(u) /\ accounts[u] \in Account /\ UNCHANGED <<accounts, wrong>>
  BY DEF BeginLogin, IInv, Collection, Exists
<1>2. Begin(s, "check", u, d, p)
  BY DEF BeginLogin
<1>3. d.password = accounts[u].password /\ d.count = accounts[u].count
  BY DEF Fetched
<1> HIDE DEF d
<1>4. /\ Moves(s) /\ pc'[s] = "check" /\ user'[s] = u /\ doc'[s] = d /\ input'[s] = p
      /\ user'[s] # None /\ Exists(user[s])'
  BY <1>1, <1>2, BeginMoves
<1>5. d.password \in Passwords /\ d.count \in Nat
  BY <1>1, <1>3, AccountFields
<1>6. Answered(u, accounts[u].count)
  BY <1>1 DEF IInv, Valid
<1> QED
  BY <1>1, <1>3, <1>4, <1>5, <1>6 DEF Knows, Answered

LEMMA BeginResetKnows ==
    ASSUME IInv, NEW s \in Sessions, NEW c \in Codes, NEW p \in Passwords, BeginReset(s, c, p)
    PROVE  Moves(s) /\ Knows(s)' /\ UNCHANGED calls
<1>2. PICK u \in Users :
        /\ Exists(u) /\ accounts[u].passwordResetToken = c
        /\ Begin(s, "reset", u, Fetched(u, {"previous", "count", "version"}), p)
  BY DEF BeginReset
<1>1. PICK d : d = Fetched(u, {"previous", "count", "version"})
  OBVIOUS
<1>3. accounts[u] \in Account /\ UNCHANGED <<accounts, wrong, calls>> /\ c # None
  BY <1>2 DEF BeginReset, IInv, Collection, Exists
<1>4. /\ d.previous = accounts[u].previous /\ d.count = accounts[u].count
      /\ d.version = accounts[u].version
  BY <1>1 DEF Fetched
<1>5. Begin(s, "reset", u, d, p)
  BY <1>1, <1>2
<1>6. /\ Moves(s) /\ pc'[s] = "reset" /\ user'[s] = u /\ doc'[s] = d /\ input'[s] = p
      /\ user'[s] # None /\ Exists(user[s])'
  BY <1>2, <1>3, <1>5, BeginMoves
<1>7. d.previous \in Histories /\ d.count \in Nat /\ d.version \in Nat
  BY <1>3, <1>4, AccountFields
<1>8. u \in Created => Current(u, d.version, d.previous)'
  <2>1. u \in Created => accounts[u].version # NoVersion
    BY <1>2 DEF IInv, Valid
  <2>2. accounts[u].version <= accounts[u].version
    BY <1>4, <1>7
  <2> QED
    BY <1>2, <1>3, <1>4, <2>1, <2>2 DEF Current
<1>9. (pc[s] = "idle" <=> user[s] = None)' /\ pc'[s] # "check"
  BY <1>6
<1> QED
  BY <1>3, <1>6, <1>7, <1>8, <1>9 DEF Knows, Current

LEMMA TokenKnows ==
    ASSUME IInv, Grows, NEW s \in Sessions, CheckPassword(s)
    PROVE  Moves(s) /\ Knows(s)'
<1>1. CASE End(s)
  BY <1>1, EndKnows
<1>2. CASE ~End(s)
  <2>1. /\ pc' = [pc EXCEPT ![s] = "token"] /\ user' = user
        /\ doc' = [doc EXCEPT ![s] = <<>>] /\ input' = [input EXCEPT ![s] = None]
    BY <1>2 DEF CheckPassword
  <2>2. user[s] \in Users /\ user[s] # None /\ Exists(user[s])'
    <3>1. pc[s] # "idle"
      BY DEF CheckPassword
    <3>2. user[s] \in Users /\ Exists(user[s])
      BY <3>1, Busy
    <3>3. Grown(user[s])
      BY <3>2 DEF Grows
    <3> QED
      BY <2>1, <3>2, <3>3 DEF Grown, Exists
  <2>3. user' = [user EXCEPT ![s] = user[s]]
    BY <2>1 DEF IInv, Collection
  <2>4. Moves(s)
    <3>1. "token" \in Steps /\ user[s] \in Users \cup {None} /\ None \in Passwords \cup {None}
      BY <2>2
    <3> QED
      BY <2>1, <2>3, <3>1 DEF Moves
  <2>5. pc'[s] = "token" /\ user'[s] = user[s]
    BY <2>1 DEF IInv, Collection
  <2> QED
    BY <2>1, <2>2, <2>4, <2>5 DEF Knows, Exists
<1> QED
  BY <1>1, <1>2

--------------------------------------------------------------------------------
(* The invariant *)

LEMMA InitIInv == Init => IInv
<1> SUFFICES ASSUME Init
             PROVE  IInv
  OBVIOUS
<1>1. SeededAccount(FirstPassword) \in Account
  <2>1. <<>> \in Histories
    <3>1. <<>> \in Seq(Passwords) /\ Len(<<>>) = 0 /\ 0 <= KeptPasswords
      OBVIOUS
    <3> QED
      BY <3>1, SeqHistory
  <2> QED
    BY <2>1 DEF SeededAccount, NewAccount, Account, Histories
<1>2. Collection
  BY <1>1 DEF Collection, Init
<1>3. \A s \in Sessions : Knows(s)
  BY DEF Knows, Init
<1>4. ASSUME NEW u \in Users
      PROVE  Valid(u)
  <2>1. CASE u \in Seeded
    <3>1. accounts[u] = SeededAccount(FirstPassword) /\ wrong[u] = 0
      BY <2>1 DEF Init
    <3> QED
      BY <2>1, <3>1 DEF Valid, Answered, SeededAccount, NewAccount, Created
  <2>2. CASE u \notin Seeded
    BY <2>2 DEF Init, Valid, Exists
  <2> QED
    BY <2>1, <2>2
<1> QED
  BY <1>2, <1>3, <1>4 DEF IInv

LEMMA NextIInv ==
    ASSUME IInv, Next
    PROVE  IInv'
<1>1. Grows
  BY NextEffect, EffectGrows
<1>2. calls \in 0 .. MaxCalls
  BY DEF IInv, Collection
<1>3. ASSUME NEW u \in Users, NEW p \in Passwords, Create(u, p)
      PROVE  IInv'
  BY <1>1, <1>2, <1>3, NoneMoves DEF Create
<1>4. ASSUME NEW u \in Users, NEW c \in Codes, NEW purpose \in Purposes,
             GenerateCode(u, c, purpose)
      PROVE  IInv'
  <2>1. calls' \in 0 .. MaxCalls
    BY <1>2, <1>4 DEF GenerateCode, Call
  <2> QED
    BY <1>1, <1>4, <2>1, NoneMoves DEF GenerateCode
<1>5. ASSUME NEW u \in Users, Age(u)
      PROVE  IInv'
  <2>1. calls' \in 0 .. MaxCalls
    BY <1>2, <1>5 DEF Age, Call
  <2> QED
    BY <1>1, <1>5, <2>1, NoneMoves DEF Age
<1>6. ASSUME NEW s \in Sessions, NEW u \in Users, NEW p \in Passwords, BeginLogin(s, u, p)
      PROVE  IInv'
  <2>1. calls' = calls
    BY <1>6 DEF BeginLogin
  <2> QED
    BY <1>1, <1>2, <1>6, <2>1, LoginKnows, OneMoves
<1>7. ASSUME NEW s \in Sessions, NEW u \in Users, BeginRefresh(s, u)
      PROVE  IInv'
  <2>1. calls' = calls /\ accounts' = accounts /\ Exists(u)
        /\ Begin(s, "spend", u, Fetched(u, {}), None)
    BY <1>7 DEF BeginRefresh
  <2>2. /\ Moves(s) /\ pc'[s] = "spend"
        /\ user'[s] \in Users /\ user'[s] # None /\ Exists(user[s])'
    BY <2>1, BeginMoves
  <2>3. Knows(s)'
    BY <2>2 DEF Knows
  <2> QED
    BY <1>1, <1>2, <2>1, <2>2, <2>3, OneMoves
<1>8. ASSUME NEW s \in Sessions, NEW c \in Codes, BeginVerify(s, c)
      PROVE  IInv'
  <2>1. PICK u \in Users : Exists(u) /\ Begin(s, "verify", u, Fetched(u, {}), None)
    BY <1>8 DEF BeginVerify
  <2>2. calls' = calls /\ accounts' = accounts
    BY <1>8 DEF BeginVerify
  <2>3. /\ Moves(s) /\ pc'[s] = "verify"
        /\ user'[s] \in Users /\ user'[s] # None /\ Exists(user[s])'
    BY <2>1, <2>2, BeginMoves
  <2>4. Knows(s)'
    BY <2>3 DEF Knows
  <2> QED
    BY <1>1, <1>2, <2>2, <2>3, <2>4, OneMoves
<1>9. ASSUME NEW s \in Sessions, NEW c \in Codes, NEW p \in Passwords, BeginReset(s, c, p)
      PROVE  IInv'
  BY <1>1, <1>2, <1>9, BeginResetKnows, OneMoves
<1>10. ASSUME NEW s \in Sessions, CheckPassword(s)
       PROVE  IInv'
  <2>1. calls' = calls
    BY <1>10 DEF CheckPassword
  <2> QED
    BY <1>1, <1>2, <1>10, <2>1, TokenKnows, OneMoves
<1>11. ASSUME NEW s \in Sessions,
              IssueToken(s) \/ Spend(s) \/ SaveReset(s) \/ SaveVerify(s) \/ Fail(s)
       PROVE  IInv'
  <2>1. End(s) /\ calls' = calls
    BY <1>11 DEF IssueToken, Spend, SaveReset, SaveVerify, Fail
  <2> QED
    BY <1>1, <1>2, <2>1, EndKnows, OneMoves
<1> QED
  BY <1>3, <1>4, <1>5, <1>6, <1>7, <1>8, <1>9, <1>10, <1>11 DEF Next, OtherStep

LEMMA StutterIInv ==
    ASSUME IInv, UNCHANGED vars
    PROVE  IInv'
<1>1. UNCHANGED <<accounts, wrong>> /\ UNCHANGED session /\ calls' \in 0 .. MaxCalls
  BY DEF vars, IInv, Collection
<1> QED
  BY <1>1, SameGrows, NoneMoves

LEMMA AlwaysIInv == Spec => []IInv
<1>1. IInv /\ [Next]_vars => IInv'
  BY NextIInv, StutterIInv
<1> QED
  BY <1>1, InitIInv, PTL DEF Spec

--------------------------------------------------------------------------------
(* Theorems *)

(* The types of UserAccount, and with them that an account at the limit of  *)
(* wrong passwords is locked and that a password is the newest of its       *)
(* history, hold for any sessions and passwords (user.model.ts).            *)
THEOREM TypesHold == Spec => []TypeOK
<1>1. ASSUME IInv
      PROVE  TypeOK
  <2>1. \A u \in Users : Exists(u) => accounts[u] \in Account
    BY <1>1 DEF IInv, Collection, Exists
  <2>2. \A s \in Sessions : pc[s] = "idle" <=> user[s] = None
    BY <1>1 DEF IInv, Knows
  <2> QED
    BY <1>1, <2>1, <2>2 DEF TypeOK, IInv, Collection, Valid
<1> QED
  BY <1>1, AlwaysIInv, PTL

--------------------------------------------------------------------------------
(* The ledger *)

Locked(u) == Exists(u) /\ accounts[u].locked

HasCode(u) == Exists(u) /\ accounts[u].passwordResetToken # None

Kept(u) == IF Exists(u) THEN accounts[u].previous ELSE <<>>

(* What the ledger sees of an account, before and after a step.             *)
SameWrong(u)  == wrong'[u] = wrong[u]
SameLocked(u) == Locked(u)' <=> Locked(u)
SameCode(u)   == HasCode(u)' <=> HasCode(u)
SameKept(u)   == Kept(u)' = Kept(u)

Same(u) == SameWrong(u) /\ SameLocked(u) /\ SameCode(u) /\ SameKept(u)

(* A variable of the ledger stays if it does for every account.             *)
LEMMA SameParts ==
    /\ (\A u \in Created : SameWrong(u)) =>
         [u \in Created |-> wrong[u]]' = [u \in Created |-> wrong[u]]
    /\ (\A u \in Created : SameLocked(u)) =>
         {u \in Created : Exists(u) /\ accounts[u].locked}'
           = {u \in Created : Exists(u) /\ accounts[u].locked}
    /\ (\A u \in Created : SameCode(u)) =>
         [u \in Created |-> Exists(u) /\ accounts[u].passwordResetToken # None]'
           = [u \in Created |-> Exists(u) /\ accounts[u].passwordResetToken # None]
    /\ (\A u \in Created : SameKept(u)) =>
         [u \in Created |-> IF Exists(u) THEN accounts[u].previous ELSE <<>>]'
           = [u \in Created |-> IF Exists(u) THEN accounts[u].previous ELSE <<>>]
<1>1. (\A u \in Created : SameWrong(u)) =>
        [u \in Created |-> wrong[u]]' = [u \in Created |-> wrong[u]]
  BY DEF SameWrong
<1>2. (\A u \in Created : SameLocked(u)) =>
        {u \in Created : Exists(u) /\ accounts[u].locked}'
          = {u \in Created : Exists(u) /\ accounts[u].locked}
  BY DEF SameLocked, Locked
<1>3. (\A u \in Created : SameCode(u)) =>
        [u \in Created |-> Exists(u) /\ accounts[u].passwordResetToken # None]'
          = [u \in Created |-> Exists(u) /\ accounts[u].passwordResetToken # None]
  BY DEF SameCode, HasCode
<1>4. (\A u \in Created : SameKept(u)) =>
        [u \in Created |-> IF Exists(u) THEN accounts[u].previous ELSE <<>>]'
          = [u \in Created |-> IF Exists(u) THEN accounts[u].previous ELSE <<>>]
  BY DEF SameKept, Kept
<1> QED
  BY <1>1, <1>2, <1>3, <1>4

LEMMA Stutters ==
    ASSUME \A u \in Created : Same(u)
    PROVE  UNCHANGED Ledger!ledger
  BY SameParts DEF Same, Ledger!ledger

(* What happens to one account alone is a step of the ledger.               *)
LEMMA OpensOne ==
    ASSUME NEW a \in Created, \A u \in Created \ {a} : Same(u),
           SameWrong(a), SameLocked(a), SameCode(a),
           Kept(a) = <<>>, NEW p \in Passwords, Kept(a)' = <<p>>
    PROVE  Ledger!Open(a)
<1>1. [u \in Created |-> IF Exists(u) THEN accounts[u].previous ELSE <<>>]'
        = [[u \in Created |-> IF Exists(u) THEN accounts[u].previous ELSE <<>>]
             EXCEPT ![a] = <<p>>]
  BY DEF Same, SameKept, Kept
<1>2. [u \in Created |-> IF Exists(u) THEN accounts[u].previous ELSE <<>>][a] = <<>>
  BY DEF Kept
<1> QED
  BY <1>1, <1>2, SameParts DEF Same, Ledger!Open

LEMMA GuessesOne ==
    ASSUME NEW a \in Created, \A u \in Created \ {a} : Same(u),
           SameCode(a), SameKept(a),
           wrong[a] \in 0 .. LockAfter,
           wrong'[a] = IF wrong[a] = LockAfter THEN wrong[a] ELSE wrong[a] + 1,
           SameLocked(a) \/ (wrong'[a] >= LockAfter /\ Locked(a)')
    PROVE  Ledger!Guess(a)
<1>1. [u \in Created |-> wrong[u]]'
        = [[u \in Created |-> wrong[u]] EXCEPT ![a] = IF @ < LockAfter THEN @ + 1 ELSE @]
  <2>1. wrong'[a] = IF wrong[a] < LockAfter THEN wrong[a] + 1 ELSE wrong[a]
    OBVIOUS
  <2> QED
    BY <2>1 DEF Same, SameWrong
<1>2. \/ {u \in Created : Exists(u) /\ accounts[u].locked}'
           = {u \in Created : Exists(u) /\ accounts[u].locked}
      \/ /\ [u \in Created |-> wrong[u]]'[a] >= LockAfter
         /\ {u \in Created : Exists(u) /\ accounts[u].locked}'
              = {u \in Created : Exists(u) /\ accounts[u].locked} \cup {a}
  BY DEF Same, SameLocked, Locked
<1> QED
  BY <1>1, <1>2, SameParts DEF Same, Ledger!Guess

LEMMA GeneratesOne ==
    ASSUME NEW a \in Created, \A u \in Created \ {a} : Same(u),
           SameWrong(a), SameLocked(a), SameKept(a), HasCode(a)'
    PROVE  Ledger!Generate(a)
<1>1. [u \in Created |-> Exists(u) /\ accounts[u].passwordResetToken # None]'
        = [[u \in Created |-> Exists(u) /\ accounts[u].passwordResetToken # None]
             EXCEPT ![a] = TRUE]
  BY DEF Same, SameCode, HasCode
<1> QED
  BY <1>1, SameParts DEF Same, Ledger!Generate

LEMMA ChangesOne ==
    ASSUME NEW a \in Created, \A u \in Created \ {a} : Same(u),
           SameWrong(a), SameLocked(a), HasCode(a), ~HasCode(a)',
           NEW p \in Passwords, \A i \in DOMAIN Kept(a) : Kept(a)[i] # p,
           LET k == <<p>> \o Kept(a) IN
             Kept(a)' = SubSeq(k, 1, IF Len(k) < KeptPasswords THEN Len(k) ELSE KeptPasswords)
    PROVE  Ledger!Change(a)
<1>1. /\ [u \in Created |-> Exists(u) /\ accounts[u].passwordResetToken # None][a]
      /\ [u \in Created |-> Exists(u) /\ accounts[u].passwordResetToken # None]'
           = [[u \in Created |-> Exists(u) /\ accounts[u].passwordResetToken # None]
                EXCEPT ![a] = FALSE]
  BY DEF Same, SameCode, HasCode
<1> DEFINE kept == [u \in Created |-> IF Exists(u) THEN accounts[u].previous ELSE <<>>]
           k == <<p>> \o kept[a]
<1>2. kept[a] = Kept(a)
  BY DEF Kept
<1>3. kept' = [kept EXCEPT ![a] = Kept(a)']
  BY DEF Same, SameKept, Kept
<1>4. /\ \A i \in DOMAIN kept[a] : kept[a][i] # p
      /\ kept' = [kept EXCEPT ![a] =
                    SubSeq(k, 1, IF Len(k) < KeptPasswords THEN Len(k) ELSE KeptPasswords)]
  BY <1>2, <1>3
<1> QED
  BY <1>1, <1>4, SameParts DEF Same, Ledger!Change

(* A step that writes one account changes nothing of the others.            *)
LEMMA OthersStay ==
    ASSUME IInv, NEW u \in Users, NEW b, accounts' = [accounts EXCEPT ![u] = b],
           wrong' = wrong \/ wrong' = [wrong EXCEPT ![u] = IF @ = LockAfter THEN @ ELSE @ + 1]
    PROVE  (\A v \in Created \ {u} : Same(v)) /\ accounts'[u] = b
<1>1. \A v \in Users \ {u} : accounts'[v] = accounts[v] /\ wrong'[v] = wrong[v]
  BY DEF IInv, Collection
<1>2. \A v \in Created \ {u} : Same(v)
  BY <1>1 DEF Same, SameWrong, SameLocked, SameCode, SameKept, Locked, HasCode, Kept, Exists,
              Created
<1> QED
  BY <1>2 DEF IInv, Collection

LEMMA StepRefines ==
    ASSUME NEW a \in Created,
           Ledger!Open(a) \/ Ledger!Guess(a) \/ Ledger!Generate(a) \/ Ledger!Change(a)
    PROVE  [Ledger!Next]_(Ledger!ledger)
  BY DEF Ledger!Next

(* Seeded accounts are none of the ledger's.                                *)
LEMMA SeededRefines ==
    ASSUME IInv, NEW u \in Users \ Created, NEW b, accounts' = [accounts EXCEPT ![u] = b],
           wrong' = wrong \/ wrong' = [wrong EXCEPT ![u] = IF @ = LockAfter THEN @ ELSE @ + 1]
    PROVE  [Ledger!Next]_(Ledger!ledger)
<1>1. \A v \in Created : Same(v)
  BY OthersStay
<1> QED
  BY <1>1, Stutters

LEMMA OpenedRefines ==
    ASSUME IInv, NEW u, NEW p, Opened(u, p)
    PROVE  [Ledger!Next]_(Ledger!ledger)
<1>1. /\ u \in Users /\ p \in Passwords /\ accounts[u] = None
      /\ accounts' = [accounts EXCEPT ![u] = NewAccount(p)] /\ wrong' = wrong
  BY DEF Opened, Exists
<1>2. CASE u \in Created
  <2>1. (\A v \in Created \ {u} : Same(v)) /\ accounts'[u] = NewAccount(p)
    BY <1>1, OthersStay
  <2>2. accounts'[u] # None
    BY <1>1, <2>1, NewAccounts
  <2>3. SameWrong(u) /\ SameLocked(u) /\ SameCode(u) /\ Kept(u) = <<>> /\ Kept(u)' = <<p>>
    BY <1>1, <2>1, <2>2
    DEF SameWrong, SameLocked, SameCode, Locked, HasCode, Kept, Exists, NewAccount
  <2>4. Ledger!Open(u)
    BY <1>1, <1>2, <2>1, <2>3, OpensOne
  <2> QED
    BY <1>2, <2>4, StepRefines
<1>3. CASE u \notin Created
  BY <1>1, <1>3, SeededRefines
<1> QED
  BY <1>2, <1>3

LEMMA QuietRefines ==
    ASSUME IInv, NEW u, NEW b, Quiet(u, b)
    PROVE  [Ledger!Next]_(Ledger!ledger)
<1>1. /\ u \in Users /\ accounts[u] # None /\ b \in Account /\ b # None
      /\ accounts' = [accounts EXCEPT ![u] = b] /\ wrong' = wrong
  BY DEF Quiet, Written, Exists
<1>2. CASE u \in Created
  <2>1. (\A v \in Created \ {u} : Same(v)) /\ accounts'[u] = b
    BY <1>1, OthersStay
  <2>2. PICK n \in {0, accounts[u].count}, c \in Codes \cup {accounts[u].passwordResetToken} :
          Visible(b) = <<accounts[u].password, accounts[u].previous, accounts[u].version,
                         n, accounts[u].locked, c>>
    BY DEF Quiet
  <2>3. /\ b.previous = accounts[u].previous /\ b.locked = accounts[u].locked
        /\ b.passwordResetToken = c
    BY <2>2 DEF Visible
  <2>4. SameWrong(u) /\ SameLocked(u) /\ SameKept(u)
    BY <1>1, <2>1, <2>3 DEF SameWrong, SameLocked, SameKept, Locked, Kept, Exists
  <2>5. CASE c = accounts[u].passwordResetToken
    <3>1. SameCode(u)
      BY <1>1, <2>1, <2>3, <2>5 DEF SameCode, HasCode, Exists
    <3>2. \A v \in Created : Same(v)
      BY <2>1, <2>4, <3>1 DEF Same
    <3> QED
      BY <3>2, Stutters
  <2>6. CASE c \in Codes
    <3>1. HasCode(u)'
      BY <1>1, <2>1, <2>3, <2>6 DEF HasCode, Exists
    <3>2. Ledger!Generate(u)
      BY <1>2, <2>1, <2>4, <3>1, GeneratesOne
    <3> QED
      BY <1>2, <3>2, StepRefines
  <2> QED
    BY <2>5, <2>6
<1>3. CASE u \notin Created
  BY <1>1, <1>3, SeededRefines
<1> QED
  BY <1>2, <1>3

LEMMA GuessedRefines ==
    ASSUME IInv, NEW s \in Sessions, NEW b, Guessed(s, b)
    PROVE  [Ledger!Next]_(Ledger!ledger)
<1> PICK u : u = user[s]
  OBVIOUS
<1> DEFINE n == doc[s].count + 1
<1>1. /\ u \in Users /\ accounts[u] # None /\ b # None
      /\ accounts' = [accounts EXCEPT ![u] = b]
      /\ wrong' = [wrong EXCEPT ![u] = IF @ = LockAfter THEN @ ELSE @ + 1]
  BY DEF Guessed, Written, Exists
<1>2. CASE u \in Created
  <2>1. (\A v \in Created \ {u} : Same(v)) /\ accounts'[u] = b
    BY <1>1, OthersStay
  <2>2. /\ b.previous = accounts[u].previous
        /\ b.locked = IF n >= LockAfter THEN TRUE ELSE accounts[u].locked
        /\ b.passwordResetToken = accounts[u].passwordResetToken
    BY DEF Guessed, Visible
  <2>3. SameCode(u) /\ SameKept(u)
    BY <1>1, <2>1, <2>2 DEF SameCode, SameKept, HasCode, Kept, Exists
  <2>4. /\ wrong[u] \in 0 .. LockAfter
        /\ wrong'[u] = IF wrong[u] = LockAfter THEN wrong[u] ELSE wrong[u] + 1
    BY <1>1 DEF IInv, Collection
  <2>5. CASE ~(n >= LockAfter)
    <3>1. b.locked = accounts[u].locked
      BY <2>2, <2>5
    <3> QED
      <4>1. SameLocked(u)
        BY <1>1, <2>1, <3>1 DEF SameLocked, Locked, Exists
      <4>2. Ledger!Guess(u)
        BY <1>2, <2>1, <2>3, <2>4, <4>1, GuessesOne
      <4> QED
        BY <1>2, <4>2, StepRefines
  <2>6. CASE n >= LockAfter
    <3>1. Locked(u)'
      BY <1>1, <2>1, <2>2, <2>6 DEF Locked, Exists
    <3>2. doc[s].count \in Nat /\ (doc[s].count <= wrong[u] \/ wrong[u] = LockAfter)
      BY DEF Guessed, IInv, Knows, Answered
    <3>3. wrong'[u] >= LockAfter
      BY <2>4, <2>6, <3>2
    <3>4. Ledger!Guess(u)
      BY <1>2, <2>1, <2>3, <2>4, <3>1, <3>3, GuessesOne
    <3> QED
      BY <1>2, <3>4, StepRefines
  <2> QED
    BY <2>5, <2>6
<1>3. CASE u \notin Created
  BY <1>1, <1>3, SeededRefines
<1> QED
  BY <1>2, <1>3

(* The save compares versions, so the history it extends is the one that    *)
(* the account has, and the code it spends is still out.                    *)
LEMMA ChangedRefines ==
    ASSUME IInv, NEW s \in Sessions, NEW b, Changed(s, b)
    PROVE  [Ledger!Next]_(Ledger!ledger)
<1> PICK u : u = user[s]
  OBVIOUS
<1>1. /\ u \in Users /\ accounts[u] # None /\ b # None
      /\ accounts' = [accounts EXCEPT ![u] = b] /\ wrong' = wrong
  BY DEF Changed, Written, Exists
<1>2. CASE u \in Created
  <2>1. (\A v \in Created \ {u} : Same(v)) /\ accounts'[u] = b
    BY <1>1, OthersStay
  <2>2. /\ b.previous = Keep(input[s], doc[s].previous) /\ b.locked = accounts[u].locked
        /\ b.passwordResetToken = None
    BY DEF Changed, Visible
  <2>3. /\ doc[s].previous \in Histories /\ input[s] \in Passwords
        /\ Current(u, doc[s].version, doc[s].previous)
    BY <1>2 DEF Changed, IInv, Knows
  <2>4. doc[s].previous = accounts[u].previous /\ accounts[u].passwordResetToken # None
    BY <2>3 DEF Changed, SameVersion, Current
  <2>5. SameWrong(u) /\ SameLocked(u) /\ HasCode(u) /\ ~HasCode(u)'
    BY <1>1, <2>1, <2>2, <2>4 DEF SameWrong, SameLocked, Locked, HasCode, Exists
  <2>6. Kept(u) = doc[s].previous /\ Kept(u)' = Keep(input[s], doc[s].previous)
    BY <1>1, <2>1, <2>2, <2>4 DEF Kept, Exists
  <2>7. \A i \in DOMAIN Kept(u) : Kept(u)[i] # input[s]
    BY <2>6 DEF Changed, Allowed
  <2>8. LET k == <<input[s]>> \o Kept(u) IN
          Kept(u)' = SubSeq(k, 1, IF Len(k) < KeptPasswords THEN Len(k) ELSE KeptPasswords)
    BY <2>3, <2>6, KeepHistory
  <2>9. Ledger!Change(u)
    BY <1>2, <2>1, <2>3, <2>5, <2>7, <2>8, ChangesOne
  <2> QED
    BY <1>2, <2>9, StepRefines
<1>3. CASE u \notin Created
  BY <1>1, <1>3, SeededRefines
<1> QED
  BY <1>2, <1>3

LEMMA InitRefines == Init => Ledger!Init
<1> SUFFICES ASSUME Init
             PROVE  Ledger!Init
  OBVIOUS
<1>1. \A u \in Created : accounts[u] = None /\ wrong[u] = 0
  BY DEF Init, Created
<1> QED
  BY <1>1 DEF Ledger!Init, Exists

(* The accounts users create implement AccountLedger, whatever overlaps:    *)
(* nothing undoes a lock, it takes LockAfter wrong passwords, a reset code  *)
(* changes one password, and no change forgets a password that must not     *)
(* come back (checkPassword, applyPasswordResetWithToken and the version    *)
(* key of mongoose), for any number of sessions, passwords and codes.       *)
THEOREM LedgerIsKept == Spec => ImplementsLedger
<1>1. IInv /\ [Next]_vars => [Ledger!Next]_(Ledger!ledger)
  <2> SUFFICES ASSUME IInv, [Next]_vars
               PROVE  [Ledger!Next]_(Ledger!ledger)
    OBVIOUS
  <2>1. AccountEffect
    BY NextEffect DEF vars, AccountEffect
  <2>2. CASE UNCHANGED <<accounts, wrong>>
    <3>1. \A u \in Created : Same(u)
      BY <2>2 DEF Same, SameWrong, SameLocked, SameCode, SameKept, Locked, HasCode, Kept, Exists
    <3> QED
      BY <3>1, Stutters
  <2> QED
    BY <2>1, <2>2, OpenedRefines, QuietRefines, GuessedRefines, ChangedRefines DEF AccountEffect
<1> QED
  BY <1>1, InitRefines, AlwaysIInv, PTL DEF Spec, ImplementsLedger, Ledger!Spec
================================================================================

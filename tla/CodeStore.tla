------------------------------- MODULE CodeStore -------------------------------
(***************************************************************************)
(* The MongoDB collections that code generation writes: the coupons, whose *)
(* codes are unique, and totalCodes of the coupon books.  A transaction    *)
(* inserts codes, counts them in the book, and commits.  An insertion      *)
(* fails on a code that exists or that another transaction is inserting;   *)
(* the count fails on a book that changed since the snapshot of the        *)
(* transaction or that another one is counting in.                         *)
(***************************************************************************)
EXTENDS Integers, FiniteSets

CONSTANTS
    Codes,          \* the codes that patterns and uploads can name
    Books,          \* the ids of coupon books
    InitialBooks,   \* the coupon books that exist at the start
    NoBook,         \* an id no book has
    Requests,       \* the requests of the API, and the sessions they open
    Handlers        \* the deliveries a worker handles, and their sessions

Sessions == Requests \cup Handlers

ASSUME CodeStoreAssumption ==
    /\ NoBook \notin Books /\ InitialBooks \subseteq Books
    /\ Requests \cap Handlers = {}
    /\ IsFiniteSet(Codes)

VARIABLES
    couponBooks,    \* the coupon books that exist
    bookOf,         \* couponBookId of each coupon, NoBook if there is none
    totalCodes,     \* totalCodes of each book, in units (see CodeSupply)
    inserts,        \* inserts[s]: the codes s inserted and did not commit
    counted,        \* counted[s]: the book s counted in and did not commit
    reading,        \* the sessions whose transaction has its snapshot
    changed         \* changed[s]: the books changed since that snapshot

store == <<couponBooks, bookOf, totalCodes>>
txn   == <<inserts, counted, reading, changed>>

StoreTypeOK ==
    /\ couponBooks \subseteq Books
    /\ bookOf \in [Codes -> Books \cup {NoBook}]
    /\ totalCodes \in [Books -> Nat]
    /\ inserts \in [Sessions -> SUBSET Codes]
    /\ counted \in [Sessions -> Books \cup {NoBook}]
    /\ reading \subseteq Sessions
    /\ changed \in [Sessions -> SUBSET Books]

StoreInit ==
    /\ couponBooks = InitialBooks
    /\ bookOf = [c \in Codes |-> NoBook]
    /\ totalCodes = [b \in Books |-> 0]
    /\ inserts = [s \in Sessions |-> {}]
    /\ counted = [s \in Sessions |-> NoBook]
    /\ reading = {}
    /\ changed = [s \in Sessions |-> {}]

CodesOf(b) == {c \in Codes : bookOf[c] = b}

(* Mutant: the index on code is not unique.                                 *)
FreshNotUnique == Codes

(* The codes an insertion may use.                                          *)
Fresh == {c \in Codes : bookOf[c] = NoBook /\ \A s \in Sessions : c \notin inserts[s]}

InsertMany(s, cs) == inserts' = [inserts EXCEPT ![s] = @ \cup cs]

CountConflict(s, b) == b \in changed[s] \/ \E t \in Sessions \ {s} : counted[t] = b

EndTransaction(s, newChanged) ==
    /\ inserts' = [inserts EXCEPT ![s] = {}]
    /\ counted' = [counted EXCEPT ![s] = NoBook]
    /\ reading' = reading \ {s}
    /\ changed' = [newChanged EXCEPT ![s] = {}]

Abort(s) == EndTransaction(s, changed) /\ UNCHANGED store

(* The codes of s and their count, n, appear together.                      *)
Commit(s, b, n) ==
    /\ UNCHANGED couponBooks
    /\ bookOf' = [c \in Codes |-> IF c \in inserts[s] THEN b ELSE bookOf[c]]
    /\ totalCodes' = [totalCodes EXCEPT ![b] = @ + n]
    /\ EndTransaction(s, [t \in Sessions |->
                            IF t \in reading THEN changed[t] \cup {b} ELSE {}])
================================================================================

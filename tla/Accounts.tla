------------------------------ MODULE Accounts ------------------------------
(***************************************************************************)
(* The accounts of persons: the first log-in by an examination's code or   *)
(* by Google, registration, the code that resets a password, and the       *)
(* confirmation of an address.                                             *)
(*                                                                         *)
(* Every handler looks the address up and writes later.  A new row is      *)
(* refused by the unique index on the address when another handler was     *)
(* faster.  An existing row is saved whole, with every column as it was    *)
(* read.                                                                   *)
(***************************************************************************)
CONSTANTS
  Addresses,    \* e-mail addresses
  Handlers,     \* requests under way at a time
  Passwords,
  Codes,        \* one-time codes that are ever drawn
  None

ASSUME AccountsAssumption == None \notin Codes

VARIABLES
  users,        \* addresses with a row
  password,     \* columns of the rows
  forget,       \*   the code that resets the password
  confirmed,    \*   emailVerified
  handler,      \* what each request does, for which address, and how far it is
  copy,         \* the row it read and will save
  drawn,        \* history: codes drawn
  given,        \* history: the password last given to each address
  spent,        \* history: codes that reset a password
  behind,       \* history: requests that will save a row others have saved since
  overlapped    \* history: addresses where one did

columns == <<password, forget, confirmed>>
requests == <<handler, copy>>
accountHistory == <<drawn, given, spent, behind, overlapped>>
accountVars == <<users, columns, requests, accountHistory>>

Entering == {"force", "google", "register"}
Changing == {"otp", "reset", "verify"}
NoRow == [password |-> None, forget |-> None, confirmed |-> FALSE]
Idle == [kind |-> "none", step |-> "done"]

AccountsInit ==
  /\ users = {}
  /\ password = [a \in Addresses |-> None]
  /\ forget = [a \in Addresses |-> None]
  /\ confirmed = [a \in Addresses |-> FALSE]
  /\ handler = [h \in Handlers |-> Idle]
  /\ copy = [h \in Handlers |-> NoRow]
  /\ given = [a \in Addresses |-> None]
  /\ drawn = {} /\ spent = {} /\ behind = {} /\ overlapped = {}

-----------------------------------------------------------------------------
Of(h) == handler[h].address
Is(h, kind) == handler[h].kind = kind
In(h, step) == handler[h].step = step
GoesTo(h, step) == handler' = [handler EXCEPT ![h].step = step]
Stored(a) == [password |-> password[a], forget |-> forget[a], confirmed |-> confirmed[a]]

Arrives(h, kind, a, p, c) ==
  /\ handler[h].step \in {"done", "failed"}
  /\ handler' = [handler EXCEPT ![h] =
       [kind |-> kind, address |-> a, password |-> p, code |-> c, step |-> "look"]]

Enter(h, kind, a, p) ==
  /\ kind = "register" \/ p = None
  /\ Arrives(h, kind, a, p, None)
  /\ UNCHANGED <<users, columns, copy, accountHistory>>

Reset(h, a, p, c) ==
  /\ Arrives(h, "reset", a, p, c)
  /\ UNCHANGED <<users, columns, copy, accountHistory>>

Verify(h, a) ==
  /\ Arrives(h, "verify", a, None, None)
  /\ UNCHANGED <<users, columns, copy, accountHistory>>

SendOtp(h, a, c) ==
  /\ c \notin drawn
  /\ drawn' = drawn \cup {c}
  /\ Arrives(h, "otp", a, None, c)
  /\ UNCHANGED <<users, columns, copy, given, spent, behind, overlapped>>

-----------------------------------------------------------------------------
(* A first log-in or a registration *)

\* To register is refused when there is a row, to log in by Google when its
\* address is not confirmed.
Lookup(h) ==
  /\ In(h, "look") /\ handler[h].kind \in Entering
  /\ GoesTo(h, IF Of(h) \notin users THEN "insert"
             ELSE IF Is(h, "register") \/ (Is(h, "google") /\ ~confirmed[Of(h)])
             THEN "failed" ELSE "done")
  /\ UNCHANGED <<users, columns, copy, accountHistory>>

\* A registered address has to be confirmed.
AddUser(h) ==
  /\ In(h, "insert") /\ Of(h) \notin users
  /\ users' = users \cup {Of(h)}
  /\ password' = [password EXCEPT ![Of(h)] = handler[h].password]
  /\ confirmed' = [confirmed EXCEPT ![Of(h)] = ~Is(h, "register")]
  /\ given' = [given EXCEPT ![Of(h)] = handler[h].password]
  /\ GoesTo(h, "done")
  /\ UNCHANGED <<forget, copy, drawn, spent, behind, overlapped>>

\* A slip: the error of the unique index reaches the participant.
DuplicateFails(h) ==
  /\ In(h, "insert") /\ Of(h) \in users
  /\ GoesTo(h, "failed")
  /\ UNCHANGED <<users, columns, copy, accountHistory>>

\* The index refuses the second row: only forceLogin looks for the first.
Duplicate(h) ==
  /\ In(h, "insert") /\ Of(h) \in users
  /\ GoesTo(h, IF Is(h, "force") THEN "refetch" ELSE "failed")
  /\ UNCHANGED <<users, columns, copy, accountHistory>>

Refetch(h) ==
  /\ In(h, "refetch")
  /\ GoesTo(h, IF Of(h) \in users THEN "done" ELSE "failed")
  /\ UNCHANGED <<users, columns, copy, accountHistory>>

-----------------------------------------------------------------------------
(* Changes of a row: it is read, and saved whole later *)

\* The code is compared with the row's; the password is hashed meanwhile.
CheckCode(h) ==
  /\ In(h, "look") /\ Is(h, "reset")
  /\ GoesTo(h, IF Of(h) \in users /\ forget[Of(h)] = handler[h].code
             THEN "password" ELSE "failed")
  /\ UNCHANGED <<users, columns, copy, accountHistory>>

\* updateByEmail and verify; what to write is the step that follows.
Reads(h, next) ==
  /\ copy' = [copy EXCEPT ![h] = Stored(Of(h))]
  /\ GoesTo(h, next)
  /\ behind' = behind \ {h}
  /\ UNCHANGED <<users, columns, drawn, given, spent, overlapped>>

ReadOtp(h) ==
  /\ In(h, "look") /\ Is(h, "otp")
  /\ IF Of(h) \in users THEN Reads(h, "saveCode")
     ELSE GoesTo(h, "done") /\ UNCHANGED <<users, columns, copy, accountHistory>>

ReadVerify(h) ==
  /\ In(h, "look") /\ Is(h, "verify")
  /\ IF Of(h) \in users /\ ~confirmed[Of(h)] THEN Reads(h, "saveConfirmed")
     ELSE /\ GoesTo(h, IF Of(h) \in users THEN "done" ELSE "failed")
          /\ UNCHANGED <<users, columns, copy, accountHistory>>

ReadPassword(h) == In(h, "password") /\ Reads(h, "savePassword")

ReadClear(h) == In(h, "clear") /\ Reads(h, "saveClear")

Holding(h) == handler[h].step \in {"saveCode", "saveConfirmed", "savePassword", "saveClear"}

Saves(h, row) ==
  /\ password' = [password EXCEPT ![Of(h)] = row.password]
  /\ forget' = [forget EXCEPT ![Of(h)] = row.forget]
  /\ confirmed' = [confirmed EXCEPT ![Of(h)] = row.confirmed]
  /\ behind' = (behind \cup {g \in Handlers \ {h} : Holding(g) /\ Of(g) = Of(h)}) \ {h}
  /\ overlapped' = IF h \in behind THEN overlapped \cup {Of(h)} ELSE overlapped
  /\ UNCHANGED <<users, copy, drawn>>

SaveCode(h) ==
  /\ In(h, "saveCode")
  /\ Saves(h, [copy[h] EXCEPT !.forget = handler[h].code])
  /\ GoesTo(h, "done")
  /\ UNCHANGED <<given, spent>>

SaveConfirmed(h) ==
  /\ In(h, "saveConfirmed")
  /\ Saves(h, [copy[h] EXCEPT !.confirmed = TRUE])
  /\ GoesTo(h, "done")
  /\ UNCHANGED <<given, spent>>

SavePassword(h) ==
  /\ In(h, "savePassword")
  /\ Saves(h, [copy[h] EXCEPT !.password = handler[h].password])
  /\ given' = [given EXCEPT ![Of(h)] = handler[h].password]
  /\ GoesTo(h, "clear")
  /\ UNCHANGED spent

SaveClear(h) ==
  /\ In(h, "saveClear")
  /\ Saves(h, [copy[h] EXCEPT !.forget = None])
  /\ spent' = spent \cup {handler[h].code}
  /\ GoesTo(h, "done")
  /\ UNCHANGED given

\* A call throws or the replica goes down.
Break(h) ==
  /\ ~In(h, "done") /\ ~In(h, "failed") /\ ~Is(h, "force")
  /\ GoesTo(h, "failed")
  /\ UNCHANGED <<users, columns, copy, accountHistory>>

-----------------------------------------------------------------------------
AccountsNext ==
  \E h \in Handlers :
    \/ \E a \in Addresses :
         \/ \E k \in Entering, p \in Passwords \cup {None} : Enter(h, k, a, p)
         \/ \E p \in Passwords, c \in Codes : Reset(h, a, p, c)
         \/ \E c \in Codes : SendOtp(h, a, c)
         \/ Verify(h, a)
    \/ Lookup(h) \/ AddUser(h) \/ Duplicate(h) \/ Refetch(h)
    \/ CheckCode(h) \/ ReadOtp(h) \/ ReadVerify(h) \/ ReadPassword(h) \/ ReadClear(h)
    \/ SaveCode(h) \/ SaveConfirmed(h) \/ SavePassword(h) \/ SaveClear(h)
    \/ Break(h)

AccountsSpec == AccountsInit /\ [][AccountsNext]_accountVars

-----------------------------------------------------------------------------
\* Participants who open an examination with an address nobody has used, at
\* the same time and on several replicas, all get in with the one account:
\* forceLogin never fails for the index that keeps the address unique.
NobodyTurnedAway ==
  \A h \in Handlers : Is(h, "force") =>
    ~In(h, "failed") /\ (In(h, "done") => Of(h) \in users)

\* The password an address was last given is the one that is stored, and the
\* code it was reset with works no more: the saves of whole rows by one
\* request undo nothing, unless another request saved the row since it was read.
ResetStands ==
  \A a \in Addresses \ overlapped :
    a \in users => password[a] = given[a] /\ forget[a] \notin spent

\* Accounts survive requests that meet: everybody gets in, a reset lasts.
AccountsSafe == NobodyTurnedAway /\ ResetStands
=============================================================================

------------------------------ MODULE Accounts ------------------------------
(***************************************************************************)
(* Users, roles and the login lock: the requests of server/api/auth.py and *)
(* server/api/users.py, and the commands of manage.py, each of which is a  *)
(* process of its own on the same SQLite file.                             *)
(*                                                                         *)
(* The server handles one request at a time.  Requests and commands read   *)
(* outside a transaction, hash a password (a third of a second of bcrypt)  *)
(* and write when they commit: reading and committing are separate steps,  *)
(* between which another process may do anything.  A login that finds      *)
(* locked_until set ends there, with status 429 or with the TypeError of   *)
(* comparing it (auth.py:39), so time does not matter and has no variable. *)
(***************************************************************************)
EXTENDS Naturals, FiniteSets

CONSTANTS
  Names,     \* user names
  Limit,     \* failed logins that lock an account (10)
  Commands,  \* processes of manage.py
  MaxUsers,  \* bound: rows ever inserted; a primary key is used once
  MaxRuns    \* bound: commands started

ASSUME BoundsAssumption == Names # {} /\ Limit \in Nat /\ Limit > 1
                            /\ MaxUsers \in Nat /\ MaxRuns \in Nat

Ids == 1..MaxUsers
Roles == {"admin", "readonly"}
Row == [name: Names, role: Roles, fails: 0..(Limit - 1), locked: BOOLEAN]

VARIABLES
  present, users,  \* the table: primary keys in it, and their rows
  inserted,        \* rows inserted so far
  tokens,          \* users a browser has a cookie of
  web,             \* the request the server is handling
  cli,             \* what each process of manage.py has read
  (* what happened, for the properties *)
  guesses,         \* wrong passwords since the last login or reset that succeeded
  streak,          \* the same since the last login, counted up to Limit
  disturbed,       \* processes during whose run a wrong password was counted
  overlapped,      \* a removal was committed while another one was under way
  runs             \* commands started

table == <<present, users, inserted>>
counts == <<guesses, streak, disturbed>>
vars == <<table, tokens, web, cli, counts, overlapped, runs>>

Idle == [op |-> "idle"]
Create == [op: {"create"}, name: Names, role: Roles]
OnUser(ops) == [op: ops, user: Ids, seen: Row]

TypeOK ==
  /\ present \subseteq Ids /\ users \in [Ids -> Row]
  /\ inserted \in 0..MaxUsers /\ present \subseteq 1..inserted
  /\ tokens \subseteq 1..inserted
  /\ web \in {Idle} \cup Create \cup OnUser({"promote", "delete", "right", "wrong"})
  /\ cli \in [Commands ->
               {Idle} \cup Create \cup OnUser({"remove", "counted", "reset"})]
  /\ guesses \in [Ids -> 0..Limit] /\ streak \in [Ids -> 0..Limit]
  /\ disturbed \subseteq Commands /\ overlapped \in BOOLEAN
  /\ runs \in 0..MaxRuns

Taken(name) == \E u \in present : users[u].name = name
Admins == {u \in present : users[u].role = "admin"}

NewRow(name, role) == [name |-> name, role |-> role, fails |-> 0, locked |-> FALSE]
Blank == NewRow(CHOOSE n \in Names : TRUE, "readonly")  \* of no user; not read

(* A new database is empty: its first administrator comes from manage.py.  *)
Init ==
  /\ present = {} /\ inserted = 0 /\ tokens = {}
  /\ users = [u \in Ids |-> Blank]
  /\ web = Idle /\ cli = [c \in Commands |-> Idle]
  /\ guesses = [u \in Ids |-> 0] /\ streak = [u \in Ids |-> 0]
  /\ disturbed = {} /\ overlapped = FALSE /\ runs = 0

-----------------------------------------------------------------------------
(* db.session.commit.                                                      *)

(* An UPDATE writes the columns that differ from what was loaded; the name *)
(* never does.  Without the row it raises StaleDataError.                  *)
Flush(row, seen, new) ==
  [name   |-> row.name,
   role   |-> IF new.role = seen.role THEN row.role ELSE new.role,
   fails  |-> IF new.fails = seen.fails THEN row.fails ELSE new.fails,
   locked |-> IF new.locked = seen.locked THEN row.locked ELSE new.locked]
Update(u, seen, new) ==
  /\ users' = IF u \in present
              THEN [users EXCEPT ![u] = Flush(@, seen, new)] ELSE users
  /\ UNCHANGED <<present, inserted>>

(* INSERT: a name that was taken meanwhile violates its UNIQUE constraint. *)
Insert(new) ==
  LET u == inserted + 1 IN
  IF Taken(new.name) THEN UNCHANGED table
  ELSE /\ u \in Ids
       /\ present' = present \cup {u} /\ inserted' = u
       /\ users' = [users EXCEPT ![u] = NewRow(new.name, new.role)]

(* DELETE, which only warns when the row is gone.                          *)
Delete(u) ==
  /\ present' = present \ {u} /\ users' = [users EXCEPT ![u] = Blank]
  /\ guesses' = [guesses EXCEPT ![u] = 0] /\ streak' = [streak EXCEPT ![u] = 0]
  /\ UNCHANGED <<inserted, disturbed>>

-----------------------------------------------------------------------------
(* POST /auth/login: the lock is looked at, the password is checked.       *)
LoginRead(u) ==
  /\ web = Idle /\ u \in present /\ ~users[u].locked
  /\ \E answer \in {"right", "wrong"} :
       web' = [op |-> answer, user |-> u, seen |-> users[u]]
  /\ UNCHANGED <<table, tokens, cli, counts, overlapped, runs>>

(* Mutant of Failed: one guess too many.                                   *)
FailedLate(seen) == IF seen.fails + 1 > Limit
                    THEN [seen EXCEPT !.fails = 0, !.locked = TRUE]
                    ELSE [seen EXCEPT !.fails = @ + 1]
Failed(seen) == IF seen.fails + 1 >= Limit
                THEN [seen EXCEPT !.fails = 0, !.locked = TRUE]
                ELSE [seen EXCEPT !.fails = @ + 1]

LoginWrong ==
  /\ web.op = "wrong" /\ web' = Idle
  /\ LET u == web.user IN
     /\ Update(u, web.seen, Failed(web.seen))
     /\ IF u \in present
        THEN /\ guesses' = [guesses EXCEPT ![u] = @ + 1]
             /\ streak' = [streak EXCEPT ![u] = IF @ < Limit THEN @ + 1 ELSE @]
             /\ disturbed' = {c \in Commands : cli[c].op = "reset" /\ cli[c].user = u}
                             \cup disturbed
        ELSE UNCHANGED counts
  /\ UNCHANGED <<tokens, cli, overlapped, runs>>

LoginRight ==
  /\ web.op = "right" /\ web' = Idle
  /\ LET u == web.user IN
     /\ Update(u, web.seen, [web.seen EXCEPT !.fails = 0, !.locked = FALSE])
     /\ IF u \in present
        THEN /\ tokens' = tokens \cup {u}
             /\ guesses' = [guesses EXCEPT ![u] = 0]
             /\ streak' = [streak EXCEPT ![u] = 0]
        ELSE UNCHANGED <<tokens, guesses, streak>>
  /\ UNCHANGED <<cli, disturbed, overlapped, runs>>

(* POST /auth/logout, or the token is 24 hours old.                        *)
Logout(u) ==
  /\ web = Idle /\ u \in tokens /\ tokens' = tokens \ {u}
  /\ UNCHANGED <<table, web, cli, counts, overlapped, runs>>

-----------------------------------------------------------------------------
(* /users, for administrators: the role is looked up at every request, in  *)
(* the row of the token's user.                                            *)
AdminRequest == web = Idle /\ \E a \in tokens : a \in Admins

CreateUserRead ==
  /\ AdminRequest
  /\ \E name \in Names, role \in Roles :
       /\ ~Taken(name)
       /\ web' = [op |-> "create", name |-> name, role |-> role]
  /\ UNCHANGED <<table, tokens, cli, counts, overlapped, runs>>
CreateUserCommit ==
  /\ web.op = "create" /\ web' = Idle
  /\ Insert(web)
  /\ UNCHANGED <<tokens, cli, counts, overlapped, runs>>

(* PUT /users/<id>/role and DELETE /users/<id>: another user, who is not an *)
(* administrator.                                                          *)
OtherUserRead(op, t) ==
  /\ web = Idle /\ \E a \in tokens : a \in Admins /\ a # t
  /\ t \in present /\ users[t].role = "readonly"
  /\ web' = [op |-> op, user |-> t, seen |-> users[t]]
  /\ UNCHANGED <<table, tokens, cli, counts, overlapped, runs>>
UpdateRoleCommit ==
  /\ web.op = "promote" /\ web' = Idle
  /\ Update(web.user, web.seen, [web.seen EXCEPT !.role = "admin"])
  /\ UNCHANGED <<tokens, cli, counts, overlapped, runs>>
DeleteUserCommit ==
  /\ web.op = "delete" /\ web' = Idle
  /\ Delete(web.user)
  /\ UNCHANGED <<tokens, cli, overlapped, runs>>

(* The server stops, or the commit raises because the file is locked.      *)
RequestFails ==
  /\ web # Idle /\ web' = Idle
  /\ UNCHANGED <<table, tokens, cli, counts, overlapped, runs>>

-----------------------------------------------------------------------------
(* manage.py.                                                              *)
Done(c) == cli' = [cli EXCEPT ![c] = Idle] /\ UNCHANGED runs
Start(c, command) ==
  /\ cli[c] = Idle /\ runs < MaxRuns /\ runs' = runs + 1
  /\ cli' = [cli EXCEPT ![c] = command]
Begin(c, op, u) ==
  /\ u \in present /\ Start(c, [op |-> op, user |-> u, seen |-> users[u]])
  /\ UNCHANGED <<table, tokens, web, guesses, streak, overlapped>>

CreateAdminRead(c) ==
  /\ \E name \in Names :
       /\ ~Taken(name)
       /\ Start(c, [op |-> "create", name |-> name, role |-> "admin"])
  /\ UNCHANGED <<table, tokens, web, counts, overlapped>>
CreateAdminCommit(c) ==
  /\ cli[c].op = "create" /\ Done(c)
  /\ Insert(cli[c])
  /\ UNCHANGED <<tokens, web, counts, overlapped>>

(* remove-admin reads the user, counts the administrators, deletes.        *)
RemoveRead(c, u) == Begin(c, "remove", u) /\ UNCHANGED disturbed
(* Mutant of Allowed: the count includes nobody else.                      *)
AllowedOffByOne(seen) == ~(seen.role = "admin" /\ Cardinality(Admins) < 1)
Allowed(seen) == ~(seen.role = "admin" /\ Cardinality(Admins) <= 1)
RemoveCount(c) ==
  /\ cli[c].op = "remove"
  /\ IF Allowed(cli[c].seen)
     THEN cli' = [cli EXCEPT ![c] = [@ EXCEPT !.op = "counted"]] /\ UNCHANGED runs
     ELSE Done(c)
  /\ UNCHANGED <<table, tokens, web, counts, overlapped>>
RemoveCommit(c) ==
  /\ cli[c].op = "counted" /\ Done(c)
  /\ Delete(cli[c].user)
  /\ overlapped' = (overlapped \/
       \E d \in Commands \ {c} : cli[d].op \in {"remove", "counted"})
  /\ UNCHANGED <<tokens, web>>

(* reset-password.                                                         *)
ResetRead(c, u) == Begin(c, "reset", u) /\ disturbed' = disturbed \ {c}
(* Mutant of Unlocked: the lock is forgotten.                              *)
UnlockedCount(seen) == [seen EXCEPT !.fails = 0]
Unlocked(seen) == [seen EXCEPT !.fails = 0, !.locked = FALSE]
ResetCommit(c) ==
  /\ cli[c].op = "reset" /\ Done(c)
  /\ Update(cli[c].user, cli[c].seen, Unlocked(cli[c].seen))
  /\ guesses' = IF cli[c].user \in present
                THEN [guesses EXCEPT ![cli[c].user] = 0] ELSE guesses
  /\ UNCHANGED <<tokens, web, streak, disturbed, overlapped>>

CommandFails(c) ==
  /\ cli[c] # Idle /\ Done(c)
  /\ UNCHANGED <<table, tokens, web, counts, overlapped>>

-----------------------------------------------------------------------------
Request ==
  \/ \E u \in Ids : LoginRead(u) \/ Logout(u)
  \/ LoginWrong \/ LoginRight
  \/ CreateUserRead \/ CreateUserCommit
  \/ \E t \in Ids : OtherUserRead("promote", t) \/ OtherUserRead("delete", t)
  \/ UpdateRoleCommit \/ DeleteUserCommit
  \/ RequestFails

Command(c) ==
  \/ CreateAdminRead(c) \/ CreateAdminCommit(c)
  \/ \E u \in Ids : RemoveRead(c, u) \/ ResetRead(c, u)
  \/ RemoveCount(c) \/ RemoveCommit(c)
  \/ ResetCommit(c)
  \/ CommandFails(c)

Next == Request \/ \E c \in Commands : Command(c)
Spec == Init /\ [][Next]_vars

-----------------------------------------------------------------------------
(* Somebody can administrate: once there was an administrator there is one,*)
(* unless two removals overlapped (PROJECT.md:1123 asks it of every        *)
(* history).  Promotions, deletions and logins may come anywhere between   *)
(* the statements of a removal, and the removed user may be the one who    *)
(* promotes.                                                               *)
AdminRemains ==
  [][Admins # {} => Admins' # {} \/ overlapped']_vars

(* An account is locked by Limit wrong passwords in a row, no fewer, and   *)
(* no more can be tried between two successes, whatever resets come        *)
(* between the reading and the writing of the count.                       *)
Counted(u) == IF users[u].locked THEN Limit ELSE users[u].fails
LockoutCounts ==
  \A u \in present : guesses[u] <= Counted(u) /\ Counted(u) <= streak[u]

(* A password reset that succeeds leaves the account open, unless a wrong  *)
(* password was counted while it ran: what it loaded as open it does not   *)
(* write.                                                                  *)
ResetUnlocks ==
  [][\A c \in Commands \ disturbed, u \in present :
       ResetCommit(c) /\ cli[c].user = u => Counted(u)' = 0]_vars
=============================================================================

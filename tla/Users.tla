-------------------------------- MODULE Users --------------------------------
(***************************************************************************)
(* The accounts of UsersService and the operations of AuthService that     *)
(* create or change them.                                                  *)
(*                                                                         *)
(* Every request awaits the database several times.  A new account is      *)
(* looked up, inserted and then given a wallet.  A change loads the user,  *)
(* prepares what to write and writes it: confirmations, resets and social  *)
(* logins write back every field of the copy they loaded, so that a change *)
(* made meanwhile is undone (stale).                                       *)
(*                                                                         *)
(* Passwords are numbered by the hash that is stored.  Links sent by mail  *)
(* are not tracked: anybody may hold one.  Names, photos and phones, which *)
(* no step below depends on, are left out, and so is the refusal of a      *)
(* known phone by addUser: a request may always be refused.  Sessions are  *)
(* in module Sessions.                                                     *)
(***************************************************************************)
EXTENDS Integers

CONSTANTS
    Ids,            \* of users, never used again
    Emails,
    Requests,       \* requests under way at the same time
    MaxRequests,    \* bound of the requests ever started
    MaxPasswords    \* bound of the hashes ever stored

ASSUME UsersAssumption == MaxRequests \in Nat /\ MaxPasswords \in Nat \ {0}

VARIABLES
    users, document,        \* the collection
    used,                   \* ids that were given
    wallets,                \* users that have a wallet
    pc, target, change, asks,   \* the requests
    stale,                  \* the user was written after the request loaded it
    hashes, started,        \* bounds
    excused                 \* users without a wallet: their creation was cut
                            \* short before it, or a PATCH made them customers

collection == <<users, document, used, wallets>>
requests == <<pc, target, change, asks, stale>>
vars == <<collection, requests, hashes, started, excused>>

Fields == {"email", "password", "role", "status"}

(* The roles and states that some step tells apart.                        *)
Roles == {"customer", "agent"}
Statuses == {"none", "inactive", "active"}

null == "null"
NoPassword == 0
Plaintext == -1     \* of a request, not hashed yet
Rehashed == -2      \* the hash of a hash: nobody knows the password

FieldValues(f) ==
    CASE f = "email"    -> Emails \cup {null}
      [] f = "password" -> {NoPassword, Plaintext, Rehashed} \cup 1 .. MaxPasswords
      [] f = "role"     -> Roles
      [] f = "status"   -> Statuses

Blank == [email |-> null, password |-> NoPassword, role |-> "customer", status |-> "none"]
Nothing == [f \in {} |-> null]

TypeOK ==
    /\ users \subseteq used /\ used \subseteq Ids
    /\ wallets \subseteq used /\ excused \subseteq used
    /\ \A u \in Ids, f \in Fields : document[u][f] \in FieldValues(f)
    /\ \A u \in Ids : document[u].password # Plaintext
    /\ pc \in [Requests -> {"idle", "insert", "wallet", "prepare", "merge", "write"}]
    /\ \A p \in Requests :
        /\ target[p] \in Ids \cup {null}
        /\ asks[p] \subseteq Fields
        /\ \A f \in DOMAIN change[p] : change[p][f] \in FieldValues(f)
    /\ stale \in [Requests -> BOOLEAN]
    /\ hashes \in 1 .. MaxPasswords /\ started \in 0 .. MaxRequests

Init ==
    /\ users = {} /\ used = {} /\ wallets = {}
    /\ document = [u \in Ids |-> Blank]
    /\ pc = [p \in Requests |-> "idle"]
    /\ target = [p \in Requests |-> null]
    /\ change = [p \in Requests |-> Nothing]
    /\ asks = [p \in Requests |-> {}]
    /\ stale = [p \in Requests |-> FALSE]
    /\ hashes = 1 /\ started = 0
    /\ excused = {}

-----------------------------------------------------------------------------
(* A request moves on, or ends.                                            *)
Goto(p, next) == pc' = [pc EXCEPT ![p] = next]

Start == started < MaxRequests /\ started' = started + 1

Ended(p) ==
    /\ Goto(p, "idle")
    /\ target' = [target EXCEPT ![p] = null]
    /\ change' = [change EXCEPT ![p] = Nothing]
    /\ asks' = [asks EXCEPT ![p] = {}]
    /\ stale' = [stale EXCEPT ![p] = FALSE]

(* The unique index of the collection, where null counts as an address.    *)
Holders(e) == {u \in users : document[u].email = e}

-----------------------------------------------------------------------------
(* New accounts: what each operation asks UsersService.create for.         *)
register ==
    [email : Emails, password : {1}, role : {"customer"}, status : {"inactive"}]
registerAgent ==
    [email : Emails, password : {1}, role : {"agent"}, status : {"inactive"}]
adminRegister ==
    [email : Emails, password : {1}, role : Roles, status : {"active"}]
createUser ==
    [email : Emails, password : {1}, role : Roles, status : {"none"}]
addUser ==
    [email : Emails \cup {null}, password : {NoPassword, 1}, role : {"customer"}, status : {"none"}]
NewSocialUser ==
    [email : Emails \cup {null}, password : {NoPassword}, role : {"customer"}, status : {"active"}]

Accounts ==
    UNION {register, registerAgent, adminRegister, createUser, addUser, NewSocialUser}

(* findByEmail does not look for null.                                     *)
create(p, account) ==
    /\ pc[p] = "idle" /\ Start
    /\ account \in Accounts
    /\ account.email # null => Holders(account.email) = {}
    /\ Goto(p, "insert")
    /\ change' = [change EXCEPT ![p] = account]
    /\ UNCHANGED <<collection, target, asks, stale, hashes, excused>>

(* The insertion; a customer is given a wallet next.                       *)
insert_NoIndex(p) ==
    /\ pc[p] = "insert"
    /\ \E u \in Ids \ used :
          /\ users' = users \cup {u}
          /\ used' = used \cup {u}
          /\ document' = [document EXCEPT ![u] = change[p]]
          /\ IF change[p].role = "customer"
             THEN /\ Goto(p, "wallet")
                  /\ target' = [target EXCEPT ![p] = u]
                  /\ UNCHANGED <<change, asks, stale>>
             ELSE Ended(p)
    /\ UNCHANGED <<wallets, hashes, started, excused>>

insert(p) ==
    /\ pc[p] = "insert"
    /\ \/ /\ Holders(change[p].email) # {}
          /\ Ended(p)
          /\ UNCHANGED <<users, used, document>>
       \/ /\ Holders(change[p].email) = {}
          /\ \E u \in Ids \ used :
                /\ users' = users \cup {u}
                /\ used' = used \cup {u}
                /\ document' = [document EXCEPT ![u] = change[p]]
                /\ IF change[p].role = "customer"
                   THEN /\ Goto(p, "wallet")
                        /\ target' = [target EXCEPT ![p] = u]
                        /\ change' = [change EXCEPT ![p] = Nothing]
                        /\ UNCHANGED <<asks, stale>>
                   ELSE Ended(p)
    /\ UNCHANGED <<wallets, hashes, started, excused>>

createWallet_AnyExisting(p) ==
    /\ pc[p] = "wallet"
    /\ wallets' = IF wallets = {} THEN {target[p]} ELSE wallets
    /\ Ended(p)
    /\ UNCHANGED <<users, document, used, hashes, started, excused>>

createWallet(p) ==
    /\ pc[p] = "wallet"
    /\ wallets' = wallets \cup {target[p]}
    /\ Ended(p)
    /\ UNCHANGED <<users, document, used, hashes, started, excused>>

-----------------------------------------------------------------------------
(* Changes: the user is loaded by the operation, fields are the new values.*)
Load(p, u, next, fields, asked) ==
    /\ pc[p] = "idle" /\ u \in users /\ Start
    /\ Goto(p, next)
    /\ target' = [target EXCEPT ![p] = u]
    /\ change' = [change EXCEPT ![p] = fields]
    /\ asks' = [asks EXCEPT ![p] = asked]
    /\ UNCHANGED <<collection, stale, hashes, excused>>

(* The fields of a user that the mapper writes: undefined ones are dropped.*)
Mapped(d) ==
    LET dropped == {f \in {"password"} : d.password = NoPassword}
                   \cup {f \in {"status"} : d.status = "none"}
    IN [f \in Fields \ dropped |-> d[f]]

(* The fields of new, and those of old that new lacks.                     *)
Over(new, old) ==
    [f \in DOMAIN new \cup DOMAIN old |-> IF f \in DOMAIN new THEN new[f] ELSE old[f]]

(* A change written with every field of the copy.                          *)
LoadWhole(p, u, fields, asked) ==
    Load(p, u, "prepare", Over(fields, Mapped(document[u])), asked)

confirmEmail(p, u) ==
    /\ document[u].status = "inactive"
    /\ LoadWhole(p, u, [status |-> "active"], {"status"})

confirmNewEmail(p, u) == \E e \in Emails :
    LoadWhole(p, u, [email |-> e, status |-> "active"], {"email", "status"})

(* resetPassword and phoneResetPassword.                                   *)
resetPassword(p, u) == LoadWhole(p, u, [password |-> Plaintext], {"password"})

(* An address that is free replaces the one of the user.                   *)
validateSocialLogin(p, u) == \E e \in Emails \cup {document[u].email} :
    /\ e = document[u].email \/ Holders(e) = {}
    /\ LoadWhole(p, u, [email |-> e], {"email"})

(* AuthService.update and updateUser write single fields, as does an       *)
(* administrator; one at a time here.                                      *)
update(p, u) ==
    /\ document[u].password # NoPassword
    /\ Load(p, u, "prepare", [password |-> Plaintext], {"password"})

updateUser(p, u) == \E e \in Emails :
    Load(p, u, "prepare", [email |-> e], {"email"})

patchUser(p, u) ==
    \/ \E s \in {"inactive", "active"} : Load(p, u, "prepare", [status |-> s], {"status"})
    \/ \E r \in Roles : Load(p, u, "prepare", [role |-> r], {"role"})

(* The check; the repository then reads the user again.                    *)
approveAgent(p, u) ==
    /\ document[u].role = "agent" /\ document[u].status # "active"
    /\ Load(p, u, "merge", [status |-> "active"], {"status"})

-----------------------------------------------------------------------------
(* UsersService.update: what it reads before it writes.  A password that   *)
(* is not the stored one is taken for a new one and hashed.                *)
Hashed_Always(p, stored) ==
    IF "password" \notin DOMAIN change[p] THEN change[p]
    ELSE IF change[p].password = Plaintext THEN [change[p] EXCEPT !.password = hashes + 1]
    ELSE [change[p] EXCEPT !.password = Rehashed]

Hashed(p, stored) ==
    IF "password" \notin DOMAIN change[p] THEN change[p]
    ELSE IF change[p].password = Plaintext THEN [change[p] EXCEPT !.password = hashes + 1]
    ELSE IF change[p].password = stored
         THEN [f \in DOMAIN change[p] \ {"password"} |-> change[p][f]]
    ELSE [change[p] EXCEPT !.password = Rehashed]

Hashes(p) == "password" \in DOMAIN change[p] /\ change[p].password = Plaintext

TakesEmail(p) ==
    /\ "email" \in DOMAIN change[p] /\ change[p].email # null
    /\ Holders(change[p].email) \ {target[p]} # {}

prepare(p) ==
    /\ pc[p] = "prepare"
    /\ \/ /\ target[p] \notin users \/ TakesEmail(p)
          /\ Ended(p)
          /\ UNCHANGED hashes
       \/ /\ target[p] \in users /\ ~TakesEmail(p)
          /\ Hashes(p) => hashes < MaxPasswords
          /\ hashes' = IF Hashes(p) THEN hashes + 1 ELSE hashes
          /\ change' = [change EXCEPT ![p] = Hashed(p, document[target[p]].password)]
          /\ Goto(p, "write")
          /\ UNCHANGED <<target, asks, stale>>
    /\ UNCHANGED <<collection, started, excused>>

(* The repository merges a partial change into a copy of the document.     *)
merge(p) ==
    /\ pc[p] = "merge"
    /\ \/ target[p] \notin users /\ Ended(p)
       \/ /\ target[p] \in users
          /\ change' = [change EXCEPT ![p] = Over(@, Mapped(document[target[p]]))]
          /\ Goto(p, "write")
          /\ stale' = [stale EXCEPT ![p] = FALSE]
          /\ UNCHANGED <<target, asks>>
    /\ UNCHANGED <<collection, hashes, started, excused>>

(* findOneAndUpdate: nothing for a user that is gone, refused by the index.*)
Rejected(p) ==
    /\ "email" \in DOMAIN change[p]
    /\ Holders(change[p].email) \ {target[p]} # {}

(* The request has loaded the user and not written yet.                    *)
Holds(p, u) == target[p] = u /\ pc[p] \in {"prepare", "merge", "write"}

(* Only a new account is given a wallet, not one that becomes a customer.  *)
BecomesCustomer(p) == "role" \in asks[p] /\ change[p].role = "customer"

write(p) ==
    LET u == target[p] IN
    /\ pc[p] = "write"
    /\ document' = IF u \notin users \/ Rejected(p) THEN document
                   ELSE [document EXCEPT ![u] = Over(change[p], @)]
    /\ Goto(p, "idle")
    /\ target' = [target EXCEPT ![p] = null]
    /\ change' = [change EXCEPT ![p] = Nothing]
    /\ asks' = [asks EXCEPT ![p] = {}]
    /\ stale' = [q \in Requests |-> q # p /\ (stale[q] \/ (Holds(q, u) /\ document' # document))]
    /\ excused' = excused \cup {v \in {u} : BecomesCustomer(p)}
    /\ UNCHANGED <<users, used, wallets, hashes, started>>

(* softDelete, DELETE /users/:id and deleteUser; the wallet stays.         *)
remove(u) ==
    /\ u \in users
    /\ users' = users \ {u}
    /\ document' = [document EXCEPT ![u] = Blank]
    /\ UNCHANGED <<used, wallets, requests, hashes, started, excused>>

(* The database rejects a call, or the process ends.                       *)
fails(p) ==
    /\ pc[p] # "idle"
    /\ excused' = excused \cup {u \in Ids : pc[p] = "wallet" /\ u = target[p]}
    /\ Ended(p)
    /\ UNCHANGED <<collection, hashes, started>>

-----------------------------------------------------------------------------
Creation(p) ==
    \/ \E account \in Accounts : create(p, account)
    \/ insert(p)
    \/ createWallet(p)

Change(p, u) ==
    \/ confirmEmail(p, u)
    \/ confirmNewEmail(p, u)
    \/ resetPassword(p, u)
    \/ validateSocialLogin(p, u)
    \/ update(p, u)
    \/ updateUser(p, u)
    \/ patchUser(p, u)
    \/ approveAgent(p, u)

Next ==
    \/ \E p \in Requests :
        \/ Creation(p)
        \/ \E u \in Ids : Change(p, u)
        \/ prepare(p)
        \/ merge(p)
        \/ write(p)
        \/ fails(p)
    \/ \E u \in Ids : remove(u)

Spec == Init /\ [][Next]_vars

-----------------------------------------------------------------------------
(* No two users have one address, or both none, however the look-ups and   *)
(* writes of registrations, changes and logins overlap.                    *)
EmailUnique == \A u, v \in users : document[u].email = document[v].email => u = v

(* A user who becomes a customer by registering, by whatever operation, or *)
(* by a stale copy that is written back, has a wallet, unless its creation *)
(* was cut short or a PATCH once asked for the role of a customer.         *)
GetsWallet(u) == \E p \in Requests : pc[p] = "wallet" /\ target[p] = u

WalletFollows ==
    \A u \in users :
        document[u].role = "customer" => u \in wallets \cup excused \/ GetsWallet(u)

(* A field of an account changes only by a request that asks for it, or by *)
(* one that writes back a copy it loaded before another write: what is     *)
(* confirmed, approved or chosen is lost to overlapping requests only, and *)
(* no password is ever hashed twice otherwise.                             *)
ChangesAsked ==
    [][\A u \in users \cap users', f \in Fields :
        document'[u][f] # document[u][f] =>
            \E p \in Requests :
                /\ pc[p] = "write" /\ target[p] = u
                /\ f \in asks[p] \/ stale[p]]_vars
=============================================================================

----------------------------- MODULE UsersProofs -----------------------------
(***************************************************************************)
(* Proofs about Users for any number of accounts, addresses and requests   *)
(* that overlap.                                                           *)
(***************************************************************************)
EXTENDS Users, TLAPS

Steps == {"idle", "insert", "wallet", "prepare", "merge", "write"}

Types ==
    /\ users \subseteq used /\ used \subseteq Ids
    /\ DOMAIN document = Ids
    /\ \A u \in Ids : DOMAIN document[u] = Fields /\ document[u].password # Plaintext
    /\ pc \in [Requests -> Steps]
    /\ DOMAIN target = Requests /\ DOMAIN change = Requests /\ DOMAIN asks = Requests
    /\ stale \in [Requests -> BOOLEAN]
    /\ hashes \in Nat

(* A user that has a wallet, is about to be given one, or is excused.      *)
Settled(u) == u \in wallets \cup excused \/ GetsWallet(u)

(* What a change holds beside what it asks for is what its user holds,     *)
(* unless somebody else wrote the user since; a role of a customer that it *)
(* would write back is that of a user who has a wallet.                    *)
CopyOK(p) ==
    /\ DOMAIN change[p] \subseteq Fields
    /\ "role" \in DOMAIN change[p] \ asks[p] /\ change[p]["role"] = "customer" =>
            Settled(target[p])
    /\ target[p] \in users =>
            stale[p] \/ \A f \in DOMAIN change[p] \ asks[p] :
                            change[p][f] = document[target[p]][f]

(* A password is hashed before it is written.                              *)
PasswordOK(p) ==
    "password" \in DOMAIN change[p] /\ change[p].password = Plaintext =>
        pc[p] = "prepare" /\ "password" \in asks[p]

RequestOK(p) ==
    /\ pc[p] = "insert" => change[p] \in Accounts
    /\ pc[p] \in {"wallet", "prepare", "merge", "write"} => target[p] \in used
    /\ pc[p] \in {"prepare", "merge", "write"} => CopyOK(p) /\ PasswordOK(p)
    /\ pc[p] = "merge" => DOMAIN change[p] \subseteq asks[p] /\ "password" \notin asks[p]

IInv ==
    /\ Types
    /\ \A p \in Requests : RequestOK(p)
    /\ EmailUnique
    /\ WalletFollows

-----------------------------------------------------------------------------
(* Records and how they are merged.                                        *)
LEMMA OverShape ==
    ASSUME NEW f, NEW g
    PROVE  /\ DOMAIN Over(f, g) = DOMAIN f \cup DOMAIN g
           /\ \A x \in DOMAIN f : Over(f, g)[x] = f[x]
           /\ \A x \in DOMAIN g \ DOMAIN f : Over(f, g)[x] = g[x]
  BY DEF Over

LEMMA MappedShape ==
    ASSUME NEW d
    PROVE  /\ DOMAIN Mapped(d) \subseteq Fields
           /\ \A f \in DOMAIN Mapped(d) : Mapped(d)[f] = d[f]
  BY DEF Mapped

LEMMA AccountShape ==
    ASSUME NEW a \in Accounts
    PROVE  DOMAIN a = Fields /\ a.password # Plaintext
  BY DEF Accounts, register, registerAgent, adminRegister, createUser, addUser, NewSocialUser,
         Fields, NoPassword, Plaintext

LEMMA BlankShape == DOMAIN Blank = Fields /\ Blank.password # Plaintext
  BY DEF Blank, Fields, NoPassword, Plaintext

-----------------------------------------------------------------------------
(* A request that a step neither moves nor makes stale.                    *)
Untouched(q) ==
    /\ pc'[q] = pc[q] /\ target'[q] = target[q] /\ change'[q] = change[q]
    /\ asks'[q] = asks[q] /\ (stale'[q] <=> stale[q])

RequestShape ==
    /\ pc' \in [Requests -> Steps]
    /\ DOMAIN target' = Requests /\ DOMAIN change' = Requests /\ DOMAIN asks' = Requests
    /\ stale' \in [Requests -> BOOLEAN]

LEMMA EndedShape ==
    ASSUME Types, NEW p \in Requests, Ended(p)
    PROVE  /\ RequestShape /\ pc'[p] = "idle"
           /\ \A q \in Requests \ {p} : Untouched(q)
<1>1. /\ pc' \in [Requests -> Steps] /\ pc'[p] = "idle"
      /\ DOMAIN target' = Requests /\ DOMAIN change' = Requests /\ DOMAIN asks' = Requests
      /\ \A q \in Requests \ {p} :
            /\ pc'[q] = pc[q] /\ target'[q] = target[q]
            /\ change'[q] = change[q] /\ asks'[q] = asks[q]
  BY DEF Types, Ended, Goto, Steps
<1>2. stale' \in [Requests -> BOOLEAN] /\ \A q \in Requests \ {p} : stale'[q] = stale[q]
  BY DEF Types, Ended
<1> QED BY <1>1, <1>2 DEF RequestShape, Untouched

(* The wallet of a user is not taken back, nor the step that creates it    *)
(* unless it has been done or was cut short.                               *)
LEMMA SettledKept ==
    ASSUME NEW p \in Requests, wallets \subseteq wallets', excused \subseteq excused',
           \A q \in Requests \ {p} : pc'[q] = pc[q] /\ target'[q] = target[q],
           pc[p] = "wallet" => target[p] \in wallets' \cup excused'
    PROVE  \A u : Settled(u) => Settled(u)'
  BY DEF Settled, GetsWallet

LEMMA SettledUnchanged ==
    ASSUME UNCHANGED <<wallets, excused, requests>>
    PROVE  \A u : Settled(u) => Settled(u)'
  BY DEF Settled, GetsWallet, requests

(* A copy of a user that is a customer.                                    *)
LEMMA CustomerSettled ==
    ASSUME IInv, NEW u \in users, document[u].role = "customer"
    PROVE  Settled(u)
  BY DEF IInv, WalletFollows, Settled

LEMMA OthersKeep ==
    ASSUME IInv, NEW q \in Requests, Untouched(q), used \subseteq used',
           \A u \in used : u \in users' => u \in users /\ document'[u] = document[u],
           \A u : Settled(u) => Settled(u)'
    PROVE  RequestOK(q)'
<1>1. RequestOK(q)
  BY DEF IInv
<1>2. pc[q] \in {"prepare", "merge", "write"} => CopyOK(q)' /\ PasswordOK(q)'
  BY <1>1 DEF RequestOK, CopyOK, PasswordOK, Untouched
<1> QED BY <1>1, <1>2 DEF RequestOK, Untouched

(* A step that leaves the accounts alone and moves one request.            *)
LEMMA QuietStep ==
    ASSUME IInv, NEW p \in Requests, UNCHANGED <<users, document, used>>,
           RequestShape, hashes' \in Nat,
           \A q \in Requests \ {p} : Untouched(q),
           RequestOK(p)',
           wallets \subseteq wallets', excused \subseteq excused',
           pc[p] = "wallet" => target[p] \in wallets' \cup excused'
    PROVE  IInv'
<1>1. Types'
  BY DEF IInv, Types, RequestShape
<1>2. \A u : Settled(u) => Settled(u)'
  BY SettledKept DEF Untouched
<1>3. \A q \in Requests : RequestOK(q)'
  BY <1>2, OthersKeep DEF IInv, Types
<1>4. EmailUnique'
  BY DEF IInv, EmailUnique
<1>5. WalletFollows'
  BY <1>2 DEF IInv, WalletFollows, Settled
<1> QED BY <1>1, <1>3, <1>4, <1>5 DEF IInv

-----------------------------------------------------------------------------
LEMMA InitIInv == ASSUME Init PROVE IInv
<1>1. Types
  BY BlankShape DEF Init, Types, Steps
<1>2. \A p \in Requests : RequestOK(p)
  BY DEF Init, RequestOK
<1> QED BY <1>1, <1>2 DEF Init, IInv, EmailUnique, WalletFollows

LEMMA CreateStep ==
    ASSUME IInv, NEW p \in Requests, NEW a \in Accounts, create(p, a)
    PROVE  IInv'
<1>1. /\ UNCHANGED <<users, document, used, wallets, stale, hashes, excused>>
      /\ pc[p] = "idle"
  BY DEF create, collection
<1>2. /\ pc' \in [Requests -> Steps] /\ pc'[p] = "insert" /\ change'[p] = a
      /\ DOMAIN target' = Requests /\ DOMAIN change' = Requests /\ DOMAIN asks' = Requests
      /\ \A q \in Requests \ {p} :
            /\ pc'[q] = pc[q] /\ target'[q] = target[q]
            /\ change'[q] = change[q] /\ asks'[q] = asks[q]
  BY DEF create, IInv, Types, Goto, Steps
<1>3. RequestShape /\ \A q \in Requests \ {p} : Untouched(q)
  BY <1>1, <1>2 DEF RequestShape, Untouched, IInv, Types
<1>4. RequestOK(p)'
  BY <1>2 DEF RequestOK
<1>5. hashes' \in Nat
  BY <1>1 DEF IInv, Types
<1> QED BY <1>1, <1>3, <1>4, <1>5, QuietStep

LEMMA CreateWalletStep ==
    ASSUME IInv, NEW p \in Requests, createWallet(p)
    PROVE  IInv'
<1>1. /\ UNCHANGED <<users, document, used, hashes, excused>>
      /\ wallets' = wallets \cup {target[p]} /\ Ended(p)
  BY DEF createWallet
<1>2. RequestShape /\ pc'[p] = "idle" /\ \A q \in Requests \ {p} : Untouched(q)
  BY <1>1, EndedShape DEF IInv
<1>3. RequestOK(p)'
  BY <1>2 DEF RequestOK
<1>4. hashes' \in Nat
  BY <1>1 DEF IInv, Types
<1> QED BY <1>1, <1>2, <1>3, <1>4, QuietStep

LEMMA FailsStep ==
    ASSUME IInv, NEW p \in Requests, fails(p)
    PROVE  IInv'
<1>1. /\ UNCHANGED <<users, document, used, wallets, hashes>> /\ Ended(p)
      /\ excused \subseteq excused'
      /\ pc[p] = "wallet" => target[p] \in excused'
  BY DEF fails, collection, IInv, Types, RequestOK
<1>2. RequestShape /\ pc'[p] = "idle" /\ \A q \in Requests \ {p} : Untouched(q)
  BY <1>1, EndedShape DEF IInv
<1>3. RequestOK(p)'
  BY <1>2 DEF RequestOK
<1>4. hashes' \in Nat
  BY <1>1 DEF IInv, Types
<1> QED BY <1>1, <1>2, <1>3, <1>4, QuietStep

-----------------------------------------------------------------------------
(* The insertion: the id is new, so nothing that is under way names it.    *)
LEMMA InsertStep ==
    ASSUME IInv, NEW p \in Requests, insert(p)
    PROVE  IInv'
<1>1. CASE Holders(change[p].email) # {} /\ Ended(p) /\ UNCHANGED <<users, used, document>>
  <2>1. UNCHANGED <<wallets, hashes, excused>> /\ pc[p] = "insert"
    BY DEF insert
  <2>2. RequestShape /\ pc'[p] = "idle" /\ \A q \in Requests \ {p} : Untouched(q)
    BY <1>1, EndedShape DEF IInv
  <2>3. RequestOK(p)' /\ hashes' \in Nat
    BY <2>1, <2>2 DEF RequestOK, IInv, Types
  <2> QED BY <1>1, <2>1, <2>2, <2>3, QuietStep
<1>2. ASSUME NEW u \in Ids \ used,
             users' = users \cup {u}, used' = used \cup {u},
             document' = [document EXCEPT ![u] = change[p]],
             Holders(change[p].email) = {},
             IF change[p].role = "customer"
             THEN /\ Goto(p, "wallet")
                  /\ target' = [target EXCEPT ![p] = u]
                  /\ change' = [change EXCEPT ![p] = Nothing]
                  /\ UNCHANGED <<asks, stale>>
             ELSE Ended(p)
      PROVE  IInv'
  <2>1. /\ pc[p] = "insert" /\ change[p] \in Accounts
        /\ UNCHANGED <<wallets, hashes, excused>>
    BY DEF insert, IInv, RequestOK
  <2>2. /\ u \notin users /\ DOMAIN document' = Ids /\ document'[u] = change[p]
        /\ \A v \in Ids \ {u} : document'[v] = document[v]
    BY <1>2 DEF IInv, Types
  <2>3. /\ RequestShape /\ \A q \in Requests \ {p} : Untouched(q)
        /\ \/ pc'[p] = "wallet" /\ target'[p] = u
           \/ pc'[p] = "idle" /\ change[p].role # "customer"
    <3>1. CASE change[p].role = "customer"
      <4>1. /\ pc' \in [Requests -> Steps] /\ pc'[p] = "wallet" /\ target'[p] = u
            /\ DOMAIN target' = Requests /\ DOMAIN change' = Requests /\ DOMAIN asks' = Requests
            /\ \A q \in Requests \ {p} :
                  /\ pc'[q] = pc[q] /\ target'[q] = target[q]
                  /\ change'[q] = change[q] /\ asks'[q] = asks[q]
            /\ UNCHANGED stale
        BY <1>2, <3>1 DEF Goto, IInv, Types, Steps
      <4> QED BY <4>1 DEF RequestShape, Untouched, IInv, Types
    <3>2. CASE change[p].role # "customer"
      BY <1>2, <3>2, EndedShape DEF IInv
    <3> QED BY <3>1, <3>2
  <2>4. Types'
    BY <1>2, <2>1, <2>2, <2>3, AccountShape DEF IInv, Types, RequestShape
  <2>5. \A v : Settled(v) => Settled(v)'
    BY <2>1, <2>3, SettledKept DEF Untouched
  <2>6. \A q \in Requests : RequestOK(q)'
    <3>1. RequestOK(p)'
      BY <1>2, <2>3 DEF RequestOK
    <3>2. \A q \in Requests \ {p} : RequestOK(q)'
      BY <1>2, <2>2, <2>3, <2>5, OthersKeep DEF IInv, Types
    <3> QED BY <3>1, <3>2
  <2>7. EmailUnique'
    <3>1. \A v \in users : v \in Ids /\ v # u /\ document'[v] = document[v]
      BY <2>2 DEF IInv, Types
    <3>2. \A v \in users : document'[v].email # document'[u].email
      BY <1>2, <2>2, <3>1 DEF Holders
    <3> QED BY <1>2, <3>1, <3>2 DEF IInv, EmailUnique
  <2>8. WalletFollows'
    <3> SUFFICES ASSUME NEW v \in users', document'[v].role = "customer"
                 PROVE  Settled(v)'
      BY DEF WalletFollows, Settled
    <3>1. CASE v = u
      BY <2>2, <2>3, <3>1 DEF Settled, GetsWallet
    <3>2. CASE v # u
      BY <1>2, <2>2, <2>5, <3>2, CustomerSettled DEF IInv, Types
    <3> QED BY <3>1, <3>2
  <2> QED BY <2>4, <2>6, <2>7, <2>8 DEF IInv
<1> QED BY <1>1, <1>2 DEF insert

-----------------------------------------------------------------------------
(* A change begins with fields it asks for, over a copy of its user.       *)
LEMMA LoadStep ==
    ASSUME IInv, NEW p \in Requests, NEW u \in Ids, NEW next \in {"prepare", "merge"},
           NEW fields, NEW asked, Load(p, u, next, fields, asked),
           DOMAIN fields \subseteq Fields,
           \A f \in DOMAIN fields \ asked : fields[f] = document[u][f],
           next = "merge" => DOMAIN fields \subseteq asked /\ "password" \notin asked
    PROVE  IInv'
<1>1. /\ UNCHANGED <<users, document, used, wallets, stale, hashes, excused>>
      /\ pc[p] = "idle" /\ u \in users
  BY DEF Load, collection
<1>2. /\ pc' \in [Requests -> Steps] /\ pc'[p] = next
      /\ target'[p] = u /\ change'[p] = fields /\ asks'[p] = asked
      /\ DOMAIN target' = Requests /\ DOMAIN change' = Requests /\ DOMAIN asks' = Requests
      /\ \A q \in Requests \ {p} :
            /\ pc'[q] = pc[q] /\ target'[q] = target[q]
            /\ change'[q] = change[q] /\ asks'[q] = asks[q]
  BY DEF Load, IInv, Types, Goto, Steps
<1>3. RequestShape /\ \A q \in Requests \ {p} : Untouched(q)
  BY <1>1, <1>2 DEF RequestShape, Untouched, IInv, Types
<1>4. RequestOK(p)'
  <2>1. u \in used /\ document[u].password # Plaintext
    BY <1>1 DEF IInv, Types
  <2>2. CopyOK(p)'
    <3>1. Settled(u) => Settled(u)'
      BY <1>1, <1>2, SettledKept
    <3>2. "role" \in DOMAIN fields \ asked /\ fields["role"] = "customer" => Settled(u)'
      BY <1>1, <3>1, CustomerSettled
    <3> QED BY <1>1, <1>2, <3>2 DEF CopyOK
  <2>3. PasswordOK(p)'
    BY <1>2, <2>1 DEF PasswordOK
  <2> QED BY <1>1, <1>2, <2>1, <2>2, <2>3 DEF RequestOK
<1>5. hashes' \in Nat
  BY <1>1 DEF IInv, Types
<1> QED BY <1>1, <1>3, <1>4, <1>5, QuietStep

LEMMA LoadWholeStep ==
    ASSUME IInv, NEW p \in Requests, NEW u \in Ids, NEW fields, NEW asked,
           LoadWhole(p, u, fields, asked),
           DOMAIN fields \subseteq asked, asked \subseteq Fields
    PROVE  IInv'
<1> DEFINE copy == Mapped(document[u])
<1>1. /\ DOMAIN copy \subseteq Fields
      /\ \A f \in DOMAIN copy : copy[f] = document[u][f]
  BY MappedShape
<1>2. Load(p, u, "prepare", Over(fields, copy), asked)
  BY DEF LoadWhole
<1> HIDE DEF copy
<1> DEFINE whole == Over(fields, copy)
<1>3. /\ DOMAIN whole = DOMAIN fields \cup DOMAIN copy
      /\ \A f \in DOMAIN copy \ DOMAIN fields : whole[f] = copy[f]
  BY OverShape
<1>4. Load(p, u, "prepare", whole, asked)
  BY <1>2
<1> HIDE DEF whole
<1>5. DOMAIN whole \subseteq Fields
  BY <1>1, <1>3
<1>6. \A f \in DOMAIN whole \ asked : whole[f] = document[u][f]
  BY <1>1, <1>3
<1> QED BY <1>4, <1>5, <1>6, LoadStep

LEMMA ChangeStep ==
    ASSUME IInv, NEW p \in Requests, NEW u \in Ids, Change(p, u)
    PROVE  IInv'
<1> DEFINE S(s) == [status |-> s]
           E(e) == [email |-> e]
           R(x) == [role |-> x]
           W == [password |-> Plaintext]
<1>1. /\ \A s : DOMAIN S(s) = {"status"}
      /\ \A e : DOMAIN E(e) = {"email"}
      /\ \A x : DOMAIN R(x) = {"role"}
      /\ DOMAIN W = {"password"}
  OBVIOUS
<1>2. CASE confirmEmail(p, u)
  <2>1. LoadWhole(p, u, S("active"), {"status"})
    BY <1>2 DEF confirmEmail
  <2> HIDE DEF S
  <2> QED BY <1>1, <2>1, LoadWholeStep DEF Fields
<1>3. CASE confirmNewEmail(p, u)
  <2>1. PICK e \in Emails :
            LoadWhole(p, u, [email |-> e, status |-> "active"], {"email", "status"})
    BY <1>3 DEF confirmNewEmail
  <2> DEFINE B == [email |-> e, status |-> "active"]
  <2>2. DOMAIN B = {"email", "status"} /\ LoadWhole(p, u, B, {"email", "status"})
    BY <2>1
  <2> HIDE DEF B
  <2> QED BY <2>2, LoadWholeStep DEF Fields
<1>4. CASE resetPassword(p, u)
  <2>1. LoadWhole(p, u, W, {"password"})
    BY <1>4 DEF resetPassword
  <2> HIDE DEF W
  <2> QED BY <1>1, <2>1, LoadWholeStep DEF Fields
<1>5. CASE validateSocialLogin(p, u)
  <2>1. PICK e : LoadWhole(p, u, E(e), {"email"})
    BY <1>5 DEF validateSocialLogin
  <2> HIDE DEF E
  <2> QED BY <1>1, <2>1, LoadWholeStep DEF Fields
<1>6. CASE update(p, u)
  <2>1. Load(p, u, "prepare", W, {"password"})
    BY <1>6 DEF update
  <2> HIDE DEF W
  <2> QED BY <1>1, <2>1, LoadStep DEF Fields
<1>7. CASE updateUser(p, u)
  <2>1. PICK e \in Emails : Load(p, u, "prepare", E(e), {"email"})
    BY <1>7 DEF updateUser
  <2> HIDE DEF E
  <2> QED BY <1>1, <2>1, LoadStep DEF Fields
<1>8. CASE patchUser(p, u)
  <2>1. \/ \E s : Load(p, u, "prepare", S(s), {"status"})
        \/ \E x : Load(p, u, "prepare", R(x), {"role"})
    BY <1>8 DEF patchUser
  <2> HIDE DEF S, R
  <2> QED BY <1>1, <2>1, LoadStep DEF Fields
<1>9. CASE approveAgent(p, u)
  <2>1. Load(p, u, "merge", S("active"), {"status"})
    BY <1>9 DEF approveAgent
  <2> HIDE DEF S
  <2> QED BY <1>1, <2>1, LoadStep DEF Fields
<1> QED BY <1>2, <1>3, <1>4, <1>5, <1>6, <1>7, <1>8, <1>9 DEF Change

-----------------------------------------------------------------------------
(* A password of a copy that is still the stored one is dropped; any other *)
(* is one that was asked for, or the request is stale.                     *)
LEMMA HashedShape ==
    ASSUME NEW p, NEW stored, hashes \in Nat
    PROVE  LET c == change[p]  h == Hashed(p, stored) IN
           /\ DOMAIN h \subseteq DOMAIN c
           /\ \A f \in DOMAIN h \ {"password"} : h[f] = c[f]
           /\ "password" \in DOMAIN h =>
                /\ h["password"] # Plaintext
                /\ c["password"] = Plaintext \/ c["password"] # stored
<1> DEFINE c == change[p]
           h == Hashed(p, stored)
<1>1. CASE "password" \notin DOMAIN c
  BY <1>1 DEF Hashed
<1>2. CASE "password" \in DOMAIN c /\ c["password"] = Plaintext
  <2>1. h = [c EXCEPT !["password"] = hashes + 1]
    BY <1>2 DEF Hashed
  <2>2. hashes + 1 # Plaintext
    BY DEF Plaintext
  <2> QED BY <1>2, <2>1, <2>2
<1>3. CASE "password" \in DOMAIN c /\ c["password"] # Plaintext /\ c["password"] = stored
  <2>1. h = [f \in DOMAIN c \ {"password"} |-> c[f]]
    BY <1>3 DEF Hashed
  <2> QED BY <2>1
<1>4. CASE "password" \in DOMAIN c /\ c["password"] # Plaintext /\ c["password"] # stored
  <2>1. h = [c EXCEPT !["password"] = Rehashed]
    BY <1>4 DEF Hashed
  <2>2. Rehashed # Plaintext
    BY DEF Rehashed, Plaintext
  <2> QED BY <1>4, <2>1, <2>2
<1> QED BY <1>1, <1>2, <1>3, <1>4

LEMMA PrepareStep ==
    ASSUME IInv, NEW p \in Requests, prepare(p)
    PROVE  IInv'
<1>1. UNCHANGED <<users, document, used, wallets, excused>> /\ pc[p] = "prepare"
  BY DEF prepare, collection
<1>2. CASE Ended(p) /\ UNCHANGED hashes
  <2>1. RequestShape /\ pc'[p] = "idle" /\ \A q \in Requests \ {p} : Untouched(q)
    BY <1>2, EndedShape DEF IInv
  <2>2. RequestOK(p)' /\ hashes' \in Nat
    BY <1>2, <2>1 DEF RequestOK, IInv, Types
  <2> QED BY <1>1, <2>1, <2>2, QuietStep
<1>3. ASSUME target[p] \in users,
             hashes' = IF Hashes(p) THEN hashes + 1 ELSE hashes,
             change' = [change EXCEPT ![p] = Hashed(p, document[target[p]].password)],
             Goto(p, "write"), UNCHANGED <<target, asks, stale>>
      PROVE  IInv'
  <2> DEFINE c == change[p]
             h == Hashed(p, document[target[p]].password)
  <2>1. /\ DOMAIN h \subseteq DOMAIN c
        /\ \A f \in DOMAIN h \ {"password"} : h[f] = c[f]
        /\ "password" \in DOMAIN h =>
              /\ h["password"] # Plaintext
              /\ c["password"] = Plaintext \/ c["password"] # document[target[p]].password
    BY HashedShape DEF IInv, Types
  <2>2. /\ pc' \in [Requests -> Steps] /\ pc'[p] = "write" /\ change'[p] = h
        /\ DOMAIN change' = Requests
        /\ \A q \in Requests \ {p} : pc'[q] = pc[q] /\ change'[q] = change[q]
    BY <1>3 DEF Goto, IInv, Types, Steps
  <2> HIDE DEF h
  <2>3. RequestShape /\ \A q \in Requests \ {p} : Untouched(q)
    BY <1>3, <2>2 DEF RequestShape, Untouched, IInv, Types
  <2>4. CopyOK(p) /\ PasswordOK(p) /\ target[p] \in used
    BY <1>1 DEF IInv, RequestOK
  <2>5. CopyOK(p)'
    <3>1. /\ DOMAIN h \subseteq Fields
          /\ "role" \in DOMAIN h \ asks[p] /\ h["role"] = "customer" => Settled(target[p])
      BY <2>1, <2>4 DEF CopyOK
    <3>3. \A u : Settled(u) => Settled(u)'
      BY <1>1, <2>3, SettledKept DEF Untouched
    <3>2. ASSUME ~stale[p], NEW f \in DOMAIN h \ asks[p]
          PROVE  h[f] = document[target[p]][f]
      <4>1. f \in DOMAIN c /\ c[f] = document[target[p]][f]
        BY <1>3, <2>1, <2>4, <3>2 DEF CopyOK
      <4>2. f # "password"
        BY <2>1, <2>4, <3>2, <4>1 DEF PasswordOK
      <4> QED BY <2>1, <4>1, <4>2
    <3> QED BY <1>1, <1>3, <2>2, <3>1, <3>2, <3>3 DEF CopyOK
  <2>6. PasswordOK(p)'
    BY <2>1, <2>2 DEF PasswordOK
  <2>7. RequestOK(p)' /\ hashes' \in Nat
    BY <1>1, <1>3, <2>2, <2>4, <2>5, <2>6 DEF RequestOK, IInv, Types
  <2> QED BY <1>1, <2>3, <2>7, QuietStep
<1> QED BY <1>2, <1>3 DEF prepare

LEMMA MergeStep ==
    ASSUME IInv, NEW p \in Requests, merge(p)
    PROVE  IInv'
<1>1. UNCHANGED <<users, document, used, wallets, hashes, excused>> /\ pc[p] = "merge"
  BY DEF merge, collection
<1>2. CASE Ended(p)
  <2>1. RequestShape /\ pc'[p] = "idle" /\ \A q \in Requests \ {p} : Untouched(q)
    BY <1>2, EndedShape DEF IInv
  <2>2. RequestOK(p)' /\ hashes' \in Nat
    BY <1>1, <2>1 DEF RequestOK, IInv, Types
  <2> QED BY <1>1, <2>1, <2>2, QuietStep
<1>3. ASSUME target[p] \in users,
             change' = [change EXCEPT ![p] = Over(@, Mapped(document[target[p]]))],
             Goto(p, "write"), stale' = [stale EXCEPT ![p] = FALSE],
             UNCHANGED <<target, asks>>
      PROVE  IInv'
  <2> DEFINE copy == Mapped(document[target[p]])
             whole == Over(change[p], copy)
  <2>1. /\ DOMAIN copy \subseteq Fields
        /\ \A f \in DOMAIN copy : copy[f] = document[target[p]][f]
    BY MappedShape
  <2>2. /\ DOMAIN whole = DOMAIN change[p] \cup DOMAIN copy
        /\ \A f \in DOMAIN copy \ DOMAIN change[p] : whole[f] = copy[f]
    BY OverShape
  <2>3. /\ pc' \in [Requests -> Steps] /\ pc'[p] = "write" /\ change'[p] = whole
        /\ DOMAIN change' = Requests
        /\ \A q \in Requests \ {p} : pc'[q] = pc[q] /\ change'[q] = change[q]
    BY <1>3 DEF Goto, IInv, Types, Steps
  <2> HIDE DEF copy, whole
  <2>4. stale' \in [Requests -> BOOLEAN] /\ \A q \in Requests \ {p} : stale'[q] = stale[q]
    BY <1>3 DEF IInv, Types
  <2>5. RequestShape /\ \A q \in Requests \ {p} : Untouched(q)
    BY <1>3, <2>3, <2>4 DEF RequestShape, Untouched, IInv, Types
  <2>6. /\ CopyOK(p) /\ target[p] \in used
        /\ DOMAIN change[p] \subseteq asks[p] /\ "password" \notin asks[p]
    BY <1>1 DEF IInv, RequestOK
  <2>7. /\ DOMAIN whole \subseteq Fields
        /\ \A f \in DOMAIN whole \ asks[p] : whole[f] = document[target[p]][f]
    BY <2>1, <2>2, <2>6 DEF CopyOK
  <2>8. CopyOK(p)'
    <3>1. "role" \in DOMAIN whole \ asks[p] /\ whole["role"] = "customer" => Settled(target[p])
      BY <1>3, <2>7, CustomerSettled
    <3>2. \A u : Settled(u) => Settled(u)'
      BY <1>1, <2>5, SettledKept DEF Untouched
    <3> QED BY <1>1, <1>3, <2>3, <2>7, <3>1, <3>2 DEF CopyOK
  <2>9. PasswordOK(p)'
    <3>1. document[target[p]].password # Plaintext
      BY <1>3 DEF IInv, Types
    <3> QED BY <2>3, <2>6, <2>7, <3>1 DEF PasswordOK
  <2>10. RequestOK(p)' /\ hashes' \in Nat
    BY <1>1, <1>3, <2>3, <2>6, <2>8, <2>9 DEF RequestOK, IInv, Types
  <2> QED BY <1>1, <2>5, <2>10, QuietStep
<1> QED BY <1>2, <1>3 DEF merge

-----------------------------------------------------------------------------
(* What a write does to the documents, and to requests that hold a copy.   *)
LEMMA WriteShape ==
    ASSUME IInv, NEW p \in Requests, write(p)
    PROVE  LET u == target[p] IN
           /\ u \in used /\ CopyOK(p) /\ PasswordOK(p) /\ pc[p] = "write"
           /\ DOMAIN document' = Ids
           /\ \A v \in Ids \ {u} : document'[v] = document[v]
           /\ \/ document'[u] = document[u]
              \/ /\ u \in users /\ ~Rejected(p)
                 /\ DOMAIN document'[u] = Fields
                 /\ \A f \in DOMAIN change[p] : document'[u][f] = change[p][f]
                 /\ \A f \in Fields \ DOMAIN change[p] : document'[u][f] = document[u][f]
<1> DEFINE u == target[p]
           d == Over(change[p], document[u])
<1>1. /\ u \in used /\ CopyOK(p) /\ PasswordOK(p) /\ pc[p] = "write" /\ u \in Ids
      /\ DOMAIN document = Ids /\ DOMAIN document[u] = Fields
  BY DEF write, IInv, RequestOK, Types
<1>2. /\ DOMAIN d = DOMAIN change[p] \cup DOMAIN document[u]
      /\ \A f \in DOMAIN change[p] : d[f] = change[p][f]
      /\ \A f \in DOMAIN document[u] \ DOMAIN change[p] : d[f] = document[u][f]
  BY OverShape
<1>3. \/ document' = document
      \/ u \in users /\ ~Rejected(p) /\ document' = [document EXCEPT ![u] = d]
  BY DEF write
<1> HIDE DEF d
<1>4. DOMAIN d = Fields
  BY <1>1, <1>2 DEF CopyOK
<1> QED BY <1>1, <1>2, <1>3, <1>4

LEMMA StaleShape ==
    ASSUME IInv, NEW p \in Requests, write(p)
    PROVE  /\ RequestShape /\ pc'[p] = "idle"
           /\ \A q \in Requests \ {p} :
                 /\ pc'[q] = pc[q] /\ target'[q] = target[q]
                 /\ change'[q] = change[q] /\ asks'[q] = asks[q]
                 /\ stale'[q] <=> stale[q] \/ (Holds(q, target[p]) /\ document' # document)
<1>1. /\ pc' \in [Requests -> Steps] /\ pc'[p] = "idle"
      /\ DOMAIN target' = Requests /\ DOMAIN change' = Requests /\ DOMAIN asks' = Requests
      /\ \A q \in Requests \ {p} :
            /\ pc'[q] = pc[q] /\ target'[q] = target[q]
            /\ change'[q] = change[q] /\ asks'[q] = asks[q]
  BY DEF write, Goto, IInv, Types, Steps
<1> DEFINE S(q) == q # p /\ (stale[q] \/ (Holds(q, target[p]) /\ document' # document))
<1>2. stale' = [q \in Requests |-> S(q)]
  BY Zenon DEF write
<1>3. \A q \in Requests : S(q) \in BOOLEAN
  OBVIOUS
<1>4. \A q \in Requests : q # p =>
         (S(q) <=> stale[q] \/ (Holds(q, target[p]) /\ document' # document))
  OBVIOUS
<1> HIDE DEF S
<1>5. stale' \in [Requests -> BOOLEAN] /\ \A q \in Requests : stale'[q] = S(q)
  BY <1>2, <1>3, Zenon
<1>6. \A q \in Requests : q # p =>
         (stale'[q] <=> stale[q] \/ (Holds(q, target[p]) /\ document' # document))
  BY <1>4, <1>5, Zenon
<1> QED BY <1>1, <1>5, <1>6 DEF RequestShape

LEMMA WriteStep ==
    ASSUME IInv, NEW p \in Requests, write(p)
    PROVE  IInv'
<1> DEFINE u == target[p]
<1>1. /\ UNCHANGED <<users, used, wallets, hashes>>
      /\ excused \subseteq excused'
      /\ BecomesCustomer(p) => u \in excused'
  BY DEF write
<1>2. /\ u \in used /\ u \in Ids /\ CopyOK(p) /\ PasswordOK(p) /\ pc[p] = "write"
      /\ DOMAIN document' = Ids
      /\ \A v \in Ids \ {u} : document'[v] = document[v]
  BY WriteShape DEF IInv, Types
<1>3. \/ document'[u] = document[u]
      \/ /\ u \in users /\ ~Rejected(p)
         /\ DOMAIN document'[u] = Fields
         /\ \A f \in DOMAIN change[p] : document'[u][f] = change[p][f]
         /\ \A f \in Fields \ DOMAIN change[p] : document'[u][f] = document[u][f]
  BY WriteShape
<1>4. /\ RequestShape /\ pc'[p] = "idle"
      /\ \A q \in Requests \ {p} :
            /\ pc'[q] = pc[q] /\ target'[q] = target[q]
            /\ change'[q] = change[q] /\ asks'[q] = asks[q]
            /\ stale'[q] <=> stale[q] \/ (Holds(q, u) /\ document' # document)
  BY StaleShape
<1>5. document'[u].password # Plaintext /\ DOMAIN document'[u] = Fields
  <2>1. document[u].password # Plaintext /\ DOMAIN document[u] = Fields
    BY <1>2 DEF IInv, Types
  <2>2. "password" \in Fields
    BY DEF Fields
  <2>3. "password" \in DOMAIN change[p] => change[p]["password"] # Plaintext
    BY <1>2 DEF PasswordOK
  <2> QED BY <1>3, <2>1, <2>2, <2>3
<1>6. Types'
  BY <1>1, <1>2, <1>4, <1>5 DEF IInv, Types, RequestShape
<1>7. \A v : Settled(v) => Settled(v)'
  <2>1. \A q \in Requests \ {p} : pc'[q] = pc[q] /\ target'[q] = target[q]
    BY <1>4
  <2>2. pc[p] # "wallet" /\ wallets \subseteq wallets'
    BY <1>1, <1>2
  <2> QED BY <1>1, <2>1, <2>2, SettledKept
<1>8. \A q \in Requests : RequestOK(q)'
  <2>1. RequestOK(p)'
    BY <1>4 DEF RequestOK
  <2>2. ASSUME NEW q \in Requests \ {p} PROVE RequestOK(q)'
    <3>1. RequestOK(q)
      BY DEF IInv
    <3>2. CASE document' = document
      <4>1. Untouched(q)
        BY <1>4, <3>2 DEF Untouched
      <4> QED BY <1>1, <1>7, <3>2, <4>1, OthersKeep
    <3>3. CASE document' # document /\ pc[q] \in {"prepare", "merge", "write"}
      <4>1. CopyOK(q) /\ PasswordOK(q) /\ target[q] \in used /\ target[q] \in Ids
        BY <3>1, <3>3 DEF RequestOK, IInv, Types
      <4>3. stale'[q] \/ document'[target[q]] = document[target[q]]
        BY <1>2, <1>4, <3>3, <4>1 DEF Holds
      <4>4. stale[q] => stale'[q]
        BY <1>4
      <4>5. CopyOK(q)'
        BY <1>1, <1>4, <1>7, <4>1, <4>3, <4>4 DEF CopyOK
      <4>6. PasswordOK(q)'
        BY <1>4, <4>1 DEF PasswordOK
      <4> QED BY <1>1, <1>4, <3>1, <3>3, <4>5, <4>6 DEF RequestOK
    <3>4. CASE pc[q] \notin {"prepare", "merge", "write"}
      BY <1>1, <1>4, <3>1, <3>4 DEF RequestOK
    <3> QED BY <3>2, <3>3, <3>4
  <2> QED BY <2>1, <2>2
<1>9. EmailUnique'
  <2> SUFFICES ASSUME NEW v \in users, NEW w \in users, v # w,
                      document'[v].email = document'[w].email
               PROVE  FALSE
    BY <1>1 DEF EmailUnique
  <2>1. v \in Ids /\ w \in Ids /\ document[v].email # document[w].email
    BY DEF IInv, Types, EmailUnique
  <2>2. \A x \in users \ {u} : document'[x] = document[x]
    BY <1>2 DEF IInv, Types
  <2>3. document'[u] # document[u] /\ u \in users /\ (v = u \/ w = u)
    BY <1>3, <2>1, <2>2
  <2>4. "email" \in DOMAIN change[p] /\ document'[u].email = change[p]["email"]
    BY <1>3, <2>1, <2>2, <2>3 DEF Fields
  <2>5. \A x \in users \ {u} : document[x].email # change[p]["email"]
    BY <1>3, <2>3, <2>4 DEF Rejected, Holders
  <2> QED BY <2>2, <2>3, <2>4, <2>5
<1>10. WalletFollows'
  <2> SUFFICES ASSUME NEW v \in users, document'[v].role = "customer"
               PROVE  Settled(v)'
    BY <1>1 DEF WalletFollows, Settled
  <2>1. CASE document[v].role = "customer"
    BY <1>7, <2>1, CustomerSettled
  <2>2. CASE document[v].role # "customer"
    <3>1. v = u /\ "role" \in DOMAIN change[p] /\ change[p]["role"] = "customer"
      BY <1>2, <1>3, <2>2 DEF IInv, Types, Fields
    <3>2. CASE "role" \in asks[p]
      <4>1. BecomesCustomer(p)
        BY <3>1, <3>2 DEF BecomesCustomer
      <4>2. v \in excused'
        BY <1>1, <3>1, <4>1
      <4> QED BY <4>2 DEF Settled
    <3>3. CASE "role" \notin asks[p]
      BY <1>2, <1>7, <3>1, <3>3 DEF CopyOK
    <3> QED BY <3>2, <3>3
  <2> QED BY <2>1, <2>2
<1> QED BY <1>6, <1>8, <1>9, <1>10 DEF IInv

LEMMA RemoveStep ==
    ASSUME IInv, NEW u \in Ids, remove(u)
    PROVE  IInv'
<1>1. /\ UNCHANGED <<used, wallets, requests, hashes, excused>>
      /\ users' = users \ {u} /\ document' = [document EXCEPT ![u] = Blank]
  BY DEF remove
<1>2. Types'
  BY <1>1, BlankShape DEF IInv, Types, requests
<1>3. \A q \in Requests : RequestOK(q)'
  <2> SUFFICES ASSUME NEW q \in Requests PROVE RequestOK(q)'
    OBVIOUS
  <2>1. Untouched(q)
    BY <1>1 DEF Untouched, requests
  <2>2. \A v \in used : v \in users' => v \in users /\ document'[v] = document[v]
    BY <1>1 DEF IInv, Types
  <2>3. \A v : Settled(v) => Settled(v)'
    BY <1>1, SettledUnchanged
  <2> QED BY <1>1, <2>1, <2>2, <2>3, OthersKeep
<1>4. EmailUnique' /\ WalletFollows'
  <2>1. \A v \in users' : v \in users /\ document'[v] = document[v]
    BY <1>1 DEF IInv, Types
  <2> QED BY <1>1, <2>1 DEF IInv, EmailUnique, WalletFollows, GetsWallet, requests
<1> QED BY <1>2, <1>3, <1>4 DEF IInv

-----------------------------------------------------------------------------
LEMMA NextIInv == ASSUME IInv, [Next]_vars PROVE IInv'
<1>1. ASSUME NEW p \in Requests, Creation(p) PROVE IInv'
  BY <1>1, CreateStep, InsertStep, CreateWalletStep DEF Creation
<1>2. ASSUME NEW p \in Requests, NEW u \in Ids, Change(p, u) PROVE IInv'
  BY <1>2, ChangeStep
<1>3. ASSUME NEW p \in Requests, prepare(p) PROVE IInv'
  BY <1>3, PrepareStep
<1>4. ASSUME NEW p \in Requests, merge(p) PROVE IInv'
  BY <1>4, MergeStep
<1>5. ASSUME NEW p \in Requests, write(p) PROVE IInv'
  BY <1>5, WriteStep
<1>6. ASSUME NEW p \in Requests, fails(p) PROVE IInv'
  BY <1>6, FailsStep
<1>7. ASSUME NEW u \in Ids, remove(u) PROVE IInv'
  BY <1>7, RemoveStep
<1>8. CASE UNCHANGED vars
  <2>1. UNCHANGED <<users, document, used, wallets, excused, hashes, requests>>
    BY <1>8 DEF vars, collection
  <2>2. Types' /\ EmailUnique' /\ WalletFollows'
    BY <2>1 DEF IInv, Types, EmailUnique, WalletFollows, GetsWallet, requests
  <2>3. \A q \in Requests : RequestOK(q)'
    <3> SUFFICES ASSUME NEW q \in Requests PROVE RequestOK(q)'
      OBVIOUS
    <3>1. Untouched(q)
      BY <2>1 DEF Untouched, requests
    <3> QED BY <2>1, <3>1, OthersKeep, SettledUnchanged
  <2> QED BY <2>2, <2>3 DEF IInv
<1> QED BY <1>1, <1>2, <1>3, <1>4, <1>5, <1>6, <1>7, <1>8 DEF Next

(* The step of ChangesAsked.                                               *)
Asked ==
    \A u \in users \cap users', f \in Fields :
        document'[u][f] # document[u][f] =>
            \E p \in Requests :
                /\ pc[p] = "write" /\ target[p] = u
                /\ f \in asks[p] \/ stale[p]

LEMMA NextAsked == ASSUME IInv, [Next]_vars PROVE Asked
<1> SUFFICES ASSUME NEW u \in users \cap users', NEW f \in Fields,
                    document'[u][f] # document[u][f]
             PROVE  \E p \in Requests :
                       /\ pc[p] = "write" /\ target[p] = u
                       /\ f \in asks[p] \/ stale[p]
  BY DEF Asked
<1>1. u \in Ids /\ u \in used
  BY DEF IInv, Types
<1>2. ASSUME NEW p \in Requests, write(p)
      PROVE  \E q \in Requests :
                /\ pc[q] = "write" /\ target[q] = u
                /\ f \in asks[q] \/ stale[q]
  <2>1. /\ CopyOK(p) /\ pc[p] = "write" /\ target[p] = u
        /\ f \in DOMAIN change[p] /\ document'[u][f] = change[p][f]
    BY <1>1, <1>2, WriteShape
  <2>2. f \in asks[p] \/ stale[p]
    BY <2>1 DEF CopyOK
  <2> QED BY <2>1, <2>2
<1>3. ASSUME NEW p \in Requests, insert(p) PROVE FALSE
  <2>1. PICK v \in Ids : v \notin used /\ (document' = document
                                           \/ document' = [document EXCEPT ![v] = change[p]])
    BY <1>1, <1>3 DEF insert
  <2> QED BY <1>1, <2>1 DEF IInv, Types
<1>4. ASSUME NEW v \in Ids, remove(v) PROVE FALSE
  BY <1>1, <1>4 DEF remove, IInv, Types
<1>5. CASE UNCHANGED document
  BY <1>5
<1>6. ASSUME NEW p \in Requests, Creation(p) PROVE insert(p) \/ UNCHANGED document
  BY <1>6 DEF Creation, create, createWallet, collection
<1>7. ASSUME NEW p \in Requests, NEW v \in Ids, Change(p, v) PROVE UNCHANGED document
  BY <1>7 DEF Change, confirmEmail, confirmNewEmail, resetPassword, validateSocialLogin, update,
              updateUser, patchUser, approveAgent, LoadWhole, Load, collection
<1>8. ASSUME NEW p \in Requests, prepare(p) \/ merge(p) \/ fails(p) PROVE UNCHANGED document
  BY <1>8 DEF prepare, merge, fails, collection
<1> QED BY <1>2, <1>3, <1>4, <1>5, <1>6, <1>7, <1>8 DEF Next, vars, collection

-----------------------------------------------------------------------------
LEMMA SpecIInv == Spec => []IInv
<1>1. Init => IInv
  BY InitIInv
<1>2. IInv /\ [Next]_vars => IInv'
  BY NextIInv
<1> QED BY <1>1, <1>2, PTL DEF Spec

(* However look-ups, insertions and writes overlap, no two users hold one  *)
(* address (UsersService.create and update under the unique index).        *)
THEOREM UsersEmailUnique == Spec => []EmailUnique
<1>1. IInv => EmailUnique
  BY DEF IInv
<1> QED BY SpecIInv, <1>1, PTL

(* Every customer has a wallet, whatever roles are patched and stale copies*)
(* written back, unless its creation was cut short or it was a PATCH that  *)
(* asked for the role (UsersService.create and update).                    *)
THEOREM UsersWalletFollows == Spec => []WalletFollows
<1>1. IInv => WalletFollows
  BY DEF IInv
<1> QED BY SpecIInv, <1>1, PTL

(* A field changes by a request that asks for it, or by one that writes    *)
(* back a stale copy (UsersService.update and its repository).             *)
THEOREM UsersChangesAsked == Spec => ChangesAsked
<1>1. IInv /\ [Next]_vars => [Asked]_vars
  BY NextAsked
<1>2. Spec => [][Asked]_vars
  BY SpecIInv, <1>1, PTL DEF Spec
<1> QED BY <1>2 DEF ChangesAsked, Asked
=============================================================================

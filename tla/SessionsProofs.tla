--------------------------- MODULE SessionsProofs ---------------------------
(***************************************************************************)
(* Proofs about Sessions for any number of sessions, codes and requests    *)
(* that overlap, with lost replies and restarts.  Refreshes, changes of    *)
(* the password and codes have an invariant each.                          *)
(***************************************************************************)
EXTENDS Sessions, TLAPS

Steps == {"idle", "session", "rotate", "answer", "markLogin", "markReset",
          "close", "write", "patch", "saveLogin", "saveReset"}

(* What a request remembers.                                               *)
RequestOK(p) ==
    /\ pc[p] = "idle" => code[p] = null
    /\ pc[p] \in {"markLogin", "markReset"} => code[p] \in Codes
    /\ pc[p] \in {"rotate", "answer"} => session[p] \in opened

Types ==
    /\ password \in Nat
    /\ sessions \subseteq opened /\ opened \subseteq Ids
    /\ hash \in [Ids -> Nat] /\ since \in [Ids -> Nat] /\ latest \in [Ids -> Nat]
    /\ otp \in [Codes -> {"none", "valid", "expired", "used"}]
    /\ pc \in [Requests -> Steps]
    /\ session \in [Requests -> Ids \cup {null}]
    /\ code \in [Requests -> Codes \cup {null}]
    /\ mine \in [Requests -> Nat] /\ overlap \in [Requests -> BOOLEAN]
    /\ uses \in [Codes -> Nat]
    /\ \A p \in Requests : RequestOK(p)

(* The refreshes of a session that was not disturbed come one by one.      *)
Refreshing(s) == {p \in Requests : session[p] = s /\ pc[p] \in {"rotate", "answer"}}

RefreshOK(s) ==
    /\ \A p, q \in Refreshing(s) : p = q
    /\ \A p \in Refreshing(s) : /\ pc[p] = "rotate" => latest[s] = hash[s]
                                /\ pc[p] = "answer" => mine[p] = hash[s]
    /\ Refreshing(s) = {} => latest[s] = hash[s]

(* Logins know whether they overlap a change of the password; the others   *)
(* hold the password of today.  A change that is about to write has closed *)
(* every session but the one it spares and those of overlapping logins.    *)
LoginOK(p) ==
    LoggingIn(p) /\ ~overlap[p] => mine[p] = password /\ \A q \in Requests : ~Changing(q)

WriteOK(p) == pc[p] = "write" => sessions \subseteq {session[p]} \cup overlapped

(* A code that was not contested serves one request at a time, and is      *)
(* marked before it is of use.                                             *)
Holding(c) == {p \in Requests : code[p] = c}

CodeOK(c) ==
    /\ \A p, q \in Holding(c) : p = q
    /\ \A p \in Holding(c) :
          otp[c] # "none" /\ (pc[p] \notin {"markLogin", "markReset"} => otp[c] = "used")
    /\ Holding(c) # {} => uses[c] = 0
    /\ uses[c] # 0 => uses[c] = 1 /\ otp[c] = "used"

IInv ==
    /\ Types
    /\ \A s \in sessions \ disturbed : RefreshOK(s)
    /\ \A p \in Requests : LoginOK(p) /\ WriteOK(p)
    /\ PasswordChangeEndsSessions
    /\ \A c \in Codes \ contested : CodeOK(c)

-----------------------------------------------------------------------------
(* Starting and ending a request, and what it knows of overlaps.           *)
LEMMA StartShape ==
    ASSUME Types, NEW p \in Requests, NEW s \in Steps, Start(p, s)
    PROVE  /\ pc[p] = "idle" /\ code[p] = null /\ pc' \in [Requests -> Steps] /\ pc'[p] = s
           /\ \A q \in Requests \ {p} : pc'[q] = pc[q]
  BY DEF Types, Start, Goto, RequestOK

LEMMA GotoShape ==
    ASSUME Types, NEW p \in Requests, NEW s \in Steps, Goto(p, s)
    PROVE  /\ pc' \in [Requests -> Steps] /\ pc'[p] = s
           /\ \A q \in Requests \ {p} : pc'[q] = pc[q]
  BY DEF Types, Goto

Untouched(q) ==
    /\ pc'[q] = pc[q] /\ session'[q] = session[q] /\ code'[q] = code[q]
    /\ mine'[q] = mine[q] /\ (overlap'[q] <=> overlap[q])

LEMMA EndedShape ==
    ASSUME Types, NEW p \in Requests, Ended(p)
    PROVE  /\ pc' \in [Requests -> Steps]
           /\ session' \in [Requests -> Ids \cup {null}]
           /\ code' \in [Requests -> Codes \cup {null}]
           /\ mine' \in [Requests -> Nat] /\ overlap' \in [Requests -> BOOLEAN]
           /\ pc'[p] = "idle" /\ session'[p] = null /\ code'[p] = null
           /\ \A q \in Requests \ {p} : Untouched(q)
<1>1. /\ pc' \in [Requests -> Steps] /\ pc'[p] = "idle"
      /\ \A q \in Requests \ {p} : pc'[q] = pc[q]
  BY GotoShape DEF Ended, Steps
<1>2. /\ session' \in [Requests -> Ids \cup {null}] /\ session'[p] = null
      /\ code' \in [Requests -> Codes \cup {null}] /\ code'[p] = null
      /\ mine' \in [Requests -> Nat]
      /\ \A q \in Requests \ {p} :
            session'[q] = session[q] /\ code'[q] = code[q] /\ mine'[q] = mine[q]
  BY DEF Types, Ended
<1>3. /\ overlap' \in [Requests -> BOOLEAN]
      /\ \A q \in Requests \ {p} : overlap'[q] = overlap[q]
  BY DEF Types, Ended
<1> QED BY <1>1, <1>2, <1>3 DEF Untouched

LEMMA MeetsChanges ==
    ASSUME Types, NEW p \in Requests, Meets(p, TRUE)
    PROVE  /\ overlap' \in [Requests -> BOOLEAN]
           /\ overlap'[p] <=> \E r \in Requests : Changing(r)
           /\ \A q \in Requests \ {p} : overlap'[q] <=> overlap[q]
<1>1. overlap' = [q \in Requests |->
                    IF q = p THEN \E r \in Requests : Changing(r) ELSE overlap[q]]
  BY Zenon DEF Meets
<1>2. overlap \in [Requests -> BOOLEAN]
  BY DEF Types
<1>3. \A q \in Requests : overlap[q] \in BOOLEAN
  BY <1>2
<1>4. (\E r \in Requests : Changing(r)) \in BOOLEAN
  OBVIOUS
<1>5. \A q \in Requests :
         (IF q = p THEN \E r \in Requests : Changing(r) ELSE overlap[q]) \in BOOLEAN
  BY <1>3, <1>4, Zenon
<1>6. overlap' \in [Requests -> BOOLEAN]
  BY <1>1, <1>5, Zenon
<1>7. \A q \in Requests :
         overlap'[q] = IF q = p THEN \E r \in Requests : Changing(r) ELSE overlap[q]
  BY <1>1, Zenon
<1>8. overlap'[p] <=> \E r \in Requests : Changing(r)
  BY <1>7, Zenon
<1>9. \A q \in Requests \ {p} : overlap'[q] = overlap[q]
  BY <1>7, Zenon
<1> QED BY <1>6, <1>8, <1>9, Zenon

LEMMA MeetsLogins ==
    ASSUME Types, NEW p \in Requests, Meets(p, FALSE)
    PROVE  /\ overlap' \in [Requests -> BOOLEAN]
           /\ overlap'[p] <=> overlap[p]
           /\ \A q \in Requests \ {p} : overlap'[q] <=> overlap[q] \/ LoggingIn(q)
<1>1. overlap' = [q \in Requests |-> overlap[q] \/ (q # p /\ LoggingIn(q))]
  BY Zenon DEF Meets
<1>2. \A q \in Requests : (overlap[q] \/ (q # p /\ LoggingIn(q))) \in BOOLEAN
  OBVIOUS
<1>3. overlap' \in [Requests -> BOOLEAN]
  BY <1>1, <1>2, Zenon
<1>4. \A q \in Requests : overlap'[q] <=> overlap[q] \/ (q # p /\ LoggingIn(q))
  BY <1>1, Zenon
<1> QED BY <1>3, <1>4, Zenon

-----------------------------------------------------------------------------
(* What a step has to leave alone for each part of the invariant.          *)
Refreshes == {"rotate", "answer"}
Marks == {"markLogin", "markReset"}
Overlapping == {"session", "markLogin", "markReset", "close", "write", "patch"}

LEMMA RefreshFrame ==
    ASSUME NEW s \in Ids, RefreshOK(s), hash'[s] = hash[s], latest'[s] = latest[s],
           \A q \in Requests :
              \/ pc'[q] = pc[q] /\ session'[q] = session[q] /\ mine'[q] = mine[q]
              \/ pc[q] \notin Refreshes /\ pc'[q] \notin Refreshes
    PROVE  RefreshOK(s)'
<1>1. Refreshing(s)' = Refreshing(s)
  BY DEF Refreshing, Refreshes
<1>2. \A q \in Refreshing(s) : q \in Requests /\ pc'[q] = pc[q] /\ mine'[q] = mine[q]
  BY DEF Refreshing, Refreshes
<1> QED BY <1>1, <1>2 DEF RefreshOK

LEMMA LoginFrame ==
    ASSUME \A q \in Requests : LoginOK(q), password' = password,
           \A q \in Requests :
              \/ pc'[q] = pc[q] /\ mine'[q] = mine[q] /\ (overlap[q] => overlap'[q])
              \/ pc'[q] \notin Overlapping
    PROVE  \A q \in Requests : LoginOK(q)'
<1> SUFFICES ASSUME NEW q \in Requests, LoggingIn(q)', ~overlap'[q]
             PROVE  mine'[q] = password' /\ \A r \in Requests : ~Changing(r)'
  BY DEF LoginOK
<1>1. pc'[q] = pc[q] /\ mine'[q] = mine[q] /\ (overlap[q] => overlap'[q])
  BY DEF LoggingIn, Overlapping
<1>2. LoggingIn(q) /\ ~overlap[q]
  BY <1>1 DEF LoggingIn
<1>3. mine[q] = password /\ \A r \in Requests : ~Changing(r)
  BY <1>2 DEF LoginOK
<1>4. \A r \in Requests : ~Changing(r)'
  BY <1>3 DEF Changing, Overlapping
<1> QED BY <1>1, <1>3, <1>4

LEMMA WriteFrame ==
    ASSUME \A q \in Requests : WriteOK(q), sessions' \subseteq sessions,
           overlapped \subseteq overlapped',
           \A q \in Requests : (pc'[q] = pc[q] /\ session'[q] = session[q]) \/ pc'[q] # "write"
    PROVE  \A q \in Requests : WriteOK(q)'
  BY DEF WriteOK

LEMMA PasswordFrame ==
    ASSUME PasswordChangeEndsSessions, password' = password, sessions' \subseteq sessions,
           kept \subseteq kept', overlapped \subseteq overlapped', since' = since
    PROVE  PasswordChangeEndsSessions'
  BY DEF PasswordChangeEndsSessions

LEMMA CodeFrame ==
    ASSUME NEW c \in Codes, CodeOK(c), uses'[c] = uses[c],
           otp'[c] = otp[c] \/ (otp[c] \in {"none", "valid"} /\ otp'[c] # "none"),
           \A q \in Requests :
              \/ code'[q] = code[q] /\ (pc'[q] = pc[q] \/ pc[q] \notin Marks)
              \/ code'[q] # c
    PROVE  CodeOK(c)'
<1>1. Holding(c)' \subseteq Holding(c)
  BY DEF Holding
<1>2. \A q \in Holding(c)' : pc'[q] = pc[q] \/ pc[q] \notin Marks
  BY DEF Holding
<1>3. \A p, q \in Holding(c)' : p = q
  BY <1>1 DEF CodeOK
<1>4. \A q \in Holding(c)' :
         otp'[c] # "none" /\ (pc'[q] \notin Marks => otp'[c] = "used")
  BY <1>1, <1>2 DEF CodeOK, Marks
<1>5. Holding(c)' # {} => uses'[c] = 0
  BY <1>1 DEF CodeOK
<1>6. uses'[c] # 0 => uses'[c] = 1 /\ otp'[c] = "used"
  BY DEF CodeOK
<1> QED BY <1>3, <1>4, <1>5, <1>6 DEF CodeOK, Marks

(* Everything but the request of a step.                                   *)
Alone(p) == \A q \in Requests \ {p} : Untouched(q)

LEMMA RequestsKept ==
    ASSUME Types, NEW p \in Requests, Alone(p), opened \subseteq opened'
    PROVE  \A q \in Requests \ {p} : RequestOK(q)'
  BY DEF Types, Alone, Untouched, RequestOK

(* The code of a request that reaches its end has served.                  *)
LEMMA CodeUsed ==
    ASSUME IInv, NEW p \in Requests, Ended(p), pc[p] \notin Marks, UNCHANGED <<otp, contested>>,
           uses' = [c \in Codes |-> IF c = code[p] THEN uses[c] + 1 ELSE uses[c]]
    PROVE  \A c \in (Codes \ contested)' : CodeOK(c)'
<1> SUFFICES ASSUME NEW c \in Codes \ contested PROVE CodeOK(c)'
  OBVIOUS
<1>1. CodeOK(c) /\ Types /\ c # null
  BY SessionsAssumption DEF IInv, SessionsAssumption
<1>2. code'[p] = null /\ Alone(p)
  BY <1>1, EndedShape DEF Alone
<1>3. CASE code[p] = c
  <2>1. p \in Holding(c) /\ uses[c] = 0 /\ otp[c] = "used"
    BY <1>1, <1>3 DEF CodeOK, Holding, Marks
  <2>2. Holding(c)' = {}
    BY <1>1, <1>2, <2>1 DEF CodeOK, Holding, Alone, Untouched
  <2>3. uses'[c] = 1 /\ otp'[c] = "used"
    BY <1>3, <2>1
  <2> QED BY <2>2, <2>3 DEF CodeOK
<1>4. CASE code[p] # c
  <2>1. uses'[c] = uses[c] /\ otp'[c] = otp[c]
    BY <1>4
  <2> QED BY <1>1, <1>2, <2>1, CodeFrame DEF Alone, Untouched
<1> QED BY <1>3, <1>4

-----------------------------------------------------------------------------
(* Logins.                                                                 *)
LEMMA ValidateLoginInv ==
    ASSUME IInv, NEW p \in Requests, validateLogin(p)
    PROVE  IInv'
<1> USE DEF IInv
<1>1. /\ pc[p] = "idle" /\ code[p] = null /\ pc' \in [Requests -> Steps] /\ pc'[p] = "session"
      /\ \A q \in Requests \ {p} : pc'[q] = pc[q]
  BY StartShape DEF validateLogin, Steps
<1>2. /\ overlap' \in [Requests -> BOOLEAN]
      /\ overlap'[p] <=> \E r \in Requests : Changing(r)
      /\ \A q \in Requests \ {p} : overlap'[q] <=> overlap[q]
  BY MeetsChanges DEF validateLogin
<1>3. /\ UNCHANGED <<password, sessions, hash, since, opened, otp, session, code, latest,
                     disturbed, overlapped, kept, uses, contested>>
      /\ mine' \in [Requests -> Nat] /\ mine'[p] = password
      /\ \A q \in Requests \ {p} : mine'[q] = mine[q]
  BY DEF validateLogin, document, store, codes, history, Types
<1>4. Alone(p)
  BY <1>1, <1>2, <1>3 DEF Alone, Untouched
<1>5. Types'
  <2>1. RequestOK(p)'
    BY <1>1, <1>3 DEF RequestOK
  <2> QED BY <1>1, <1>2, <1>3, <1>4, <2>1, RequestsKept DEF Types
<1>6. \A s \in (sessions \ disturbed)' : RefreshOK(s)'
  BY <1>1, <1>3, <1>4, RefreshFrame DEF Alone, Untouched, Refreshes, Types
<1>7. \A q \in Requests : LoginOK(q)'
  <2>1. \A r \in Requests : Changing(r)' <=> Changing(r)
    BY <1>1 DEF Changing
  <2>2. LoginOK(p)'
    BY <1>2, <1>3, <2>1 DEF LoginOK
  <2>3. ASSUME NEW q \in Requests \ {p} PROVE LoginOK(q)'
    <3>1. LoginOK(q) /\ Untouched(q)
      BY <1>4 DEF Alone
    <3> QED BY <1>3, <2>1, <3>1 DEF LoginOK, LoggingIn, Untouched
  <2> QED BY <2>2, <2>3
<1>8. \A q \in Requests : WriteOK(q)'
  BY <1>1, <1>3, WriteFrame
<1>9. PasswordChangeEndsSessions'
  BY <1>3, PasswordFrame
<1>10. \A c \in (Codes \ contested)' : CodeOK(c)'
  BY <1>1, <1>3, CodeFrame DEF Marks
<1> QED BY <1>5, <1>6, <1>7, <1>8, <1>9, <1>10

LEMMA CreateSessionInv ==
    ASSUME IInv, NEW p \in Requests, createSession(p)
    PROVE  IInv'
<1> USE DEF IInv
<1>1. /\ pc' \in [Requests -> Steps]
      /\ session' \in [Requests -> Ids \cup {null}]
      /\ code' \in [Requests -> Codes \cup {null}]
      /\ mine' \in [Requests -> Nat] /\ overlap' \in [Requests -> BOOLEAN]
      /\ pc'[p] = "idle" /\ session'[p] = null /\ code'[p] = null
      /\ Alone(p)
  BY EndedShape DEF createSession, Alone
<1>2. PICK s \in Ids \ opened :
          /\ sessions' = sessions \cup {s}
          /\ opened' = opened \cup {s}
          /\ hash' = [hash EXCEPT ![s] = 1] /\ latest' = [latest EXCEPT ![s] = 1]
          /\ since' = [since EXCEPT ![s] = mine[p]]
          /\ overlapped' = IF overlap[p] THEN overlapped \cup {s} ELSE overlapped
  BY DEF createSession
<1>3. /\ pc[p] = "session" /\ UNCHANGED <<password, otp, disturbed, kept, contested>>
      /\ uses' = [c \in Codes |-> IF c = code[p] THEN uses[c] + 1 ELSE uses[c]]
  BY DEF createSession, document, codes
<1>4. Types'
  <2>1. RequestOK(p)'
    BY <1>1 DEF RequestOK
  <2>2. /\ hash' \in [Ids -> Nat] /\ latest' \in [Ids -> Nat] /\ since' \in [Ids -> Nat]
        /\ sessions' \subseteq opened' /\ opened' \subseteq Ids
    BY <1>2 DEF Types
  <2>3. uses' \in [Codes -> Nat]
    BY <1>3 DEF Types
  <2>4. \A q \in Requests : RequestOK(q)'
    BY <1>1, <1>2, <2>1, RequestsKept
  <2> QED BY <1>1, <1>3, <2>2, <2>3, <2>4 DEF Types
<1>5. ASSUME NEW t \in (sessions \ disturbed)' PROVE RefreshOK(t)'
  <2>1. CASE t = s
    <3>1. \A q \in Requests : pc[q] \in {"rotate", "answer"} => session[q] # s
      BY DEF Types, RequestOK
    <3>2. Refreshing(s)' = {}
      BY <1>1, <3>1 DEF Refreshing, Alone, Untouched
    <3>3. hash'[s] = latest'[s]
      BY <1>2 DEF Types
    <3> QED BY <2>1, <3>2, <3>3 DEF RefreshOK
  <2>2. CASE t # s
    <3>1. t \in sessions \ disturbed /\ t \in Ids
      BY <1>2, <1>3, <2>2 DEF Types
    <3>2. hash'[t] = hash[t] /\ latest'[t] = latest[t]
      BY <1>2, <2>2, <3>1 DEF Types
    <3> QED BY <1>1, <1>3, <3>1, <3>2, RefreshFrame DEF Alone, Untouched, Refreshes
  <2> QED BY <2>1, <2>2
<1>6. \A q \in Requests : LoginOK(q)'
  BY <1>1, <1>3, LoginFrame DEF Alone, Untouched, Overlapping
<1>7. ASSUME NEW q \in Requests PROVE WriteOK(q)'
  <2>1. CASE pc'[q] = "write"
    <3>1. q # p /\ pc[q] = "write" /\ session'[q] = session[q] /\ Changing(q)
      BY <1>1, <2>1 DEF Alone, Untouched, Changing
    <3>2. overlap[p]
      <4>1. LoginOK(p) /\ LoggingIn(p)
        BY <1>3 DEF LoggingIn
      <4> QED BY <3>1, <4>1 DEF LoginOK
    <3>3. WriteOK(q)
      OBVIOUS
    <3> QED BY <1>2, <3>1, <3>2, <3>3 DEF WriteOK
  <2> QED BY <2>1 DEF WriteOK
<1>8. PasswordChangeEndsSessions'
  <2> SUFFICES ASSUME NEW t \in sessions', t \notin kept', t \notin overlapped'
               PROVE  since'[t] = password'
    BY DEF PasswordChangeEndsSessions
  <2>1. CASE t = s
    <3>1. ~overlap[p]
      BY <1>2, <2>1
    <3>2. mine[p] = password
      BY <1>3, <3>1 DEF LoginOK, LoggingIn
    <3> QED BY <1>2, <1>3, <2>1, <3>2 DEF Types
  <2>2. CASE t # s
    <3>1. t \in sessions /\ t \notin kept /\ t \notin overlapped /\ t \in Ids
      BY <1>2, <1>3, <2>2 DEF Types
    <3> QED BY <1>2, <1>3, <2>2, <3>1 DEF Types, PasswordChangeEndsSessions
  <2> QED BY <2>1, <2>2
<1>9. \A c \in (Codes \ contested)' : CodeOK(c)'
  BY <1>3, CodeUsed DEF createSession, Marks
<1> QED BY <1>4, <1>5, <1>6, <1>7, <1>8, <1>9

-----------------------------------------------------------------------------
(* Refreshes.                                                              *)
LEMMA RefreshTokenInv ==
    ASSUME IInv, NEW p \in Requests, NEW s \in Ids, refreshToken(p, s)
    PROVE  IInv'
<1> USE DEF IInv
<1>1. /\ pc[p] = "idle" /\ code[p] = null /\ pc' \in [Requests -> Steps] /\ pc'[p] = "rotate"
      /\ \A q \in Requests \ {p} : pc'[q] = pc[q]
  BY StartShape DEF refreshToken, Steps
<1>2. /\ UNCHANGED <<password, sessions, hash, since, opened, otp, code, mine, overlap,
                     latest, overlapped, kept, uses, contested>>
      /\ session' \in [Requests -> Ids \cup {null}] /\ session'[p] = s
      /\ \A q \in Requests \ {p} : session'[q] = session[q]
  BY DEF refreshToken, document, store, codes, Types
<1>3. /\ s \in sessions /\ (hash[s] = latest[s] \/ s \in disturbed)
      /\ disturbed' = IF \E q \in Requests : session[q] = s /\ pc[q] \in {"rotate", "answer"}
                      THEN disturbed \cup {s} ELSE disturbed
  BY DEF refreshToken
<1>4. Alone(p)
  BY <1>1, <1>2 DEF Alone, Untouched
<1>5. Types'
  <2>1. RequestOK(p)'
    BY <1>1, <1>2, <1>3 DEF RequestOK, Types
  <2> QED BY <1>1, <1>2, <1>4, <2>1, RequestsKept DEF Types
<1>6. ASSUME NEW t \in (sessions \ disturbed)' PROVE RefreshOK(t)'
  <2>1. t \in sessions \ disturbed /\ t \in Ids /\ RefreshOK(t)
    BY <1>2, <1>3 DEF Types
  <2>2. CASE t = s
    <3>1. Refreshing(s) = {}
      BY <1>3, <2>2 DEF Refreshing
    <3>2. Refreshing(s)' = {p}
      BY <1>1, <1>2, <3>1 DEF Refreshing
    <3> QED BY <1>1, <1>2, <1>3, <2>1, <2>2, <3>2 DEF RefreshOK
  <2>3. CASE t # s
    <3>1. p \notin Refreshing(t) /\ p \notin Refreshing(t)'
      BY <1>1, <1>2, <2>3 DEF Refreshing
    <3>2. Refreshing(t)' = Refreshing(t)
      BY <1>1, <1>2, <3>1 DEF Refreshing
    <3>3. \A q \in Refreshing(t) : pc'[q] = pc[q] /\ mine'[q] = mine[q]
      BY <1>1, <1>2, <3>1 DEF Refreshing
    <3> QED BY <1>2, <2>1, <3>2, <3>3 DEF RefreshOK
  <2> QED BY <2>2, <2>3
<1>7. \A q \in Requests : LoginOK(q)'
  BY <1>1, <1>2, LoginFrame DEF Overlapping
<1>8. \A q \in Requests : WriteOK(q)'
  BY <1>1, <1>2, WriteFrame
<1>9. PasswordChangeEndsSessions'
  BY <1>2, PasswordFrame
<1>10. \A c \in (Codes \ contested)' : CodeOK(c)'
  BY <1>1, <1>2, CodeFrame DEF Marks
<1> QED BY <1>5, <1>6, <1>7, <1>8, <1>9, <1>10

(* A request that ends without an effect on sessions, password and codes.  *)
LEMMA EndsInv ==
    ASSUME IInv, NEW p \in Requests, Ended(p),
           UNCHANGED <<password, sessions, hash, since, opened, latest, overlapped, kept,
                       uses, contested>>,
           \A c \in Codes : otp'[c] = otp[c] \/ (otp[c] = "none" /\ otp'[c] = "valid"),
           otp' \in [Codes -> {"none", "valid", "expired", "used"}],
           disturbed \subseteq disturbed',
           pc[p] = "answer" => session[p] \in disturbed'
    PROVE  IInv'
<1> USE DEF IInv
<1>1. /\ pc' \in [Requests -> Steps]
      /\ session' \in [Requests -> Ids \cup {null}]
      /\ code' \in [Requests -> Codes \cup {null}]
      /\ mine' \in [Requests -> Nat] /\ overlap' \in [Requests -> BOOLEAN]
      /\ pc'[p] = "idle" /\ session'[p] = null /\ code'[p] = null
      /\ Alone(p)
  BY EndedShape DEF Alone
<1>2. Types'
  <2>1. RequestOK(p)'
    BY <1>1 DEF RequestOK
  <2> QED BY <1>1, <2>1, RequestsKept DEF Types
<1>3. ASSUME NEW t \in (sessions \ disturbed)' PROVE RefreshOK(t)'
  <2>1. t \in sessions \ disturbed /\ t \in Ids /\ RefreshOK(t)
    BY <1>2 DEF Types
  <2>2. Refreshing(t)' = Refreshing(t) \ {p}
    BY <1>1 DEF Refreshing, Alone, Untouched
  <2>3. \A q \in Refreshing(t)' : pc'[q] = pc[q] /\ mine'[q] = mine[q]
    BY <1>1, <2>2 DEF Refreshing, Alone, Untouched
  <2>4. p \in Refreshing(t) => latest[t] = hash[t]
    BY <1>3, <2>1 DEF RefreshOK, Refreshing
  <2>5. Refreshing(t)' = {} => latest[t] = hash[t]
    BY <2>1, <2>2, <2>4 DEF RefreshOK
  <2> QED BY <2>1, <2>2, <2>3, <2>5 DEF RefreshOK
<1>4. \A q \in Requests : LoginOK(q)'
  BY <1>1, LoginFrame DEF Alone, Untouched, Overlapping
<1>5. \A q \in Requests : WriteOK(q)'
  BY <1>1, WriteFrame DEF Alone, Untouched
<1>6. PasswordChangeEndsSessions'
  BY PasswordFrame
<1>7. ASSUME NEW c \in (Codes \ contested)' PROVE CodeOK(c)'
  <2>1. CodeOK(c) /\ c \in Codes /\ code'[p] # c
    BY <1>1, SessionsAssumption DEF SessionsAssumption
  <2> QED BY <1>1, <2>1, CodeFrame DEF Alone, Untouched
<1> QED BY <1>2, <1>3, <1>4, <1>5, <1>6, <1>7

LEMMA RotateInv ==
    ASSUME IInv, NEW p \in Requests, rotate(p)
    PROVE  IInv'
<1> USE DEF IInv
<1>1. /\ pc[p] = "rotate"
      /\ UNCHANGED <<password, sessions, since, opened, otp, latest, disturbed, overlapped,
                     kept, uses, contested>>
  BY DEF rotate, document, codes, history
<1>2. CASE Ended(p) /\ UNCHANGED hash
  BY <1>1, <1>2, EndsInv DEF Types
<1>3. ASSUME NEW s \in Ids, s = session[p],
             hash' = [hash EXCEPT ![s] = IF s \in sessions THEN @ + 1 ELSE @],
             mine' = [mine EXCEPT ![p] = hash[s] + 1], Goto(p, "answer"),
             UNCHANGED <<session, code, overlap>>
      PROVE  IInv'
  <2>1. /\ pc' \in [Requests -> Steps] /\ pc'[p] = "answer"
        /\ \A q \in Requests \ {p} : pc'[q] = pc[q]
    BY <1>3, GotoShape DEF Steps
  <2>2. /\ mine' \in [Requests -> Nat] /\ mine'[p] = hash[s] + 1
        /\ \A q \in Requests \ {p} : mine'[q] = mine[q]
        /\ hash' \in [Ids -> Nat] /\ \A t \in Ids \ {s} : hash'[t] = hash[t]
        /\ s \in sessions => hash'[s] = hash[s] + 1
    BY <1>3 DEF Types
  <2>3. Alone(p)
    BY <1>3, <2>1, <2>2 DEF Alone, Untouched
  <2>4. Types'
    <3>1. RequestOK(p)'
      BY <1>1, <1>3, <2>1 DEF RequestOK, Types
    <3> QED BY <1>1, <1>3, <2>1, <2>2, <2>3, <3>1, RequestsKept DEF Types
  <2>5. ASSUME NEW t \in (sessions \ disturbed)' PROVE RefreshOK(t)'
    <3>1. t \in sessions \ disturbed /\ t \in Ids /\ RefreshOK(t)
      BY <1>1 DEF Types
    <3>2. Refreshing(t)' = Refreshing(t)
      BY <1>1, <1>3, <2>1 DEF Refreshing
    <3>3. CASE t = s
      <4>1. Refreshing(s) = {p}
        BY <1>1, <1>3, <3>1, <3>3 DEF Refreshing, RefreshOK
      <4> QED BY <2>1, <2>2, <3>1, <3>2, <3>3, <4>1 DEF RefreshOK
    <3>4. CASE t # s
      <4>1. p \notin Refreshing(t)
        BY <1>3, <3>4 DEF Refreshing
      <4>2. \A q \in Refreshing(t) : pc'[q] = pc[q] /\ mine'[q] = mine[q]
        BY <2>1, <2>2, <4>1 DEF Refreshing
      <4> QED BY <1>1, <2>2, <3>1, <3>2, <3>4, <4>2 DEF RefreshOK
    <3> QED BY <3>3, <3>4
  <2>6. \A q \in Requests : LoginOK(q)'
    BY <1>1, <1>3, <2>1, <2>2, LoginFrame DEF Overlapping
  <2>7. \A q \in Requests : WriteOK(q)'
    BY <1>1, <1>3, <2>1, WriteFrame
  <2>8. PasswordChangeEndsSessions'
    BY <1>1, PasswordFrame
  <2>9. \A c \in (Codes \ contested)' : CodeOK(c)'
    BY <1>1, <1>3, <2>1, CodeFrame DEF Marks
  <2> QED BY <2>4, <2>5, <2>6, <2>7, <2>8, <2>9
<1>4. session[p] \in Ids
  BY <1>1 DEF Types, RequestOK
<1> QED BY <1>2, <1>3, <1>4 DEF rotate

LEMMA AnswerInv ==
    ASSUME IInv, NEW p \in Requests, answer(p)
    PROVE  IInv'
<1> USE DEF IInv
<1>1. /\ pc[p] = "answer" /\ session[p] \in Ids
      /\ latest' = [latest EXCEPT ![session[p]] = IF session[p] \in sessions THEN mine[p] ELSE @]
      /\ UNCHANGED <<password, sessions, hash, since, opened, otp, disturbed, overlapped,
                     kept, uses, contested>>
  BY DEF answer, document, store, codes, Types, RequestOK
<1>2. /\ pc' \in [Requests -> Steps]
      /\ session' \in [Requests -> Ids \cup {null}]
      /\ code' \in [Requests -> Codes \cup {null}]
      /\ mine' \in [Requests -> Nat] /\ overlap' \in [Requests -> BOOLEAN]
      /\ pc'[p] = "idle" /\ session'[p] = null /\ code'[p] = null
      /\ Alone(p)
  BY EndedShape DEF answer, Alone
<1>3. Types'
  <2>1. RequestOK(p)'
    BY <1>2 DEF RequestOK
  <2>2. latest' \in [Ids -> Nat]
    BY <1>1 DEF Types
  <2> QED BY <1>1, <1>2, <2>1, <2>2, RequestsKept DEF Types
<1>4. ASSUME NEW t \in (sessions \ disturbed)' PROVE RefreshOK(t)'
  <2>1. t \in sessions \ disturbed /\ t \in Ids /\ RefreshOK(t)
    BY <1>1 DEF Types
  <2>2. Refreshing(t)' = Refreshing(t) \ {p}
    BY <1>2 DEF Refreshing, Alone, Untouched
  <2>3. \A q \in Refreshing(t)' : pc'[q] = pc[q] /\ mine'[q] = mine[q]
    BY <1>2, <2>2 DEF Refreshing, Alone, Untouched
  <2>4. CASE t = session[p]
    <3>1. Refreshing(t) = {p} /\ mine[p] = hash[t]
      BY <1>1, <2>1, <2>4 DEF Refreshing, RefreshOK
    <3>2. latest'[t] = hash[t]
      BY <1>1, <2>1, <2>4, <3>1 DEF Types
    <3> QED BY <1>1, <2>2, <3>1, <3>2 DEF RefreshOK
  <2>5. CASE t # session[p]
    <3>1. latest'[t] = latest[t] /\ p \notin Refreshing(t)
      BY <1>1, <2>1, <2>5 DEF Types, Refreshing
    <3> QED BY <1>1, <2>1, <2>2, <2>3, <3>1 DEF RefreshOK
  <2> QED BY <2>4, <2>5
<1>5. \A q \in Requests : LoginOK(q)'
  BY <1>1, <1>2, LoginFrame DEF Alone, Untouched, Overlapping
<1>6. \A q \in Requests : WriteOK(q)'
  BY <1>1, <1>2, WriteFrame DEF Alone, Untouched
<1>7. PasswordChangeEndsSessions'
  BY <1>1, PasswordFrame
<1>8. ASSUME NEW c \in (Codes \ contested)' PROVE CodeOK(c)'
  <2>1. CodeOK(c) /\ c \in Codes /\ code'[p] # c
    BY <1>1, <1>2, SessionsAssumption DEF SessionsAssumption
  <2> QED BY <1>1, <1>2, <2>1, CodeFrame DEF Alone, Untouched
<1> QED BY <1>3, <1>4, <1>5, <1>6, <1>7, <1>8

(* Steps of no request: sessions close, codes expire, the user goes.       *)
LEMMA OutsideInv ==
    ASSUME IInv, UNCHANGED <<password, hash, since, opened, requests, history>>,
           sessions' \subseteq sessions, otp' \in [Codes -> {"none", "valid", "expired", "used"}],
           \A c \in Codes : otp'[c] = otp[c] \/ (otp[c] = "valid" /\ otp'[c] = "expired")
    PROVE  IInv'
<1> USE DEF IInv
<1>1. UNCHANGED <<pc, session, code, mine, overlap, latest, disturbed, overlapped, kept,
                  uses, contested>>
  BY DEF requests, history
<1>2. Types'
  BY <1>1 DEF Types, RequestOK
<1>3. \A s \in (sessions \ disturbed)' : RefreshOK(s)'
  BY <1>1, RefreshFrame DEF Types
<1>4. \A q \in Requests : LoginOK(q)' /\ WriteOK(q)'
  BY <1>1, LoginFrame, WriteFrame
<1>5. PasswordChangeEndsSessions'
  BY <1>1, PasswordFrame
<1>6. \A c \in (Codes \ contested)' : CodeOK(c)'
  BY <1>1, CodeFrame
<1> QED BY <1>2, <1>3, <1>4, <1>5, <1>6

LEMMA OthersInv ==
    ASSUME IInv,
           (\E s \in Ids : logout(s)) \/ (\E c \in Codes : expire(c)) \/ remove
    PROVE  IInv'
<1>1. Types
  BY DEF IInv
<1>2. CASE \E s \in Ids : logout(s)
  BY <1>1, <1>2, OutsideInv DEF Types, logout, document, codes
<1>3. CASE \E c \in Codes : expire(c)
  BY <1>1, <1>3, OutsideInv DEF Types, expire, document, store
<1>4. CASE remove
  BY <1>1, <1>4, OutsideInv DEF Types, remove, store, codes
<1> QED BY <1>2, <1>3, <1>4

-----------------------------------------------------------------------------
(* Changes of the password.                                                *)

(* While one is under way, every login knows that it overlaps.             *)
LEMMA ChangingFrame ==
    ASSUME NEW p \in Requests, \A q \in Requests : LoginOK(q), Changing(p),
           pc'[p] \notin {"session", "markLogin"},
           \A q \in Requests \ {p} : pc'[q] = pc[q] /\ (overlap[q] => overlap'[q])
    PROVE  \A q \in Requests : LoginOK(q)'
<1> SUFFICES ASSUME NEW q \in Requests, LoggingIn(q)' PROVE overlap'[q]
  BY DEF LoginOK
<1>1. q # p /\ LoggingIn(q)
  BY DEF LoggingIn
<1>2. LoginOK(q)
  OBVIOUS
<1>3. overlap[q]
  BY <1>1, <1>2 DEF LoginOK
<1> QED BY <1>1, <1>3

LEMMA ChangeStarts ==
    ASSUME IInv, NEW p \in Requests, NEW s \in {"close", "patch", "markReset"},
           Start(p, s), Meets(p, FALSE),
           UNCHANGED <<password, sessions, hash, since, opened, otp, mine, latest, disturbed,
                       overlapped, kept, uses>>,
           session' \in [Requests -> Ids \cup {null}],
           \A q \in Requests \ {p} : session'[q] = session[q],
           code' \in [Requests -> Codes \cup {null}],
           \A q \in Requests \ {p} : code'[q] = code[q],
           s = "markReset" => code'[p] \in Codes,
           \A c \in (Codes \ contested)' : CodeOK(c)'
    PROVE  IInv'
<1> USE DEF IInv
<1>1. /\ pc[p] = "idle" /\ pc' \in [Requests -> Steps] /\ pc'[p] = s
      /\ \A q \in Requests \ {p} : pc'[q] = pc[q]
  BY StartShape DEF Steps
<1>2. /\ overlap' \in [Requests -> BOOLEAN]
      /\ \A q \in Requests \ {p} : overlap'[q] <=> overlap[q] \/ LoggingIn(q)
  BY MeetsLogins
<1>3. Types'
  <2>1. RequestOK(p)'
    BY <1>1 DEF RequestOK
  <2>2. \A q \in Requests \ {p} : RequestOK(q)'
    BY <1>1 DEF RequestOK, Types
  <2> QED BY <1>1, <1>2, <2>1, <2>2 DEF Types
<1>4. \A t \in (sessions \ disturbed)' : RefreshOK(t)'
  BY <1>1, RefreshFrame DEF Refreshes, Types
<1>5. \A q \in Requests : LoginOK(q)'
  BY <1>1, <1>2 DEF LoginOK, LoggingIn
<1>6. \A q \in Requests : WriteOK(q)'
  BY <1>1, WriteFrame
<1>7. PasswordChangeEndsSessions'
  BY PasswordFrame
<1> QED BY <1>3, <1>4, <1>5, <1>6, <1>7

LEMMA PasswordStartsInv ==
    ASSUME IInv, NEW p \in Requests,
           resetPassword(p) \/ (\E s \in Ids : update(p, s)) \/ patchUser(p)
    PROVE  IInv'
<1>1. Types /\ \A c \in Codes \ contested : CodeOK(c)
  BY DEF IInv
<1>2. ASSUME NEW s \in {"close", "patch"}, Start(p, s), UNCHANGED <<codes, code, history>>
      PROVE  \A c \in (Codes \ contested)' : CodeOK(c)'
  <2>1. pc[p] = "idle" /\ \A q \in Requests \ {p} : pc'[q] = pc[q]
    BY <1>1, <1>2, StartShape DEF Steps
  <2> QED BY <1>1, <1>2, <2>1, CodeFrame DEF codes, history, Marks
<1>3. CASE resetPassword(p)
  BY <1>1, <1>2, <1>3, ChangeStarts DEF resetPassword, document, store, codes, history, Types
<1>4. ASSUME NEW s \in Ids, update(p, s) PROVE IInv'
  BY <1>1, <1>2, <1>4, ChangeStarts DEF update, document, store, codes, history, Types
<1>5. CASE patchUser(p)
  BY <1>1, <1>2, <1>5, ChangeStarts DEF patchUser, document, store, codes, history, Types
<1> QED BY <1>3, <1>4, <1>5

LEMMA DeleteSessionsInv ==
    ASSUME IInv, NEW p \in Requests, deleteSessions(p)
    PROVE  IInv'
<1> USE DEF IInv
<1>1. /\ pc[p] = "close" /\ sessions' = sessions \cap {session[p]}
      /\ UNCHANGED <<password, hash, since, opened, otp, session, code, mine, overlap, latest,
                     disturbed, overlapped, kept, uses, contested>>
  BY DEF deleteSessions, document, codes, history
<1>2. /\ pc' \in [Requests -> Steps] /\ pc'[p] = "write"
      /\ \A q \in Requests \ {p} : pc'[q] = pc[q]
  BY GotoShape DEF deleteSessions, Steps
<1>3. Types'
  <2>1. \A q \in Requests : RequestOK(q)'
    BY <1>1, <1>2 DEF RequestOK, Types
  <2> QED BY <1>1, <1>2, <2>1 DEF Types
<1>4. \A t \in (sessions \ disturbed)' : RefreshOK(t)'
  BY <1>1, <1>2, RefreshFrame DEF Refreshes, Types
<1>5. \A q \in Requests : LoginOK(q)'
  BY <1>1, <1>2, ChangingFrame DEF Changing
<1>6. \A q \in Requests : WriteOK(q)'
  BY <1>1, <1>2 DEF WriteOK
<1>7. PasswordChangeEndsSessions'
  BY <1>1, PasswordFrame
<1>8. \A c \in (Codes \ contested)' : CodeOK(c)'
  BY <1>1, <1>2, CodeFrame DEF Marks
<1> QED BY <1>3, <1>4, <1>5, <1>6, <1>7, <1>8

LEMMA WritePasswordInv ==
    ASSUME IInv, NEW p \in Requests, writePassword(p)
    PROVE  IInv'
<1> USE DEF IInv
<1>1. /\ pc[p] \in {"write", "patch"}
      /\ password' = IF user THEN password + 1 ELSE password
      /\ kept' = IF pc[p] = "patch" THEN kept \cup sessions
                 ELSE kept \cup (sessions \cap {session[p]})
      /\ uses' = [c \in Codes |-> IF c = code[p] THEN uses[c] + 1 ELSE uses[c]]
      /\ UNCHANGED <<sessions, hash, since, opened, otp, latest, disturbed, overlapped, contested>>
  BY DEF writePassword, store, codes
<1>2. /\ pc' \in [Requests -> Steps]
      /\ session' \in [Requests -> Ids \cup {null}]
      /\ code' \in [Requests -> Codes \cup {null}]
      /\ mine' \in [Requests -> Nat] /\ overlap' \in [Requests -> BOOLEAN]
      /\ pc'[p] = "idle" /\ session'[p] = null /\ code'[p] = null
      /\ Alone(p)
  BY EndedShape DEF writePassword, Alone
<1>3. Types'
  <2>1. RequestOK(p)'
    BY <1>2 DEF RequestOK
  <2>2. password' \in Nat /\ uses' \in [Codes -> Nat]
    BY <1>1 DEF Types
  <2> QED BY <1>1, <1>2, <2>1, <2>2, RequestsKept DEF Types
<1>4. \A t \in (sessions \ disturbed)' : RefreshOK(t)'
  BY <1>1, <1>2, RefreshFrame DEF Alone, Untouched, Refreshes, Types
<1>5. \A q \in Requests : LoginOK(q)'
  BY <1>1, <1>2, ChangingFrame DEF Changing, Alone, Untouched
<1>6. \A q \in Requests : WriteOK(q)'
  BY <1>1, <1>2, WriteFrame DEF Alone, Untouched
<1>7. PasswordChangeEndsSessions'
  <2>1. sessions \subseteq kept' \cup overlapped
    BY <1>1 DEF WriteOK
  <2> QED BY <1>1, <2>1 DEF PasswordChangeEndsSessions
<1>8. \A c \in (Codes \ contested)' : CodeOK(c)'
  BY <1>1, CodeUsed DEF writePassword, Marks
<1> QED BY <1>3, <1>4, <1>5, <1>6, <1>7, <1>8

-----------------------------------------------------------------------------
(* Codes.                                                                  *)
LEMMA SendInv ==
    ASSUME IInv, NEW p \in Requests, sendPhoneOtp(p) \/ phoneForgotPassword(p)
    PROVE  IInv'
<1> USE DEF IInv
<1>1. /\ \E s \in {"saveLogin", "saveReset"} : Start(p, s)
      /\ UNCHANGED <<password, sessions, hash, since, opened, session, code, mine, overlap,
                     latest, disturbed, overlapped, kept, uses, contested>>
  BY DEF sendPhoneOtp, phoneForgotPassword, document, store, history
<1>2. /\ pc[p] = "idle" /\ code[p] = null /\ pc' \in [Requests -> Steps]
      /\ pc'[p] \in {"saveLogin", "saveReset"}
      /\ \A q \in Requests \ {p} : pc'[q] = pc[q]
  BY <1>1, StartShape DEF Steps
<1>3. /\ otp' \in [Codes -> {"none", "valid", "expired", "used"}]
      /\ \A c \in Codes : otp'[c] = otp[c] \/ (otp[c] = "valid" /\ otp'[c] = "used")
  BY DEF sendPhoneOtp, phoneForgotPassword, Types
<1>4. Types'
  <2>1. \A q \in Requests : RequestOK(q)'
    BY <1>1, <1>2 DEF RequestOK, Types
  <2> QED BY <1>1, <1>2, <1>3, <2>1 DEF Types
<1>5. \A t \in (sessions \ disturbed)' : RefreshOK(t)'
  BY <1>1, <1>2, RefreshFrame DEF Refreshes, Types
<1>6. \A q \in Requests : LoginOK(q)'
  BY <1>1, <1>2, LoginFrame DEF Overlapping
<1>7. \A q \in Requests : WriteOK(q)'
  BY <1>1, <1>2, WriteFrame
<1>8. PasswordChangeEndsSessions'
  BY <1>1, PasswordFrame
<1>9. \A c \in (Codes \ contested)' : CodeOK(c)'
  BY <1>1, <1>2, <1>3, CodeFrame DEF Marks
<1> QED BY <1>4, <1>5, <1>6, <1>7, <1>8, <1>9

LEMMA SaveOtpInv ==
    ASSUME IInv, NEW p \in Requests, saveOtp(p)
    PROVE  IInv'
<1>1. PICK c \in Codes : otp[c] = "none" /\ otp' = [otp EXCEPT ![c] = "valid"]
  BY DEF saveOtp
<1>2. Types
  BY DEF IInv
<1>3. otp' \in [Codes -> {"none", "valid", "expired", "used"}]
  BY <1>1, <1>2 DEF Types
<1>4. \A d \in Codes : otp'[d] = otp[d] \/ (otp[d] = "none" /\ otp'[d] = "valid")
  BY <1>1, <1>2 DEF Types
<1> QED BY <1>3, <1>4, EndsInv DEF saveOtp, document, store, history

LEMMA FailsInv ==
    ASSUME IInv, NEW p \in Requests, fails(p)
    PROVE  IInv'
<1>1. Types
  BY DEF IInv
<1>2. disturbed \subseteq disturbed' /\ (pc[p] = "answer" => session[p] \in disturbed')
  BY <1>1 DEF fails, Types, RequestOK
<1> QED BY <1>1, <1>2, EndsInv DEF fails, document, store, codes, Types

(* A code that is found has not been of use; if another request has found  *)
(* it before, it is contested from now on.                                 *)
LEMMA CodeFound ==
    ASSUME IInv, NEW p \in Requests, NEW c \in Codes, NEW s \in Marks, Find(p, c, s)
    PROVE  /\ pc[p] = "idle" /\ pc'[p] = s /\ \A q \in Requests \ {p} : pc'[q] = pc[q]
           /\ code' \in [Requests -> Codes \cup {null}] /\ code'[p] = c
           /\ \A q \in Requests \ {p} : code'[q] = code[q]
           /\ \A d \in (Codes \ contested)' : CodeOK(d)'
<1>1. Types /\ \A d \in Codes \ contested : CodeOK(d)
  BY DEF IInv
<1>2. pc[p] = "idle" /\ pc'[p] = s /\ \A q \in Requests \ {p} : pc'[q] = pc[q]
  BY <1>1, StartShape DEF Find, Marks, Steps
<1>3. /\ code' \in [Requests -> Codes \cup {null}] /\ code'[p] = c
      /\ \A q \in Requests \ {p} : code'[q] = code[q]
  BY <1>1 DEF Find, Types
<1>4. UNCHANGED <<otp, uses>> /\ otp[c] = "valid"
  BY DEF Find, codes
<1>5. contested' = IF Holding(c) # {} THEN contested \cup {c} ELSE contested
  BY DEF Find, Holding
<1>6. ASSUME NEW d \in (Codes \ contested)' PROVE CodeOK(d)'
  <2>1. d \in Codes /\ CodeOK(d)
    BY <1>1, <1>5
  <2>2. CASE d = c
    <3>1. Holding(c) = {}
      BY <1>5, <2>2
    <3>2. Holding(c)' = {p}
      BY <1>3, <3>1 DEF Holding
    <3> QED BY <1>2, <1>4, <2>1, <2>2, <3>2 DEF CodeOK, Marks
  <2>3. CASE d # c
    BY <1>2, <1>3, <1>4, <2>1, <2>3, CodeFrame
  <2> QED BY <2>2, <2>3
<1> QED BY <1>2, <1>3, <1>6

LEMMA VerifyInv ==
    ASSUME IInv, NEW p \in Requests, NEW c \in Codes, verifyPhoneOtp(p, c)
    PROVE  IInv'
<1> USE DEF IInv
<1>1. /\ pc[p] = "idle" /\ pc' \in [Requests -> Steps] /\ pc'[p] = "markLogin"
      /\ \A q \in Requests \ {p} : pc'[q] = pc[q]
  BY StartShape DEF verifyPhoneOtp, Find, Steps
<1>2. /\ overlap' \in [Requests -> BOOLEAN]
      /\ overlap'[p] <=> \E r \in Requests : Changing(r)
      /\ \A q \in Requests \ {p} : overlap'[q] <=> overlap[q]
  BY MeetsChanges DEF verifyPhoneOtp
<1>3. /\ UNCHANGED <<password, sessions, hash, since, opened, otp, session, latest,
                     disturbed, overlapped, kept, uses>>
      /\ mine' \in [Requests -> Nat] /\ mine'[p] = password
      /\ \A q \in Requests \ {p} : mine'[q] = mine[q]
  BY DEF verifyPhoneOtp, Find, document, store, codes, Types
<1>4. /\ code' \in [Requests -> Codes \cup {null}] /\ code'[p] = c
      /\ \A q \in Requests \ {p} : code'[q] = code[q]
      /\ \A d \in (Codes \ contested)' : CodeOK(d)'
  BY CodeFound DEF verifyPhoneOtp, Marks
<1>5. Alone(p)
  BY <1>1, <1>2, <1>3, <1>4 DEF Alone, Untouched
<1>6. Types'
  <2>1. RequestOK(p)'
    BY <1>1, <1>4 DEF RequestOK
  <2> QED BY <1>1, <1>2, <1>3, <1>4, <1>5, <2>1, RequestsKept DEF Types
<1>7. ASSUME NEW s \in (sessions \ disturbed)' PROVE RefreshOK(s)'
  BY <1>1, <1>3, <1>5, RefreshFrame DEF Alone, Untouched, Refreshes, Types
<1>8. \A q \in Requests : LoginOK(q)'
  <2>1. ~overlap'[p] => \A r \in Requests : ~Changing(r)'
    BY <1>1, <1>2 DEF Changing
  <2>2. LoginOK(p)'
    BY <1>3, <2>1 DEF LoginOK
  <2>3. ASSUME NEW q \in Requests \ {p} PROVE LoginOK(q)'
    <3>1. LoginOK(q) /\ Untouched(q)
      BY <1>5 DEF Alone
    <3>2. (\A r \in Requests : ~Changing(r)) => \A r \in Requests : ~Changing(r)'
      BY <1>1 DEF Changing
    <3> QED BY <1>3, <3>1, <3>2 DEF LoginOK, LoggingIn, Untouched
  <2> QED BY <2>2, <2>3
<1>9. \A q \in Requests : WriteOK(q)'
  BY <1>1, <1>3, WriteFrame
<1>10. PasswordChangeEndsSessions'
  BY <1>3, PasswordFrame
<1> QED BY <1>4, <1>6, <1>7, <1>8, <1>9, <1>10

LEMMA PhoneResetInv ==
    ASSUME IInv, NEW p \in Requests, NEW c \in Codes, phoneResetPassword(p, c)
    PROVE  IInv'
<1>1. Types
  BY DEF IInv
<1>2. /\ code' \in [Requests -> Codes \cup {null}] /\ code'[p] = c
      /\ \A q \in Requests \ {p} : code'[q] = code[q]
      /\ \A d \in (Codes \ contested)' : CodeOK(d)'
  BY CodeFound DEF phoneResetPassword, Marks
<1>3. Start(p, "markReset") /\ Meets(p, FALSE)
  BY DEF phoneResetPassword, Find
<1>4. UNCHANGED <<password, sessions, hash, since, opened, otp, mine, latest, disturbed,
                  overlapped, kept, uses, session>>
  BY DEF phoneResetPassword, Find, document, store, codes
<1> QED BY <1>1, <1>2, <1>3, <1>4, ChangeStarts DEF Types

LEMMA MarkUsedInv ==
    ASSUME IInv, NEW p \in Requests, markUsed(p)
    PROVE  IInv'
<1> USE DEF IInv
<1>1. /\ pc[p] \in Marks /\ code[p] \in Codes
      /\ UNCHANGED <<password, sessions, hash, since, opened, latest, disturbed, overlapped,
                     kept, uses, contested>>
  BY DEF markUsed, document, store, history, Marks, Types, RequestOK
<1>2. CASE Ended(p) /\ UNCHANGED otp
  BY <1>1, <1>2, EndsInv DEF Types, Marks
<1>3. ASSUME NEW c \in Codes, c = code[p],
             Goto(p, IF pc[p] = "markLogin" THEN "session" ELSE "close"),
             otp' = [otp EXCEPT ![c] = "used"], UNCHANGED <<session, code, mine, overlap>>
      PROVE  IInv'
  <2>1. /\ pc' \in [Requests -> Steps]
        /\ pc'[p] = IF pc[p] = "markLogin" THEN "session" ELSE "close"
        /\ \A q \in Requests \ {p} : pc'[q] = pc[q]
    BY <1>3, GotoShape DEF Steps
  <2>2. /\ otp' \in [Codes -> {"none", "valid", "expired", "used"}] /\ otp'[c] = "used"
        /\ \A d \in Codes \ {c} : otp'[d] = otp[d]
    BY <1>3 DEF Types
  <2>3. Types'
    <3>1. \A q \in Requests : RequestOK(q)'
      BY <1>1, <1>3, <2>1 DEF RequestOK, Types
    <3> QED BY <1>1, <1>3, <2>1, <2>2, <3>1 DEF Types
  <2>4. \A t \in (sessions \ disturbed)' : RefreshOK(t)'
    BY <1>1, <1>3, <2>1, RefreshFrame DEF Refreshes, Marks, Types
  <2>5. ASSUME NEW q \in Requests PROVE LoginOK(q)'
    <3>1. LoginOK(q)
      OBVIOUS
    <3>2. LoggingIn(q)' => LoggingIn(q)
      BY <1>1, <2>1 DEF LoggingIn, Marks
    <3>3. \A r \in Requests : Changing(r)' => Changing(r)
      BY <1>1, <2>1 DEF Changing, Marks
    <3> QED BY <1>1, <1>3, <3>1, <3>2, <3>3 DEF LoginOK
  <2>6. \A q \in Requests : WriteOK(q)'
    BY <1>1, <1>3, <2>1, WriteFrame
  <2>7. PasswordChangeEndsSessions'
    BY <1>1, PasswordFrame
  <2>8. ASSUME NEW d \in (Codes \ contested)' PROVE CodeOK(d)'
    <3>1. d \in Codes /\ CodeOK(d) /\ Holding(d)' = Holding(d)
      BY <1>1, <1>3 DEF Holding
    <3>2. CASE d = c
      BY <1>1, <2>2, <3>1, <3>2 DEF CodeOK
    <3>3. CASE d # c
      BY <1>1, <1>3, <2>1, <2>2, <3>1, <3>3, CodeFrame
    <3> QED BY <3>2, <3>3
  <2> QED BY <2>3, <2>4, <2>5, <2>6, <2>7, <2>8
<1> QED BY <1>1, <1>2, <1>3 DEF markUsed

-----------------------------------------------------------------------------
(* Together.                                                               *)
LEMMA InitIInv == Init => IInv
<1> SUFFICES ASSUME Init PROVE IInv
  OBVIOUS
<1>1. \A p \in Requests : pc[p] = "idle" /\ code[p] = null
  BY DEF Init
<1>2. Types
  BY <1>1 DEF Init, Types, Steps, RequestOK
<1>3. \A p \in Requests : LoginOK(p) /\ WriteOK(p)
  BY <1>1 DEF LoginOK, WriteOK, LoggingIn
<1>4. ASSUME NEW c \in Codes PROVE CodeOK(c)
  <2>1. Holding(c) = {}
    BY <1>1, SessionsAssumption DEF Holding, SessionsAssumption
  <2>2. uses[c] = 0
    BY DEF Init
  <2> QED BY <2>1, <2>2 DEF CodeOK
<1> QED BY <1>2, <1>3, <1>4 DEF Init, IInv, PasswordChangeEndsSessions

LEMMA NextIInv == IInv /\ [Next]_vars => IInv'
<1> SUFFICES ASSUME IInv, [Next]_vars PROVE IInv'
  OBVIOUS
<1>1. ASSUME NEW p \in Requests, Login(p) PROVE IInv'
  BY <1>1, ValidateLoginInv, CreateSessionInv DEF Login
<1>2. ASSUME NEW p \in Requests, Refresh(p) PROVE IInv'
  BY <1>2, RefreshTokenInv, RotateInv, AnswerInv DEF Refresh
<1>3. ASSUME NEW p \in Requests, Password(p) PROVE IInv'
  BY <1>3, PasswordStartsInv, DeleteSessionsInv, WritePasswordInv DEF Password
<1>4. ASSUME NEW p \in Requests, Otp(p) PROVE IInv'
  BY <1>4, SendInv, SaveOtpInv, VerifyInv, PhoneResetInv, MarkUsedInv DEF Otp
<1>5. ASSUME NEW p \in Requests, fails(p) PROVE IInv'
  BY <1>5, FailsInv
<1>6. CASE (\E s \in Ids : logout(s)) \/ (\E c \in Codes : expire(c)) \/ remove
  BY <1>6, OthersInv
<1>7. CASE UNCHANGED vars
  <2>1. UNCHANGED <<password, hash, since, opened, requests, history, sessions, otp>>
    BY <1>7 DEF vars, document, store, codes
  <2> QED BY <2>1, OutsideInv DEF IInv, Types
<1> QED BY <1>1, <1>2, <1>3, <1>4, <1>5, <1>6, <1>7 DEF Next

-----------------------------------------------------------------------------
(* The rotation of the hash logs nobody out whose refreshes do not overlap *)
(* and whose replies arrive (auth.service.ts:587).                         *)
THEOREM SessionsRefreshContinues == Spec => []RefreshContinues
<1>1. IInv => RefreshContinues
  <2> SUFFICES ASSUME IInv, NEW s \in sessions \ disturbed, latest[s] # hash[s]
               PROVE  \E p \in Requests : pc[p] = "answer" /\ session[p] = s /\ mine[p] = hash[s]
    BY DEF RefreshContinues
  <2>1. RefreshOK(s)
    BY DEF IInv
  <2>2. PICK p \in Refreshing(s) : TRUE
    BY <2>1 DEF RefreshOK
  <2> QED BY <2>1, <2>2 DEF RefreshOK, Refreshing
<1> QED BY InitIInv, NextIInv, <1>1, PTL DEF Spec

(* No session outlives a change of the password that neither spared it nor *)
(* overlapped its login (auth.service.ts, users.service.ts).               *)
THEOREM SessionsPasswordChange == Spec => []PasswordChangeEndsSessions
<1>1. IInv => PasswordChangeEndsSessions
  BY DEF IInv
<1> QED BY InitIInv, NextIInv, <1>1, PTL DEF Spec

(* A code serves once unless requests with it overlap (otp.schema.ts:20).  *)
THEOREM SessionsCodeOnce == Spec => []CodeOnce
<1>1. IInv => CodeOnce
  <2> SUFFICES ASSUME IInv, NEW c \in Codes \ contested PROVE uses[c] <= 1
    BY DEF CodeOnce
  <2>1. CodeOK(c) /\ uses[c] \in Nat
    BY DEF IInv, Types
  <2> QED BY <2>1 DEF CodeOK
<1> QED BY InitIInv, NextIInv, <1>1, PTL DEF Spec
============================================================================

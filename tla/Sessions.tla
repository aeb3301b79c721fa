------------------------------ MODULE Sessions ------------------------------
(***************************************************************************)
(* The sessions and the codes by phone of one user: AuthService,           *)
(* SessionService and the Otp collection.                                  *)
(*                                                                         *)
(* A login reads the user and creates a session later; a refresh compares  *)
(* the hash of the session and replaces it later; a change of password     *)
(* closes the sessions and writes the password later; a code is looked up, *)
(* marked as used and acted upon later.  Requests overlap in all of this.  *)
(*                                                                         *)
(* Passwords and hashes are numbered: a session remembers the password     *)
(* that was valid when its login began.  Refused requests, which change    *)
(* nothing (a wrong password or hash, an agent not approved), and refused  *)
(* logins are not steps.  Access tokens are checked without the database,  *)
(* so that a request may come from a session closed long ago.              *)
(***************************************************************************)
EXTENDS Naturals, FiniteSets

CONSTANTS
    Ids,            \* of sessions
    Codes,
    Requests,       \* requests under way at the same time
    MaxRequests,    \* bound of the requests ever started
    null

ASSUME SessionsAssumption == MaxRequests \in Nat /\ null \notin Ids \cup Codes

VARIABLES
    user, password,         \* the user exists, the number of the password
    sessions, hash, since,  \* open sessions, their hashes, the passwords of their logins
    opened,                 \* every session there was
    otp, purpose,           \* the codes
    pc, session, code, mine, overlap,   \* the requests
    latest,                 \* the last hash that the client received
    disturbed,              \* a reply was lost or refreshes overlapped
    overlapped, kept,       \* the login met a change; the change spared the session
    uses, contested,        \* of the codes
    started

document == <<user, password>>
store == <<sessions, hash, since, opened>>
codes == <<otp, purpose>>
requests == <<pc, session, code, mine, overlap>>
history == <<latest, disturbed, overlapped, kept, uses, contested>>
vars == <<document, store, codes, requests, history, started>>

Purposes == {"login", "reset"}

TypeOK ==
    /\ user \in BOOLEAN /\ password \in 0 .. MaxRequests
    /\ sessions \subseteq opened /\ opened \subseteq Ids
    /\ hash \in [Ids -> 0 .. MaxRequests] /\ since \in [Ids -> 0 .. MaxRequests]
    /\ otp \in [Codes -> {"none", "valid", "expired", "used"}]
    /\ purpose \in [Codes -> Purposes]
    /\ pc \in [Requests -> {"idle", "session", "rotate", "answer", "markLogin", "markReset",
                            "close", "write", "patch", "saveLogin", "saveReset"}]
    /\ session \in [Requests -> Ids \cup {null}]
    /\ code \in [Requests -> Codes \cup {null}]
    /\ mine \in [Requests -> 0 .. MaxRequests] /\ overlap \in [Requests -> BOOLEAN]
    /\ latest \in [Ids -> 0 .. MaxRequests]
    /\ disturbed \subseteq opened /\ overlapped \subseteq opened /\ kept \subseteq opened
    /\ uses \in [Codes -> 0 .. MaxRequests] /\ contested \subseteq Codes
    /\ started \in 0 .. MaxRequests

Init ==
    /\ user = TRUE /\ password = 0
    /\ sessions = {} /\ opened = {}
    /\ hash = [s \in Ids |-> 0] /\ since = [s \in Ids |-> 0]
    /\ otp = [c \in Codes |-> "none"] /\ purpose = [c \in Codes |-> "login"]
    /\ pc = [p \in Requests |-> "idle"]
    /\ session = [p \in Requests |-> null] /\ code = [p \in Requests |-> null]
    /\ mine = [p \in Requests |-> 0] /\ overlap = [p \in Requests |-> FALSE]
    /\ latest = [s \in Ids |-> 0]
    /\ disturbed = {} /\ overlapped = {} /\ kept = {}
    /\ uses = [c \in Codes |-> 0] /\ contested = {}
    /\ started = 0

-----------------------------------------------------------------------------
Goto(p, next) == pc' = [pc EXCEPT ![p] = next]

Start(p, next) ==
    /\ pc[p] = "idle" /\ started < MaxRequests
    /\ started' = started + 1
    /\ Goto(p, next)

Ended(p) ==
    /\ Goto(p, "idle")
    /\ session' = [session EXCEPT ![p] = null]
    /\ code' = [code EXCEPT ![p] = null]
    /\ mine' = [mine EXCEPT ![p] = 0]
    /\ overlap' = [overlap EXCEPT ![p] = FALSE]

LoggingIn(p) == pc[p] \in {"session", "markLogin"}
Changing(p) == pc[p] \in {"markReset", "close", "write", "patch"}

(* A login or a change begins while requests of the other kind are under   *)
(* way.                                                                    *)
Meets(p, login) ==
    overlap' = [q \in Requests |->
        IF login THEN IF q = p THEN \E r \in Requests : Changing(r) ELSE overlap[q]
        ELSE overlap[q] \/ (q # p /\ LoggingIn(q))]

-----------------------------------------------------------------------------
(* Logins.  validateSocialLogin ends alike.                                *)
validateLogin(p) ==
    /\ user
    /\ Start(p, "session")
    /\ mine' = [mine EXCEPT ![p] = password]
    /\ Meets(p, TRUE)
    /\ UNCHANGED <<document, store, codes, session, code, history>>

(* The end of every login.                                                 *)
createSession(p) ==
    /\ pc[p] = "session"
    /\ \E s \in Ids \ opened :
          /\ sessions' = sessions \cup {s}
          /\ opened' = opened \cup {s}
          /\ hash' = [hash EXCEPT ![s] = 1] /\ latest' = [latest EXCEPT ![s] = 1]
          /\ since' = [since EXCEPT ![s] = mine[p]]
          /\ overlapped' = IF overlap[p] THEN overlapped \cup {s} ELSE overlapped
    /\ uses' = [c \in Codes |-> IF c = code[p] THEN uses[c] + 1 ELSE uses[c]]
    /\ Ended(p)
    /\ UNCHANGED <<document, codes, disturbed, kept, contested, started>>

-----------------------------------------------------------------------------
(* Refresh: the session is found and its hash is that of the token, which  *)
(* the client that received it last presents, or another one of its tabs.  *)
refreshToken(p, s) ==
    /\ s \in sessions
    /\ hash[s] = latest[s] \/ s \in disturbed
    /\ Start(p, "rotate")
    /\ session' = [session EXCEPT ![p] = s]
    /\ disturbed' = IF \E q \in Requests : session[q] = s /\ pc[q] \in {"rotate", "answer"}
                    THEN disturbed \cup {s} ELSE disturbed
    /\ UNCHANGED <<document, store, codes, code, mine, overlap,
                   latest, overlapped, kept, uses, contested>>

(* A session closed meanwhile is not written, and the tokens are returned  *)
(* nevertheless.                                                           *)
rotate_Upsert(p) ==
    LET s == session[p] IN
    /\ pc[p] = "rotate" /\ user
    /\ sessions' = sessions \cup {s}
    /\ hash' = [hash EXCEPT ![s] = @ + 1]
    /\ mine' = [mine EXCEPT ![p] = hash[s] + 1]
    /\ Goto(p, "answer")
    /\ UNCHANGED <<document, since, opened, codes, session, code, overlap, history, started>>

rotate_OldHash(p) ==
    LET s == session[p] IN
    /\ pc[p] = "rotate" /\ user
    /\ hash' = [hash EXCEPT ![s] = IF s \in sessions THEN @ + 1 ELSE @]
    /\ mine' = [mine EXCEPT ![p] = hash[s]]
    /\ Goto(p, "answer")
    /\ UNCHANGED <<document, sessions, since, opened, codes, session, code, overlap,
                   history, started>>

rotate(p) ==
    LET s == session[p] IN
    /\ pc[p] = "rotate"
    /\ \/ ~user /\ Ended(p) /\ UNCHANGED hash
       \/ /\ user
          /\ hash' = [hash EXCEPT ![s] = IF s \in sessions THEN @ + 1 ELSE @]
          /\ mine' = [mine EXCEPT ![p] = hash[s] + 1]
          /\ Goto(p, "answer")
          /\ UNCHANGED <<session, code, overlap>>
    /\ UNCHANGED <<document, sessions, since, opened, codes, history, started>>

answer(p) ==
    /\ pc[p] = "answer"
    /\ latest' = [latest EXCEPT ![session[p]] = IF session[p] \in sessions THEN mine[p] ELSE @]
    /\ Ended(p)
    /\ UNCHANGED <<document, store, codes, disturbed, overlapped, kept, uses, contested, started>>

logout(s) ==
    /\ s \in sessions
    /\ sessions' = sessions \ {s}
    /\ UNCHANGED <<document, hash, since, opened, codes, requests, history, started>>

-----------------------------------------------------------------------------
(* Changes of the password.  resetPassword loads the user; update, with    *)
(* the old password, spares the session of its access token; PATCH of an   *)
(* administrator closes nothing.                                           *)
resetPassword(p) ==
    /\ user
    /\ Start(p, "close")
    /\ Meets(p, FALSE)
    /\ UNCHANGED <<document, store, codes, session, code, mine, history>>

update(p, s) ==
    /\ user /\ s \in opened
    /\ Start(p, "close")
    /\ session' = [session EXCEPT ![p] = s]
    /\ Meets(p, FALSE)
    /\ UNCHANGED <<document, store, codes, code, mine, history>>

patchUser(p) ==
    /\ user
    /\ Start(p, "patch")
    /\ Meets(p, FALSE)
    /\ UNCHANGED <<document, store, codes, session, code, mine, history>>

(* deleteByUserId, deleteByUserIdWithExclude.                              *)
deleteSessions(p) ==
    /\ pc[p] = "close"
    /\ sessions' = sessions \cap {session[p]}
    /\ Goto(p, "write")
    /\ UNCHANGED <<document, hash, since, opened, codes, session, code, mine, overlap,
                   history, started>>

(* UsersService.update, which writes nothing for a user that is gone.      *)
writePassword(p) ==
    /\ pc[p] \in {"write", "patch"}
    /\ password' = IF user THEN password + 1 ELSE password
    /\ kept' = IF pc[p] = "patch" THEN kept \cup sessions
               ELSE kept \cup (sessions \cap {session[p]})
    /\ uses' = [c \in Codes |-> IF c = code[p] THEN uses[c] + 1 ELSE uses[c]]
    /\ Ended(p)
    /\ UNCHANGED <<user, store, codes, latest, disturbed, overlapped, contested, started>>

remove ==
    /\ user
    /\ user' = FALSE
    /\ UNCHANGED <<password, store, codes, requests, history, started>>

-----------------------------------------------------------------------------
(* Codes.  A new code follows in a call of its own the invalidation of     *)
(* those that were not used: all of them, or those for a reset.            *)
sendPhoneOtp(p) ==
    /\ user
    /\ Start(p, "saveLogin")
    /\ otp' = [c \in Codes |-> IF otp[c] = "valid" THEN "used" ELSE otp[c]]
    /\ UNCHANGED <<document, store, purpose, session, code, mine, overlap, history>>

phoneForgotPassword(p) ==
    /\ user
    /\ Start(p, "saveReset")
    /\ otp' = [c \in Codes |-> IF otp[c] = "valid" /\ purpose[c] = "reset" THEN "used" ELSE otp[c]]
    /\ UNCHANGED <<document, store, purpose, session, code, mine, overlap, history>>

saveOtp(p) ==
    /\ pc[p] \in {"saveLogin", "saveReset"}
    /\ \E c \in Codes :
          /\ otp[c] = "none"
          /\ otp' = [otp EXCEPT ![c] = "valid"]
          /\ purpose' = [purpose EXCEPT ![c] = IF pc[p] = "saveReset" THEN "reset" ELSE "login"]
    /\ Ended(p)
    /\ UNCHANGED <<document, store, history, started>>

(* Five minutes pass; the database deletes the code some time later.       *)
expire(c) ==
    /\ otp[c] = "valid"
    /\ otp' = [otp EXCEPT ![c] = "expired"]
    /\ UNCHANGED <<document, store, purpose, requests, history, started>>

Find(p, c, next) ==
    /\ user /\ otp[c] = "valid"
    /\ Start(p, next)
    /\ code' = [code EXCEPT ![p] = c]
    /\ contested' = IF \E q \in Requests : code[q] = c THEN contested \cup {c} ELSE contested
    /\ UNCHANGED <<document, store, codes, session, latest, disturbed, overlapped, kept, uses>>

(* A code for a reset is as good for a login.                              *)
verifyPhoneOtp_NotMarked(p, c) ==
    /\ Find(p, c, "session")
    /\ mine' = [mine EXCEPT ![p] = password]
    /\ Meets(p, TRUE)

verifyPhoneOtp(p, c) ==
    /\ Find(p, c, "markLogin")
    /\ mine' = [mine EXCEPT ![p] = password]
    /\ Meets(p, TRUE)

phoneResetPassword(p, c) ==
    /\ purpose[c] = "reset"
    /\ Find(p, c, "markReset")
    /\ Meets(p, FALSE)
    /\ UNCHANGED mine

(* The save is rejected if the code was deleted after it expired.          *)
markUsed(p) ==
    LET c == code[p] IN
    /\ pc[p] \in {"markLogin", "markReset"}
    /\ \/ /\ Goto(p, IF pc[p] = "markLogin" THEN "session" ELSE "close")
          /\ otp' = [otp EXCEPT ![c] = "used"]
          /\ UNCHANGED <<session, code, mine, overlap>>
       \/ /\ otp[c] = "expired"
          /\ Ended(p)
          /\ UNCHANGED otp
    /\ UNCHANGED <<document, store, purpose, history, started>>

(* The database rejects a call, or the process ends: a reply may be lost.  *)
fails(p) ==
    /\ pc[p] # "idle"
    /\ disturbed' = disturbed \cup {s \in Ids : pc[p] = "answer" /\ s = session[p]}
    /\ Ended(p)
    /\ UNCHANGED <<document, store, codes, latest, overlapped, kept, uses, contested, started>>

-----------------------------------------------------------------------------
Login(p) ==
    \/ validateLogin(p)
    \/ createSession(p)

Refresh(p) ==
    \/ \E s \in Ids : refreshToken(p, s)
    \/ rotate(p)
    \/ answer(p)

Password(p) ==
    \/ resetPassword(p)
    \/ \E s \in Ids : update(p, s)
    \/ patchUser(p)
    \/ deleteSessions(p)
    \/ writePassword(p)

Otp(p) ==
    \/ sendPhoneOtp(p)
    \/ phoneForgotPassword(p)
    \/ saveOtp(p)
    \/ \E c \in Codes : verifyPhoneOtp(p, c) \/ phoneResetPassword(p, c)
    \/ markUsed(p)

Next ==
    \/ \E p \in Requests : Login(p) \/ Refresh(p) \/ Password(p) \/ Otp(p) \/ fails(p)
    \/ \E s \in Ids : logout(s)
    \/ \E c \in Codes : expire(c)
    \/ remove

Spec == Init /\ [][Next]_vars

-----------------------------------------------------------------------------
(* The tokens that a client received last renew its session, or newer ones *)
(* are on their way, unless two refreshes of the session overlapped or an  *)
(* answer was lost: the rotation of the hash logs nobody else out.         *)
RefreshContinues ==
    \A s \in sessions \ disturbed :
        \/ latest[s] = hash[s]
        \/ \E p \in Requests : pc[p] = "answer" /\ session[p] = s /\ mine[p] = hash[s]

(* A session whose login began before the password was last changed is     *)
(* closed, whatever refreshes write meanwhile; except those that a change  *)
(* spares and those of logins that overlapped a change.                    *)
PasswordChangeEndsSessions ==
    \A s \in sessions \ (kept \cup overlapped) : since[s] = password

(* "Marked true after a successful verify - prevents reuse"                *)
(* (otp.schema.ts:20): a code serves once, unless requests with it overlap.*)
CodeOnce == \A c \in Codes \ contested : uses[c] <= 1
=============================================================================

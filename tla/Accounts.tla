------------------------------- MODULE Accounts -------------------------------
(***************************************************************************)
(* One account: its password, second factor, sessions and one-time links,  *)
(* and the request handlers that change them at the same time              *)
(* (routers/auth.py, dependencies.py, bootstrap_admin.py).                 *)
(*                                                                         *)
(* A handler is a transaction that takes row locks one after the other and *)
(* commits; other transactions run between its steps.  seen[r] is the user *)
(* row as the handler read it when it had locked it.  A session is looked  *)
(* up before the lock, so it may be revoked when the handler writes.       *)
(* Passwords and TOTP secrets are numbered in the order they come to be;   *)
(* the row keeps a hash, and the session only that a factor was verified:  *)
(* with which password and which secret a session was opened, and in which *)
(* era (between two resets) a link was issued, is history.                 *)
(***************************************************************************)
EXTENDS Integers, FiniteSets

CONSTANTS
  Requests,       \* handlers that may be under way together
  Null,           \* no handler, no session
  Sessions,       \* rows of auth_sessions
  Codes,          \* the recovery codes of one set
  MaxTokens,      \* bound: links ever issued
  MaxPasswords,   \* bound: passwords ever set
  MaxSecrets      \* bound: TOTP secrets ever drawn

ASSUME AccountsAssumption ==
  /\ Null \notin Requests \cup Sessions
  /\ MaxTokens \in Nat \ {0} /\ MaxPasswords \in Nat \ {0} /\ MaxSecrets \in Nat

Tokens == 1 .. MaxTokens
UserRows == [exists : BOOLEAN, pw : 0 .. MaxPasswords, verified : BOOLEAN, admin : BOOLEAN,
             secret : 0 .. MaxSecrets, pending : 0 .. MaxSecrets, codes : SUBSET Codes]
SessionRows == [state : {"none", "open", "ended"}, pw : 0 .. MaxPasswords,
                mfa : 0 .. MaxSecrets]
TokenRows == [kind : {"none", "verify", "recover"}, fresh : BOOLEAN, era : 0 .. MaxPasswords]
Ops == {"none", "login", "setup", "confirm", "disable", "resend", "verify",
        "requestRecovery", "recover"}

VARIABLES
  user, session, token,      \* rows
  issued, drawn,             \* links and secrets so far
  cooling,                   \* the newest verification link is very young
  userLock, tokenLock,       \* row locks
  op, sess, link, seen,      \* handlers
  era, spent, uses           \* history: resets, codes used of this set, uses of a link

rows == <<user, session, token, issued, drawn, cooling>>
locks == <<userLock, tokenLock>>
handlers == <<op, sess, link, seen>>
history == <<era, spent, uses>>
vars == <<rows, locks, handlers, history>>

NoUser == [exists |-> FALSE, pw |-> 0, verified |-> FALSE, admin |-> FALSE,
           secret |-> 0, pending |-> 0, codes |-> {}]
NoSession == [state |-> "none", pw |-> 0, mfa |-> 0]
NoToken == [kind |-> "none", fresh |-> FALSE, era |-> 0]
NoLink == 0

Init ==
  /\ user = NoUser
  /\ session = [s \in Sessions |-> NoSession]
  /\ token = [t \in Tokens |-> NoToken] /\ issued = 0 /\ drawn = 0 /\ cooling = FALSE
  /\ userLock = Null /\ tokenLock = [t \in Tokens |-> Null]
  /\ op = [r \in Requests |-> "none"] /\ sess = [r \in Requests |-> Null]
  /\ link = [r \in Requests |-> NoLink] /\ seen = [r \in Requests |-> NoUser]
  /\ era = 0 /\ spent = {} /\ uses = [t \in Tokens |-> 0]

-----------------------------------------------------------------------------
(* Rows and locks. *)

\* current_auth_session
Usable(s) == session[s].state = "open"

\* Issued, not consumed and not expired.
Fresh(t, kind) == token[t].kind = kind /\ token[t].fresh

\* Mutation: the row is read without FOR UPDATE.
RowMayBeReadAny(r) == TRUE

\* SELECT ... FOR UPDATE of the user row waits for the transaction that holds it.
UserIsFree(r) == userLock \in {Null, r}

TokenIsFree(r, t) == tokenLock[t] \in {Null, r}

\* Mutation: a problem leaves the transaction open.
ReleaseKeepsUser(r) ==
  /\ UNCHANGED <<userLock, tokenLock>>
  /\ op' = [op EXCEPT ![r] = "none"] /\ sess' = [sess EXCEPT ![r] = Null]
  /\ link' = [link EXCEPT ![r] = NoLink] /\ seen' = [seen EXCEPT ![r] = NoUser]

\* The transaction of r ends: its locks are released, its reads forgotten.
Release(r) ==
  /\ userLock' = IF userLock = r THEN Null ELSE userLock
  /\ tokenLock' = [t \in Tokens |-> IF tokenLock[t] = r THEN Null ELSE tokenLock[t]]
  /\ op' = [op EXCEPT ![r] = "none"] /\ sess' = [sess EXCEPT ![r] = Null]
  /\ link' = [link EXCEPT ![r] = NoLink] /\ seen' = [seen EXCEPT ![r] = NoUser]

\* _new_one_time_token, on top of the rows in older
NewToken(older, kind) ==
  /\ issued < MaxTokens
  /\ issued' = issued + 1
  /\ token' = [older EXCEPT ![issued + 1] =
                 [kind |-> kind, fresh |-> TRUE, era |-> IF kind = "recover" THEN era ELSE 0]]

Used(t) == [token[t] EXCEPT !.fresh = FALSE, !.era = 0]

\* Every link of a kind.
ConsumeAll(kind) == [t \in Tokens |-> IF token[t].kind = kind THEN Used(t) ELSE token[t]]

\* Mutation: only the link that was followed is consumed.
ConsumeOwnOnly(r) == [token EXCEPT ![link[r]] = Used(link[r])]

ConsumeRecovery(r) == ConsumeAll("recover")

Over == [state |-> "ended", pw |-> 0, mfa |-> 0]
Ended(s) == IF Usable(s) THEN Over ELSE session[s]

\* _revoke_other_sessions; the own session takes note of the factor, which nobody
\* reads once it has ended.
RevokeOthers(r, mfa) ==
  [s \in Sessions |-> IF s = sess[r] /\ Usable(s) THEN [session[s] EXCEPT !.mfa = mfa]
                      ELSE Ended(s)]

RevokeAll == [s \in Sessions |-> Ended(s)]

-----------------------------------------------------------------------------
(* Requests arrive. *)

\* An e-mail address without an account is registered; the unique index decides
\* between two registrations and a bootstrap.
Register ==
  /\ ~user.exists
  /\ user' = [NoUser EXCEPT !.exists = TRUE, !.pw = 1]
  /\ NewToken(token, "verify")
  /\ cooling' = TRUE
  /\ UNCHANGED <<session, drawn, locks, handlers, history>>

\* setup_totp, confirm_totp, disable_totp: the session is checked first.
Authenticate(r, s, o) ==
  /\ op[r] = "none" /\ Usable(s)
  /\ o \in {"setup", "confirm", "disable"}
  /\ op' = [op EXCEPT ![r] = o] /\ sess' = [sess EXCEPT ![r] = s]
  /\ UNCHANGED <<rows, locks, link, seen, history>>

\* verify_email locks the link.
FollowVerificationLink(r, t) ==
  /\ op[r] = "none" /\ Fresh(t, "verify") /\ TokenIsFree(r, t)
  /\ op' = [op EXCEPT ![r] = "verify"] /\ link' = [link EXCEPT ![r] = t]
  /\ tokenLock' = [tokenLock EXCEPT ![t] = r]
  /\ UNCHANGED <<rows, userLock, sess, seen, history>>

\* confirm_recovery reads the link without a lock.
FollowRecoveryLink(r, t) ==
  /\ op[r] = "none" /\ Fresh(t, "recover")
  /\ op' = [op EXCEPT ![r] = "recover"] /\ link' = [link EXCEPT ![r] = t]
  /\ UNCHANGED <<rows, locks, sess, seen, history>>

\* _locked_user and its likes: the handler goes on with the row of this moment.
\* login, request_verification and request_recovery begin here.
LockUser(r, o) ==
  /\ user.exists /\ ~seen[r].exists
  /\ \/ op[r] = o /\ o \notin {"none", "verify"}
     \/ op[r] = "none" /\ o \in {"login", "resend", "requestRecovery"}
  /\ UserIsFree(r)
  /\ op' = [op EXCEPT ![r] = o]
  /\ userLock' = r /\ seen' = [seen EXCEPT ![r] = user]
  /\ UNCHANGED <<rows, tokenLock, sess, link, history>>

\* Mutation: a reset may lock its link before the account.
TokenTurnAny(r) == op[r] = "recover"

\* The account first, then the link: the lock order of every reset.
TokenTurn(r) == op[r] = "recover" /\ seen[r].exists

LockRecoveryToken(r) ==
  /\ TokenTurn(r)
  /\ tokenLock[link[r]] = Null
  /\ tokenLock' = [tokenLock EXCEPT ![link[r]] = r]
  /\ UNCHANGED <<rows, userLock, handlers, history>>
-----------------------------------------------------------------------------
(* Commits.  A row is written as far as the handler changes it. *)

Ready(r, o) == op[r] = o /\ seen[r].exists

\* Mutation: a recovery code is accepted and stays.
FactorGivenForFree(r) ==
  /\ user' = user /\ spent' \in {spent} \cup {spent \cup {c} : c \in seen[r].codes}

\* _verify_current_factor: a TOTP code changes nothing, a recovery code is taken
\* out of the set as it was read.
FactorGiven(r) ==
  \/ user' = user /\ UNCHANGED spent
  \/ \E c \in seen[r].codes :
       /\ user' = [user EXCEPT !.codes = seen[r].codes \ {c}]
       /\ spent' = spent \cup {c}

\* login with the right password and, where one is set up, a factor.
CommitLogin(r) ==
  /\ Ready(r, "login") /\ seen[r].verified
  /\ IF seen[r].secret = 0 THEN UNCHANGED <<user, spent>> ELSE FactorGiven(r)
  /\ \E s \in Sessions :
       /\ session[s].state = "none"
       /\ session' = [session EXCEPT ![s] =
                        [state |-> "open", pw |-> seen[r].pw, mfa |-> seen[r].secret]]
  /\ Release(r)
  /\ UNCHANGED <<token, issued, drawn, cooling, era, uses>>

\* setup_totp: a new secret waits for its confirmation.
CommitSetup(r) ==
  /\ Ready(r, "setup") /\ drawn < MaxSecrets
  /\ drawn' = drawn + 1
  /\ \E codes \in SUBSET seen[r].codes :
       /\ IF seen[r].secret = 0 THEN codes = seen[r].codes
          ELSE Cardinality(seen[r].codes \ codes) <= 1
       /\ user' = [user EXCEPT !.pending = drawn + 1, !.codes = codes]
       /\ spent' = spent \cup (seen[r].codes \ codes)
  /\ Release(r)
  /\ UNCHANGED <<session, token, issued, cooling, era, uses>>

\* confirm_totp: the pending secret becomes the secret, with new recovery codes.
CommitConfirm(r) ==
  /\ Ready(r, "confirm") /\ seen[r].pending # 0
  /\ user' = [user EXCEPT !.secret = seen[r].pending, !.pending = 0, !.codes = Codes]
  /\ spent' = {}
  /\ session' = RevokeOthers(r, seen[r].pending)
  /\ Release(r)
  /\ UNCHANGED <<token, issued, drawn, cooling, era, uses>>

CommitDisable(r) ==
  /\ Ready(r, "disable") /\ ~seen[r].admin /\ seen[r].secret # 0
  /\ user' = [user EXCEPT !.secret = 0, !.pending = 0, !.codes = {}]
  /\ spent' = {}
  /\ session' = RevokeOthers(r, 0)
  /\ Release(r)
  /\ UNCHANGED <<token, issued, drawn, cooling, era, uses>>

\* The verified address is an UPDATE of the user row, which waits for its lock.
CommitVerify(r) ==
  /\ op[r] = "verify" /\ UserIsFree(r)
  /\ user' = [user EXCEPT !.verified = TRUE]
  /\ token' = [token EXCEPT ![link[r]] = Used(link[r])]
  /\ uses' = [uses EXCEPT ![link[r]] = @ + 1]
  /\ Release(r)
  /\ UNCHANGED <<session, issued, drawn, cooling, era, spent>>

VerifyTokens == {t \in Tokens : token[t].kind = "verify"}
Newest(S) == {t \in S : \A q \in S : q <= t}

\* request_verification: a link that is young stays; otherwise one new link
\* replaces all others.  Reading the newest one and consuming them takes locks.
CommitResend(r) ==
  /\ Ready(r, "resend")
  /\ IF seen[r].verified
     THEN UNCHANGED <<token, issued, cooling>>
     ELSE /\ \A t \in VerifyTokens : TokenIsFree(r, t)
          /\ IF cooling /\ \E t \in Newest(VerifyTokens) : Fresh(t, "verify")
             THEN UNCHANGED <<token, issued, cooling>>
             ELSE NewToken(ConsumeAll("verify"), "verify") /\ cooling' = TRUE
  /\ Release(r)
  /\ UNCHANGED <<user, session, drawn, history>>

CommitRequestRecovery(r) ==
  /\ Ready(r, "requestRecovery")
  /\ NewToken(token, "recover")
  /\ Release(r)
  /\ UNCHANGED <<user, session, drawn, cooling, history>>

StillFresh(r) == Fresh(link[r], "recover")

\* confirm_recovery: a new password ends every session and every recovery link.
CommitRecovery(r) ==
  /\ Ready(r, "recover") /\ tokenLock[link[r]] = r
  /\ StillFresh(r)
  /\ \A t \in Tokens : Fresh(t, "recover") => TokenIsFree(r, t)
  /\ user.pw < MaxPasswords
  /\ user' = [user EXCEPT !.pw = @ + 1]
  /\ token' = ConsumeRecovery(r)
  /\ session' = RevokeAll
  /\ era' = era + 1 /\ uses' = [uses EXCEPT ![link[r]] = @ + 1]
  /\ Release(r)
  /\ UNCHANGED <<issued, drawn, cooling, spent>>

\* A wrong password or code, a busy hasher, a rate limit, a link that is no longer
\* fresh: the problem is raised and the transaction rolled back.
Refused(r) ==
  /\ op[r] # "none"
  /\ Release(r)
  /\ UNCHANGED <<rows, history>>

-----------------------------------------------------------------------------
\* logout; a session whose lifetime ends is as unusable.
Logout(s) ==
  /\ Usable(s)
  /\ session' = [session EXCEPT ![s] = Over]
  /\ UNCHANGED <<user, token, issued, drawn, cooling, locks, handlers, history>>

\* bootstrap_platform_admin, a command: creates, promotes, resets.
Bootstrap(reset) ==
  LET revoke == user.exists /\ (~user.admin \/ reset) IN
  /\ userLock = Null
  /\ reset => user.exists /\ user.pw < MaxPasswords
  /\ user' = [user EXCEPT !.exists = TRUE, !.verified = TRUE, !.admin = TRUE,
                          !.pw = IF ~user.exists THEN 1 ELSE IF reset THEN @ + 1 ELSE @]
  /\ session' = IF revoke THEN RevokeAll ELSE session
  /\ UNCHANGED <<token, issued, drawn, cooling, locks, handlers, history>>

\* Lifetimes end.
TokenExpires(t) ==
  /\ token[t].fresh
  /\ token' = [token EXCEPT ![t] = Used(t)]
  /\ UNCHANGED <<user, session, issued, drawn, cooling, locks, handlers, history>>

CooldownEnds ==
  /\ cooling /\ cooling' = FALSE
  /\ UNCHANGED <<user, session, token, issued, drawn, locks, handlers, history>>

-----------------------------------------------------------------------------
(* Who waits for whom: the rows a handler needs for its next step. *)

NeedsUser(r) ==
  \/ op[r] = "verify"
  \/ op[r] \notin {"none", "verify"} /\ ~seen[r].exists

NeededTokens(r) ==
  CASE Ready(r, "resend") /\ ~seen[r].verified -> VerifyTokens
    [] Ready(r, "recover") -> {link[r]} \cup {t \in Tokens : Fresh(t, "recover")}
    [] OTHER -> {}

WaitsFor(r, q) ==
  \/ NeedsUser(r) /\ userLock = q
  \/ \E t \in NeededTokens(r) : tokenLock[t] = q

Deadlocked(r, q) == r # q /\ WaitsFor(r, q) /\ WaitsFor(q, r)

\* PostgreSQL ends one of two transactions that wait for each other.
DeadlockVictim(r) ==
  /\ \E q \in Requests : Deadlocked(r, q)
  /\ Release(r)
  /\ UNCHANGED <<rows, history>>

-----------------------------------------------------------------------------
Commit(r) ==
  \/ CommitLogin(r) \/ CommitSetup(r) \/ CommitConfirm(r) \/ CommitDisable(r)
  \/ CommitVerify(r) \/ CommitResend(r) \/ CommitRequestRecovery(r) \/ CommitRecovery(r)

Next ==
  \/ Register
  \/ \E r \in Requests, s \in Sessions, o \in Ops : Authenticate(r, s, o)
  \/ \E r \in Requests, t \in Tokens : FollowVerificationLink(r, t) \/ FollowRecoveryLink(r, t)
  \/ \E r \in Requests, o \in Ops : LockUser(r, o)
  \/ \E r \in Requests : LockRecoveryToken(r)
  \/ \E r \in Requests : Commit(r) \/ Refused(r) \/ DeadlockVictim(r)
  \/ \E s \in Sessions : Logout(s)
  \/ \E reset \in BOOLEAN : Bootstrap(reset)
  \/ \E t \in Tokens : TokenExpires(t)
  \/ CooldownEnds

Spec == Init /\ [][Next]_vars

-----------------------------------------------------------------------------
(* Properties. *)

\* Rows, locks and handlers have values of their types, and locks belong to handlers
\* that are under way.
TypeOK ==
  /\ user \in UserRows
  /\ session \in [Sessions -> SessionRows]
  /\ token \in [Tokens -> TokenRows] /\ issued \in 0 .. MaxTokens /\ drawn \in 0 .. MaxSecrets
  /\ cooling \in BOOLEAN
  /\ userLock \in Requests \cup {Null}
  /\ tokenLock \in [Tokens -> Requests \cup {Null}]
  /\ op \in [Requests -> Ops] /\ sess \in [Requests -> Sessions \cup {Null}]
  /\ link \in [Requests -> Tokens \cup {NoLink}]
  /\ seen \in [Requests -> UserRows]
  /\ \A r \in Requests : userLock = r => seen[r].exists
  /\ \A r \in Requests, t \in Tokens : tokenLock[t] = r => link[r] = t
  /\ era \in 0 .. MaxPasswords /\ spent \subseteq Codes /\ uses \in [Tokens -> Nat]

\* platform_admin_user, its age limit left out: it only narrows this.
MayAdminister(s) ==
  Usable(s) /\ user.admin /\ user.secret # 0 /\ session[s].mfa # 0

\* A session that works was opened with the password of today, and who may administer
\* the platform has proved the second factor of today: a login, a set-up, a
\* confirmation or a removal that runs while the password is reset (by link or
\* by command) or the factor replaced never outlives that, although all but the
\* login trust a session they looked up before (confirm_recovery, confirm_totp,
\* disable_totp, bootstrap_platform_admin).
SessionsAreCurrent ==
  \A s \in Sessions :
    /\ Usable(s) => session[s].pw = user.pw
    /\ MayAdminister(s) => session[s].mfa = user.secret

\* A recovery code that was accepted is gone for good: no concurrent login or
\* set-up writes back a set that still contains it.
SpentCodesStaySpent == spent \cap user.codes = {}

\* A link works once; after a resend only the newest verification link works, and
\* after a reset by link no recovery link that was issued before it.
LinksWorkOnce ==
  /\ \A t \in Tokens : uses[t] <= 1
  /\ \A t, q \in Tokens : Fresh(t, "verify") /\ Fresh(q, "verify") => t = q
  /\ \A t \in Tokens : Fresh(t, "recover") => token[t].era = era

\* Two handlers wait for each other only if one verifies the address and the other
\* resends the link; resets, with their many links of one account, never do
\* (the comment in confirm_recovery on its lock order).
OnlyVerificationDeadlocks ==
  \A r, q \in Requests : Deadlocked(r, q) => {op[r], op[q]} = {"verify", "resend"}

=============================================================================

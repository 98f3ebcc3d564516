----------------------------- MODULE AccountsProofs -----------------------------
(* Proofs about Accounts, for every value of its constants. *)
EXTENDS Accounts, TLAPS

-----------------------------------------------------------------------------
(* Invariants. *)

\* Type correctness, part by part.
UserTyped == user \in UserRows
SessionTyped == session \in [Sessions -> SessionRows]
TokenTyped == token \in [Tokens -> TokenRows] /\ issued \in 0 .. MaxTokens
NumbersTyped ==
  /\ drawn \in 0 .. MaxSecrets /\ cooling \in BOOLEAN
  /\ era \in 0 .. MaxPasswords /\ spent \subseteq Codes /\ uses \in [Tokens -> Nat]
HandlersTyped ==
  /\ userLock \in Requests \cup {Null}
  /\ tokenLock \in [Tokens -> Requests \cup {Null}]
  /\ op \in [Requests -> Ops] /\ sess \in [Requests -> Sessions \cup {Null}]
  /\ link \in [Requests -> Tokens \cup {NoLink}]
  /\ seen \in [Requests -> UserRows]
LocksTyped ==
  /\ \A r \in Requests : userLock = r => seen[r].exists
  /\ \A r \in Requests, t \in Tokens : tokenLock[t] = r => link[r] = t

\* Every reset by link is a new password, and there is none before the account.
UserInv == era <= user.pw /\ (~user.exists => user.pw = 0)

\* A handler has read the account under its lock; a verification holds its link from
\* the start and never the account, a reset only takes its link after the account.
Holds(r) ==
  /\ seen[r].exists => userLock = r
  /\ link[r] # NoLink <=> op[r] \in {"verify", "recover"}
  /\ op[r] = "none" => ~seen[r].exists
  /\ op[r] = "verify" => ~seen[r].exists /\ tokenLock[link[r]] = r
  /\ op[r] = "recover" /\ tokenLock[link[r]] = r => seen[r].exists

\* What was read under the lock is still so.
SeesTruth == \A r \in Requests : seen[r].exists => seen[r] = user

TypeInv == TypeOK /\ UserInv /\ SeesTruth /\ \A r \in Requests : Holds(r)

\* An open session is of today's password, and of today's second factor or of none.
SessionInv ==
  \A s \in Sessions : Usable(s) =>
    user.exists /\ session[s].pw = user.pw /\ session[s].mfa \in {0, user.secret}

\* Links come one after the other and are used while they are fresh, or locked by the
\* verification that is going to use them.
Unissued == \A t \in Tokens : t > issued => token[t] = NoToken /\ uses[t] = 0
FreshInv == \A t \in Tokens : token[t].fresh => uses[t] = 0
LinkOf(r) ==
  /\ op[r] = "verify" => token[link[r]].kind = "verify" /\ uses[link[r]] = 0
  /\ op[r] = "recover" => token[link[r]].kind = "recover"

LinkInv ==
  /\ ~user.exists => issued = 0
  /\ Unissued /\ FreshInv /\ LinksWorkOnce
  /\ \A r \in Requests : LinkOf(r)

-----------------------------------------------------------------------------
(* Steps. *)

Arrives(r) ==
  \/ \E s \in Sessions, o \in Ops : Authenticate(r, s, o)
  \/ \E t \in Tokens : FollowVerificationLink(r, t) \/ FollowRecoveryLink(r, t)

Waits(r) == LockRecoveryToken(r) \/ \E o \in Ops : LockUser(r, o)

Ends(r) == Commit(r) \/ Refused(r) \/ DeadlockVictim(r)

HandlerStep(r) == Arrives(r) \/ Waits(r) \/ Ends(r)

\* What no handler of these does.
Apart ==
  \/ Register \/ CooldownEnds
  \/ \E s \in Sessions : Logout(s)
  \/ \E reset \in BOOLEAN : Bootstrap(reset)
  \/ \E t \in Tokens : TokenExpires(t)

LEMMA NextSteps == [Next]_vars => (\E r \in Requests : HandlerStep(r)) \/ Apart \/ UNCHANGED vars
<1>1. Next => (\E r \in Requests : HandlerStep(r)) \/ Apart
  BY DEF Next, HandlerStep, Arrives, Waits, Ends, Apart
<1> QED
  BY <1>1

LEMMA ApartKeepsHandlers == Apart => UNCHANGED <<locks, handlers>>
  BY DEF Apart, Register, CooldownEnds, Logout, Bootstrap, TokenExpires

LEMMA EndsReleases == ASSUME NEW r, Ends(r) PROVE Release(r)
  BY DEF Ends, Commit, CommitLogin, CommitSetup, CommitConfirm, CommitDisable, CommitVerify,
     CommitResend, CommitRequestRecovery, CommitRecovery, Refused, DeadlockVictim

LEMMA OthersKeepRows ==
  ASSUME NEW r, Arrives(r) \/ Waits(r) PROVE UNCHANGED <<rows, history>>
  BY DEF Arrives, Waits, Authenticate, FollowVerificationLink, FollowRecoveryLink, LockUser,
     LockRecoveryToken

\* Who changes which rows.
LEMMA UserChanges ==
  ASSUME [Next]_vars
  PROVE  \/ UNCHANGED user
         \/ Register \/ \E reset \in BOOLEAN : Bootstrap(reset)
         \/ \E r \in Requests : CommitLogin(r) \/ CommitSetup(r) \/ CommitConfirm(r)
                                  \/ CommitDisable(r) \/ CommitVerify(r) \/ CommitRecovery(r)
<1>1. Apart => UNCHANGED user \/ Register \/ \E reset \in BOOLEAN : Bootstrap(reset)
  BY DEF Apart, CooldownEnds, Logout, TokenExpires
<1>2. ASSUME NEW r \in Requests, Ends(r)
      PROVE  UNCHANGED user \/ CommitLogin(r) \/ CommitSetup(r) \/ CommitConfirm(r)
                                  \/ CommitDisable(r) \/ CommitVerify(r) \/ CommitRecovery(r)
  BY <1>2 DEF Ends, Commit, CommitResend, CommitRequestRecovery, Refused, DeadlockVictim, rows
<1>3. UNCHANGED vars => UNCHANGED user
  BY DEF vars, rows
<1>4. ASSUME NEW r \in Requests, Arrives(r) \/ Waits(r) PROVE UNCHANGED user
  BY <1>4, OthersKeepRows DEF rows
<1> QED
  BY <1>1, <1>2, <1>3, <1>4, NextSteps DEF HandlerStep

LEMMA SessionChanges ==
  ASSUME [Next]_vars
  PROVE  \/ UNCHANGED session
         \/ \E reset \in BOOLEAN : Bootstrap(reset)
         \/ \E s \in Sessions : Logout(s)
         \/ \E r \in Requests : CommitLogin(r) \/ CommitConfirm(r) \/ CommitDisable(r)
                                  \/ CommitRecovery(r)
<1>1. Apart => \/ UNCHANGED session \/ \E reset \in BOOLEAN : Bootstrap(reset)
               \/ \E s \in Sessions : Logout(s)
  BY DEF Apart, Register, CooldownEnds, TokenExpires
<1>2. ASSUME NEW r \in Requests, Ends(r)
      PROVE  UNCHANGED session \/ CommitLogin(r) \/ CommitConfirm(r) \/ CommitDisable(r)
                                  \/ CommitRecovery(r)
  BY <1>2 DEF Ends, Commit, CommitSetup, CommitVerify, CommitResend, CommitRequestRecovery,
     Refused, DeadlockVictim, rows
<1>3. UNCHANGED vars => UNCHANGED session
  BY DEF vars, rows
<1>4. ASSUME NEW r \in Requests, Arrives(r) \/ Waits(r) PROVE UNCHANGED session
  BY <1>4, OthersKeepRows DEF rows
<1> QED
  BY <1>1, <1>2, <1>3, <1>4, NextSteps DEF HandlerStep

LEMMA TokenChanges ==
  ASSUME [Next]_vars
  PROVE  \/ UNCHANGED <<token, issued, uses, era>>
         \/ Register \/ \E t \in Tokens : TokenExpires(t)
         \/ \E r \in Requests : CommitVerify(r) \/ CommitResend(r) \/ CommitRequestRecovery(r)
                                  \/ CommitRecovery(r)
<1>1. Apart => UNCHANGED <<token, issued, uses, era>> \/ Register \/ \E t \in Tokens : TokenExpires(t)
  BY DEF Apart, CooldownEnds, Logout, Bootstrap, history
<1>2. ASSUME NEW r \in Requests, Ends(r)
      PROVE  UNCHANGED <<token, issued, uses, era>> \/ CommitVerify(r) \/ CommitResend(r)
                \/ CommitRequestRecovery(r) \/ CommitRecovery(r)
  BY <1>2 DEF Ends, Commit, CommitLogin, CommitSetup, CommitConfirm, CommitDisable,
     Refused, DeadlockVictim, rows, history
<1>3. UNCHANGED vars => UNCHANGED <<token, issued, uses, era>>
  BY DEF vars, rows, history
<1>4. ASSUME NEW r \in Requests, Arrives(r) \/ Waits(r) PROVE UNCHANGED <<token, issued, uses, era>>
  BY <1>4, OthersKeepRows DEF rows, history
<1> QED
  BY <1>1, <1>2, <1>3, <1>4, NextSteps DEF HandlerStep

-----------------------------------------------------------------------------
(* Types *)

LEMMA TypeParts ==
  TypeOK <=> /\ UserTyped /\ SessionTyped /\ TokenTyped /\ NumbersTyped /\ HandlersTyped
             /\ LocksTyped
  BY DEF TypeOK, UserTyped, SessionTyped, TokenTyped, NumbersTyped, HandlersTyped, LocksTyped

LEMMA TypePartsPrimed ==
  TypeOK' <=> /\ UserTyped' /\ SessionTyped' /\ TokenTyped' /\ NumbersTyped' /\ HandlersTyped'
              /\ LocksTyped'
  BY DEF TypeOK, UserTyped, SessionTyped, TokenTyped, NumbersTyped, HandlersTyped, LocksTyped

\* Null is no handler, and what is there before anything else has its type.
LEMMA Nothing ==
  /\ Null \notin Requests /\ NoLink \notin Tokens
  /\ MaxTokens \in Nat \ {0} /\ MaxPasswords \in Nat \ {0} /\ MaxSecrets \in Nat
  /\ NoUser \in UserRows /\ ~NoUser.exists /\ NoUser.pw = 0 /\ NoUser.codes = {}
  /\ NoToken \in TokenRows /\ ~NoToken.fresh /\ NoToken.kind = "none"
  /\ Over \in SessionRows /\ Over.state = "ended"
<1>1. 0 \in 0 .. MaxPasswords /\ 0 \in 0 .. MaxSecrets /\ 0 \notin 1 .. MaxTokens
  BY AccountsAssumption
<1> QED
  BY <1>1, AccountsAssumption DEF NoUser, UserRows, NoToken, TokenRows, Over, SessionRows, Tokens, NoLink

\* A transaction that ends forgets everything and gives its locks away.
LEMMA ReleaseEffect ==
  ASSUME HandlersTyped, NEW r \in Requests, Release(r)
  PROVE  /\ HandlersTyped'
         /\ op'[r] = "none" /\ link'[r] = NoLink /\ seen'[r] = NoUser
         /\ userLock' = IF userLock = r THEN Null ELSE userLock
         /\ \A t \in Tokens : tokenLock'[t] = IF tokenLock[t] = r THEN Null ELSE tokenLock[t]
  BY Nothing DEF HandlersTyped, Release, Ops

\* A handler's step leaves the others as they are, with the locks they have.
LEMMA OthersStay ==
  ASSUME HandlersTyped, LocksTyped, NEW r \in Requests, HandlerStep(r), NEW q \in Requests, q # r
  PROVE  /\ op'[q] = op[q] /\ link'[q] = link[q] /\ seen'[q] = seen[q]
         /\ userLock' = q <=> userLock = q
         /\ \A t \in Tokens : tokenLock'[t] = q <=> tokenLock[t] = q
<1> USE Nothing
<1>1. CASE Ends(r)
  BY <1>1, EndsReleases DEF Release, HandlersTyped
<1>2. ASSUME NEW t \in Tokens, FollowVerificationLink(r, t)
      PROVE  /\ op'[q] = op[q] /\ link'[q] = link[q] /\ seen'[q] = seen[q]
             /\ userLock' = q <=> userLock = q
             /\ \A x \in Tokens : tokenLock'[x] = q <=> tokenLock[x] = q
  BY <1>2 DEF FollowVerificationLink, TokenIsFree, HandlersTyped
<1>3. CASE LockRecoveryToken(r)
  BY <1>3 DEF LockRecoveryToken, handlers, HandlersTyped
<1>4. ASSUME NEW o \in Ops, LockUser(r, o)
      PROVE  /\ op'[q] = op[q] /\ link'[q] = link[q] /\ seen'[q] = seen[q]
             /\ userLock' = q <=> userLock = q
             /\ tokenLock' = tokenLock
  BY <1>4 DEF LockUser, UserIsFree, HandlersTyped
<1>5. ASSUME NEW s \in Sessions, NEW o \in Ops, Authenticate(r, s, o)
      PROVE  /\ op'[q] = op[q] /\ UNCHANGED <<link, seen, locks>>
  BY <1>5 DEF Authenticate, HandlersTyped
<1>6. ASSUME NEW t \in Tokens, FollowRecoveryLink(r, t)
      PROVE  /\ op'[q] = op[q] /\ link'[q] = link[q] /\ UNCHANGED <<seen, locks>>
  BY <1>6 DEF FollowRecoveryLink, HandlersTyped
<1> QED
  BY <1>1, <1>2, <1>3, <1>4, <1>5, <1>6 DEF HandlerStep, Arrives, Waits, locks

\* The handler itself.
LEMMA OwnStep ==
  ASSUME TypeInv, NEW r \in Requests, HandlerStep(r)
  PROVE  /\ HandlersTyped' /\ Holds(r)'
         /\ userLock' = r => seen'[r].exists
         /\ \A t \in Tokens : tokenLock'[t] = r => link'[r] = t
<1>1. UserTyped /\ HandlersTyped /\ LocksTyped /\ Holds(r)
  BY TypeParts DEF TypeInv
<1> USE Nothing
<1> DEFINE Result == /\ HandlersTyped' /\ Holds(r)'
                     /\ userLock' = r => seen'[r].exists
                     /\ \A t \in Tokens : tokenLock'[t] = r => link'[r] = t
<1>2. ASSUME Ends(r) PROVE Result
  <2>1. Release(r)
    BY <1>2, EndsReleases
  <2>2. /\ HandlersTyped'
        /\ op'[r] = "none" /\ link'[r] = NoLink /\ seen'[r] = NoUser
        /\ userLock' = IF userLock = r THEN Null ELSE userLock
        /\ \A t \in Tokens : tokenLock'[t] = IF tokenLock[t] = r THEN Null ELSE tokenLock[t]
    BY <1>1, <2>1, ReleaseEffect
  <2> QED
    BY <2>2 DEF Holds
<1>3. ASSUME op[r] = "none" PROVE /\ userLock # r /\ \A t \in Tokens : tokenLock[t] # r
                                  /\ link[r] = NoLink /\ ~seen[r].exists
  BY <1>1, <1>3 DEF Holds, LocksTyped
<1>4. ASSUME NEW s \in Sessions, NEW o \in Ops, Authenticate(r, s, o) PROVE Result
  <2>1. HandlersTyped' /\ op'[r] = o /\ UNCHANGED <<link, seen, locks>>
    BY <1>1, <1>4 DEF Authenticate, HandlersTyped, locks
  <2> QED
    BY <1>3, <1>4, <2>1 DEF Holds, Authenticate, locks
<1>5. ASSUME NEW t \in Tokens, FollowVerificationLink(r, t) PROVE Result
  <2>1. /\ HandlersTyped' /\ op'[r] = "verify" /\ link'[r] = t /\ UNCHANGED <<userLock, seen>>
        /\ tokenLock'[t] = r /\ \A x \in Tokens : x # t => tokenLock'[x] = tokenLock[x]
    BY <1>1, <1>5 DEF FollowVerificationLink, HandlersTyped, Ops
  <2>2. op[r] = "none"
    BY <1>5 DEF FollowVerificationLink
  <2> QED
    BY <1>3, <2>1, <2>2 DEF Holds
<1>6. ASSUME NEW t \in Tokens, FollowRecoveryLink(r, t) PROVE Result
  <2>1. /\ HandlersTyped' /\ op'[r] = "recover" /\ link'[r] = t /\ UNCHANGED <<locks, seen>>
    BY <1>1, <1>6 DEF FollowRecoveryLink, HandlersTyped, Ops, locks
  <2>2. op[r] = "none"
    BY <1>6 DEF FollowRecoveryLink
  <2> QED
    BY <1>3, <2>1, <2>2 DEF Holds, locks
<1>7. ASSUME NEW o \in Ops, LockUser(r, o) PROVE Result
  <2>1. /\ HandlersTyped' /\ op'[r] = o /\ userLock' = r /\ seen'[r] = user
        /\ UNCHANGED <<tokenLock, link>>
    BY <1>1, <1>7 DEF LockUser, HandlersTyped, UserTyped
  <2>2. /\ user.exists /\ o \notin {"none", "verify"}
        /\ op[r] = o \/ (op[r] = "none" /\ o # "recover")
    BY <1>7 DEF LockUser
  <2> QED
    BY <1>1, <2>1, <2>2 DEF Holds, LocksTyped
<1>8. ASSUME LockRecoveryToken(r) PROVE Result
  <2>1. op[r] = "recover" /\ seen[r].exists /\ link[r] \in Tokens
    BY <1>1, <1>8 DEF LockRecoveryToken, TokenTurn, Holds, HandlersTyped
  <2>2. /\ HandlersTyped' /\ UNCHANGED <<op, seen, link, userLock>>
        /\ tokenLock'[link[r]] = r /\ \A x \in Tokens : x # link[r] => tokenLock'[x] = tokenLock[x]
    BY <1>1, <1>8, <2>1 DEF LockRecoveryToken, HandlersTyped, handlers
  <2> QED
    BY <1>1, <2>1, <2>2 DEF Holds, LocksTyped
<1> QED
  BY <1>2, <1>4, <1>5, <1>6, <1>7, <1>8 DEF HandlerStep, Arrives, Waits

LEMMA HandlersStep ==
  TypeInv /\ [Next]_vars => HandlersTyped' /\ LocksTyped' /\ \A r \in Requests : Holds(r)'
<1> SUFFICES ASSUME TypeInv, [Next]_vars
             PROVE  HandlersTyped' /\ LocksTyped' /\ \A r \in Requests : Holds(r)'
  OBVIOUS
<1>1. HandlersTyped /\ LocksTyped /\ \A r \in Requests : Holds(r)
  BY TypeParts DEF TypeInv
<1>2. CASE UNCHANGED <<locks, handlers>>
  BY <1>1, <1>2 DEF locks, handlers, HandlersTyped, LocksTyped, Holds
<1>3. ASSUME NEW r \in Requests, HandlerStep(r)
      PROVE  HandlersTyped' /\ LocksTyped' /\ \A q \in Requests : Holds(q)'
  <2>1. /\ HandlersTyped' /\ Holds(r)' /\ (userLock' = r => seen'[r].exists)
        /\ \A t \in Tokens : tokenLock'[t] = r => link'[r] = t
    BY <1>3, OwnStep
  <2>2. ASSUME NEW q \in Requests, q # r
        PROVE  /\ Holds(q)' /\ (userLock' = q => seen'[q].exists)
               /\ \A t \in Tokens : tokenLock'[t] = q => link'[q] = t
    <3>1. /\ op'[q] = op[q] /\ link'[q] = link[q] /\ seen'[q] = seen[q]
          /\ userLock' = q <=> userLock = q
          /\ \A t \in Tokens : tokenLock'[t] = q <=> tokenLock[t] = q
      BY <1>1, <1>3, <2>2, OthersStay
    <3>2. link[q] # NoLink => link[q] \in Tokens
      BY <1>1 DEF HandlersTyped
    <3> QED
      BY <1>1, <3>1, <3>2 DEF Holds, LocksTyped
  <2> QED
    BY <2>1, <2>2 DEF LocksTyped
<1> QED
  BY <1>2, <1>3, NextSteps, ApartKeepsHandlers DEF vars

\* What a handler has read, and what it is about, are of their types.
LEMMA Own ==
  ASSUME TypeInv, NEW r \in Requests
  PROVE  /\ user \in UserRows /\ seen[r] \in UserRows
         /\ op[r] \in {"verify", "recover"} => link[r] \in Tokens
         /\ op[r] = "verify" => ~seen[r].exists
         /\ seen[r].exists => seen[r] = user /\ userLock = r
  BY TypeParts DEF TypeInv, HandlersTyped, UserTyped, Holds, SeesTruth

LEMMA Values ==
  /\ 0 \in 0 .. MaxSecrets /\ 1 \in 0 .. MaxPasswords /\ 0 \in 0 .. MaxPasswords
  /\ {} \in SUBSET Codes /\ Codes \in SUBSET Codes
  BY AccountsAssumption

\* Nobody changes an account that somebody else has read under its lock.
LEMMA SeesStep == TypeInv /\ [Next]_vars => SeesTruth'
<1> SUFFICES ASSUME TypeInv, [Next]_vars, NEW q \in Requests, seen'[q].exists
             PROVE  seen'[q] = user'
  BY DEF SeesTruth
<1>1. HandlersTyped /\ LocksTyped /\ user \in UserRows
  BY TypeParts DEF TypeInv, UserTyped
<1>2. ASSUME seen[q].exists PROVE UNCHANGED user \/ Ends(q)
  <2>1. userLock = q /\ user.exists /\ userLock # Null
    BY <1>2, Own, Nothing
  <2>2. ~Register /\ ~\E reset \in BOOLEAN : Bootstrap(reset)
    BY <2>1 DEF Register, Bootstrap
  <2>3. ASSUME NEW r \in Requests, Ready(r, "login") \/ Ready(r, "setup") \/ Ready(r, "confirm")
                                     \/ Ready(r, "disable") \/ Ready(r, "recover")
        PROVE  r = q
    BY <2>1, <2>3, Own DEF Ready
  <2>4. ASSUME NEW r \in Requests, CommitVerify(r) PROVE r = q
    BY <2>1, <2>4, Nothing DEF CommitVerify, UserIsFree
  <2>5. ASSUME NEW r \in Requests, CommitLogin(r) \/ CommitSetup(r) \/ CommitConfirm(r)
                                     \/ CommitDisable(r) \/ CommitVerify(r) \/ CommitRecovery(r)
        PROVE  Ends(q)
    <3>1. r = q
      BY <2>3, <2>4, <2>5 DEF CommitLogin, CommitSetup, CommitConfirm, CommitDisable, CommitRecovery
    <3> QED
      BY <2>5, <3>1 DEF Ends, Commit
  <2> QED
    BY <2>2, <2>5, UserChanges
<1>3. ~Ends(q)
  <2>1. Ends(q) => seen'[q] = NoUser
    BY <1>1, EndsReleases, ReleaseEffect
  <2> QED
    BY <2>1, Nothing
<1>4. CASE UNCHANGED <<locks, handlers>>
  BY <1>2, <1>3, <1>4, Own DEF locks, handlers
<1>5. ASSUME NEW r \in Requests, HandlerStep(r) PROVE seen'[q] = user'
  <2>1. CASE seen[q].exists
    <3>1. UNCHANGED user
      BY <1>2, <1>3, <2>1
    <3>2. seen'[q] = seen[q]
      <4>1. CASE q # r
        BY <1>1, <1>5, <4>1, OthersStay
      <4>2. CASE q = r
        BY <1>3, <1>5, <2>1, <4>2
        DEF HandlerStep, Arrives, Waits, Authenticate, FollowVerificationLink,
            FollowRecoveryLink, LockUser, LockRecoveryToken, handlers
      <4> QED
        BY <4>1, <4>2
    <3> QED
      BY <2>1, <3>1, <3>2, Own
  <2>2. CASE ~seen[q].exists
    <3>1. q = r
      BY <1>1, <1>5, <2>2, OthersStay
    <3>2. PICK o \in Ops : LockUser(r, o)
      BY <1>3, <1>5, <2>2, <3>1
      DEF HandlerStep, Arrives, Waits, Authenticate, FollowVerificationLink,
          FollowRecoveryLink, LockRecoveryToken, handlers
    <3> QED
      BY <1>1, <3>1, <3>2 DEF LockUser, HandlersTyped, rows
  <2> QED
    BY <2>1, <2>2
<1> QED
  BY <1>4, <1>5, NextSteps, ApartKeepsHandlers DEF vars

LEMMA NumbersStep == TypeInv /\ UserTyped' /\ UserInv' /\ [Next]_vars => NumbersTyped'
<1> SUFFICES ASSUME TypeInv, UserTyped', UserInv', [Next]_vars PROVE NumbersTyped'
  OBVIOUS
<1>1. NumbersTyped /\ \A r \in Requests : seen[r] \in UserRows
  BY TypeParts, Own DEF TypeInv
<1>2. drawn' \in 0 .. MaxSecrets
  <2>1. drawn' = drawn \/ \E r \in Requests : CommitSetup(r)
    <3>1. Apart => drawn' = drawn
      BY DEF Apart, Register, CooldownEnds, Logout, Bootstrap, TokenExpires
    <3>2. ASSUME NEW r \in Requests, Ends(r) PROVE drawn' = drawn \/ CommitSetup(r)
      BY <3>2 DEF Ends, Commit, CommitLogin, CommitConfirm, CommitDisable, CommitVerify,
         CommitResend, CommitRequestRecovery, CommitRecovery, Refused, DeadlockVictim, rows
    <3> QED
      BY <3>1, <3>2, NextSteps, OthersKeepRows DEF HandlerStep, rows, vars
  <2>2. ASSUME NEW r \in Requests, CommitSetup(r) PROVE drawn < MaxSecrets /\ drawn' = drawn + 1
    BY <2>2 DEF CommitSetup
  <2> QED
    BY <1>1, <2>1, <2>2, Nothing DEF NumbersTyped
<1>3. cooling' \in BOOLEAN
  <2>1. Apart => cooling' \in BOOLEAN
    BY <1>1 DEF Apart, Register, CooldownEnds, Logout, Bootstrap, TokenExpires, NumbersTyped
  <2>2. ASSUME NEW r \in Requests, Ends(r) PROVE cooling' \in BOOLEAN
    BY <1>1, <2>2 DEF Ends, Commit, CommitLogin, CommitSetup, CommitConfirm, CommitDisable, CommitVerify,
       CommitResend, CommitRequestRecovery, CommitRecovery, Refused, DeadlockVictim, rows, NumbersTyped
  <2> QED
    BY <1>1, <2>1, <2>2, NextSteps, OthersKeepRows DEF HandlerStep, rows, vars, NumbersTyped
<1>4. spent' \subseteq Codes
  <2>1. Apart => spent' = spent
    BY DEF Apart, Register, CooldownEnds, Logout, Bootstrap, TokenExpires, history
  <2>2. ASSUME NEW r \in Requests, Ends(r) PROVE spent' \subseteq Codes
    <3>1. seen[r].codes \subseteq Codes
      BY <1>1 DEF UserRows
    <3>2. FactorGiven(r) => spent' \subseteq Codes
      BY <1>1, <3>1 DEF FactorGiven, NumbersTyped
    <3> QED
      BY <1>1, <2>2, <3>1, <3>2
      DEF Ends, Commit, CommitLogin, CommitSetup, CommitConfirm, CommitDisable, CommitVerify,
          CommitResend, CommitRequestRecovery, CommitRecovery, Refused, DeadlockVictim, history,
          NumbersTyped
  <2> QED
    BY <1>1, <2>1, <2>2, NextSteps, OthersKeepRows DEF HandlerStep, history, vars, NumbersTyped
<1>5. era' \in 0 .. MaxPasswords /\ uses' \in [Tokens -> Nat]
  <2>1. UNCHANGED <<era, uses>> \/ \E r \in Requests : CommitRecovery(r) \/ CommitVerify(r)
    BY TokenChanges DEF Register, TokenExpires, CommitResend, CommitRequestRecovery, history
  <2>2. ASSUME NEW r \in Requests, CommitVerify(r)
        PROVE  era' \in 0 .. MaxPasswords /\ uses' \in [Tokens -> Nat]
    <3>1. /\ uses' = [uses EXCEPT ![link[r]] = uses[link[r]] + 1] /\ era' = era
          /\ link[r] \in Tokens
      BY <2>2, Own DEF CommitVerify
    <3> QED
      BY <1>1, <3>1 DEF NumbersTyped
  <2>3. ASSUME NEW r \in Requests, CommitRecovery(r)
        PROVE  era' \in 0 .. MaxPasswords /\ uses' \in [Tokens -> Nat]
    <3>1. /\ era' = era + 1 /\ uses' = [uses EXCEPT ![link[r]] = uses[link[r]] + 1]
          /\ link[r] \in Tokens
      BY <2>3, Own DEF CommitRecovery, Ready
    <3>2. era' <= user'.pw /\ user'.pw \in 0 .. MaxPasswords
      BY DEF UserInv, UserTyped, UserRows
    <3>3. era' \in 0 .. MaxPasswords
      BY <1>1, <3>1, <3>2, Nothing DEF NumbersTyped
    <3> QED
      BY <1>1, <3>1, <3>3 DEF NumbersTyped
  <2> QED
    BY <1>1, <2>1, <2>2, <2>3 DEF NumbersTyped
<1> QED
  BY <1>2, <1>3, <1>4, <1>5 DEF NumbersTyped

LEMMA UserStep == TypeInv /\ [Next]_vars => UserTyped' /\ UserInv'
<1> SUFFICES ASSUME TypeInv, [Next]_vars PROVE UserTyped' /\ UserInv'
  OBVIOUS
<1> USE Nothing
<1>1. /\ user \in UserRows /\ era \in 0 .. MaxPasswords /\ era <= user.pw
      /\ ~user.exists => user.pw = 0
      /\ drawn \in 0 .. MaxSecrets
  BY TypeParts DEF TypeInv, UserTyped, NumbersTyped, UserInv
<1>2. era' = era \/ \E r \in Requests : CommitRecovery(r)
  BY TokenChanges DEF Register, TokenExpires, CommitVerify, CommitResend, CommitRequestRecovery, history
<1>3. ASSUME UserTyped', user'.pw = user.pw, user'.exists = user.exists
      PROVE  (\E r \in Requests : CommitRecovery(r)) \/ (UserTyped' /\ UserInv')
  BY <1>1, <1>2, <1>3 DEF UserInv
<1>4. ASSUME NEW r \in Requests, NEW codes \in SUBSET Codes, user' = [user EXCEPT !.codes = codes]
      PROVE  UserTyped' /\ user'.pw = user.pw /\ user'.exists = user.exists
  BY <1>1, <1>4 DEF UserTyped, UserRows
<1>5. ASSUME NEW r \in Requests, CommitLogin(r)
      PROVE  UserTyped' /\ user'.pw = user.pw /\ user'.exists = user.exists
  <2>1. seen[r].codes \in SUBSET Codes
    BY Own DEF UserRows
  <2> QED
    BY <1>1, <1>4, <1>5, <2>1 DEF CommitLogin, FactorGiven, UserTyped
<1>6. ASSUME NEW r \in Requests, CommitSetup(r)
      PROVE  UserTyped' /\ user'.pw = user.pw /\ user'.exists = user.exists
  <2>1. drawn + 1 \in 0 .. MaxSecrets
    BY <1>1, <1>6 DEF CommitSetup
  <2>2. PICK codes \in SUBSET seen[r].codes : user' = [user EXCEPT !.pending = drawn + 1, !.codes = codes]
    BY <1>6 DEF CommitSetup
  <2>3. codes \in SUBSET Codes
    BY <2>2, Own DEF UserRows
  <2> QED
    BY <1>1, <2>1, <2>2, <2>3 DEF UserTyped, UserRows
<1>7. ASSUME NEW r \in Requests, CommitConfirm(r)
      PROVE  UserTyped' /\ user'.pw = user.pw /\ user'.exists = user.exists
  <2>1. seen[r].pending \in 0 .. MaxSecrets
    BY Own DEF UserRows
  <2>2. user' = [user EXCEPT !.secret = seen[r].pending, !.pending = 0, !.codes = Codes]
    BY <1>7 DEF CommitConfirm
  <2> QED
    BY <1>1, <2>1, <2>2, Values DEF UserTyped, UserRows
<1>8. ASSUME NEW r \in Requests, CommitDisable(r) \/ CommitVerify(r)
      PROVE  UserTyped' /\ user'.pw = user.pw /\ user'.exists = user.exists
  <2>1. \/ user' = [user EXCEPT !.secret = 0, !.pending = 0, !.codes = {}]
        \/ user' = [user EXCEPT !.verified = TRUE]
    BY <1>8 DEF CommitDisable, CommitVerify
  <2>2. CASE user' = [user EXCEPT !.secret = 0, !.pending = 0, !.codes = {}]
    BY <1>1, <2>2, Values DEF UserTyped, UserRows
  <2>3. CASE user' = [user EXCEPT !.verified = TRUE]
    BY <1>1, <2>3 DEF UserTyped, UserRows
  <2> QED
    BY <2>1, <2>2, <2>3
<1>9. ASSUME NEW r \in Requests, CommitRecovery(r) PROVE UserTyped' /\ UserInv'
  <2>1. user.exists /\ user.pw < MaxPasswords /\ user' = [user EXCEPT !.pw = user.pw + 1]
        /\ era' = era + 1
    BY <1>9, Own DEF CommitRecovery, Ready
  <2> QED
    BY <1>1, <2>1 DEF UserTyped, UserInv, UserRows
<1>10. CASE Register
  <2>1. user' = [NoUser EXCEPT !.exists = TRUE, !.pw = 1] /\ era' = era /\ user.pw = 0
    BY <1>1, <1>10 DEF Register, history
  <2>2. UserTyped' /\ user'.exists /\ user'.pw = 1
    BY <2>1, Values DEF UserTyped, UserRows
  <2> QED
    BY <1>1, <2>1, <2>2 DEF UserInv
<1>11. ASSUME NEW reset \in BOOLEAN, Bootstrap(reset) PROVE UserTyped' /\ UserInv'
  <2>1. /\ user' = [user EXCEPT !.exists = TRUE, !.verified = TRUE, !.admin = TRUE,
                               !.pw = IF ~user.exists THEN 1 ELSE IF reset THEN user.pw + 1 ELSE user.pw]
        /\ era' = era /\ (reset => user.exists /\ user.pw < MaxPasswords)
    BY <1>11 DEF Bootstrap, history
  <2> DEFINE pw == IF ~user.exists THEN 1 ELSE IF reset THEN user.pw + 1 ELSE user.pw
  <2>2. pw \in 0 .. MaxPasswords /\ era <= pw
    BY <1>1, <2>1 DEF UserRows
  <2>3. user' = [user EXCEPT !.exists = TRUE, !.verified = TRUE, !.admin = TRUE, !.pw = pw]
    BY <2>1
  <2> HIDE DEF pw
  <2>4. UserTyped' /\ user'.exists /\ user'.pw = pw
    BY <1>1, <2>2, <2>3 DEF UserTyped, UserRows
  <2> QED
    BY <2>1, <2>2, <2>4 DEF UserInv
<1>12. CASE UNCHANGED user
  BY <1>1, <1>2, <1>9, <1>12 DEF UserTyped, UserInv
<1> QED
  BY <1>3, <1>5, <1>6, <1>7, <1>8, <1>9, <1>10, <1>11, <1>12, UserChanges

\* A row of a link that is used or consumed, or stays: its kind remains, and it is not made
\* fresh again.
Older(row, t) ==
  /\ row \in TokenRows /\ row.kind = token[t].kind
  /\ row.fresh => row = token[t]
  /\ token[t] = NoToken => row = NoToken

LEMMA Kept == ASSUME TokenTyped, NEW t \in Tokens PROVE Older(token[t], t)
  BY DEF TokenTyped, Older

LEMMA UsedUp ==
  ASSUME TokenTyped, NEW t \in Tokens
  PROVE  Used(t) \in TokenRows /\ ~Used(t).fresh /\ (token[t] # NoToken => Older(Used(t), t))
<1>1. token[t] \in TokenRows /\ 0 \in 0 .. MaxPasswords
  BY Values DEF TokenTyped
<1>2. Used(t) \in TokenRows /\ ~Used(t).fresh /\ Used(t).kind = token[t].kind
  BY <1>1 DEF Used, TokenRows
<1> QED
  BY <1>2 DEF Older

LEMMA Consumed ==
  ASSUME TokenTyped, NEW kind, kind # "none"
  PROVE  /\ ConsumeAll(kind) \in [Tokens -> TokenRows]
         /\ \A t \in Tokens : /\ Older(ConsumeAll(kind)[t], t)
                              /\ ConsumeAll(kind)[t].fresh => ConsumeAll(kind)[t].kind # kind
<1>1. ASSUME NEW t \in Tokens
      PROVE  /\ Older(ConsumeAll(kind)[t], t)
             /\ ConsumeAll(kind)[t].fresh => ConsumeAll(kind)[t].kind # kind
  BY <1>1, Kept, UsedUp, Nothing DEF ConsumeAll
<1>2. \A t \in Tokens : ConsumeAll(kind)[t] \in TokenRows
  BY <1>1 DEF Older
<1> QED
  BY <1>1, <1>2 DEF ConsumeAll

LEMMA NewTokenEffect ==
  ASSUME TypeOK, NEW older \in [Tokens -> TokenRows], NEW kind \in {"verify", "recover"},
         NewToken(older, kind)
  PROVE  /\ TokenTyped' /\ issued' = issued + 1 /\ issued' \in Tokens
         /\ token'[issued'].kind = kind
         /\ kind = "recover" => token'[issued'].era = era
         /\ \A t \in Tokens : t # issued' => token'[t] = older[t]
<1>1. issued \in 0 .. MaxTokens /\ era \in 0 .. MaxPasswords
  BY TypeParts DEF TokenTyped, NumbersTyped
<1> DEFINE row == [kind |-> kind, fresh |-> TRUE, era |-> IF kind = "recover" THEN era ELSE 0]
<1>2. row \in TokenRows /\ row.kind = kind /\ (kind = "recover" => row.era = era)
  BY <1>1, Values DEF TokenRows
<1>3. issued' = issued + 1 /\ issued' \in Tokens
  BY <1>1, Nothing DEF NewToken, Tokens
<1>4. token' = [older EXCEPT ![issued'] = row]
  BY <1>3 DEF NewToken
<1>5. issued' \in 0 .. MaxTokens
  BY <1>1, <1>3, Nothing DEF Tokens
<1> HIDE DEF row
<1> QED
  BY <1>2, <1>3, <1>4, <1>5 DEF TokenTyped

\* What becomes of the links: some are used up, or a new one comes on top of that.
TokensAge == issued' = issued /\ TokenTyped' /\ \A t \in Tokens : Older(token'[t], t)

TokensGrow(kind) ==
  /\ issued' = issued + 1 /\ issued' \in Tokens /\ TokenTyped'
  /\ token'[issued'].kind = kind /\ (kind = "recover" => token'[issued'].era = era)
  /\ \A t \in Tokens : t # issued' => Older(token'[t], t)

\* What happens to the links in a step.
LEMMA TokensAgeOrGrow ==
  ASSUME TypeInv, [Next]_vars,
         \A r \in Requests : CommitVerify(r) => token[link[r]] # NoToken
  PROVE  \/ TokensAge
         \/ TokensGrow("verify") /\ Register
         \/ TokensGrow("verify") /\ \E r \in Requests :
              /\ CommitResend(r)
              /\ \A t \in Tokens : t # issued' => ~(token'[t].fresh /\ token'[t].kind = "verify")
         \/ TokensGrow("recover") /\ \E r \in Requests : CommitRequestRecovery(r)
<1>1. TypeOK /\ TokenTyped /\ token \in [Tokens -> TokenRows] /\ issued \in 0 .. MaxTokens
  BY TypeParts DEF TypeInv, TokenTyped
<1>2. ASSUME token' \in [Tokens -> TokenRows], issued' = issued PROVE TokenTyped'
  BY <1>1, <1>2 DEF TokenTyped
<1>3. ASSUME UNCHANGED <<token, issued>> PROVE TokensAge
  BY <1>1, <1>2, <1>3, Kept DEF TokensAge
<1>4. ASSUME NEW t \in Tokens, token[t] # NoToken, token' = [token EXCEPT ![t] = Used(t)],
             issued' = issued
      PROVE  TokensAge
  <2>1. token' \in [Tokens -> TokenRows]
    BY <1>1, <1>4, UsedUp
  <2>2. ASSUME NEW q \in Tokens PROVE Older(token'[q], q)
    <3>1. CASE q = t
      BY <1>1, <1>4, <3>1, UsedUp
    <3>2. CASE q # t
      BY <1>1, <1>4, <3>2, Kept
    <3> QED
      BY <3>1, <3>2
  <2> QED
    BY <1>2, <1>4, <2>1, <2>2 DEF TokensAge
<1>5. ASSUME NEW t \in Tokens, TokenExpires(t) PROVE TokensAge
  BY <1>4, <1>5, Nothing DEF TokenExpires
<1>6. ASSUME NEW r \in Requests, CommitVerify(r) PROVE TokensAge
  <2>1. link[r] \in Tokens /\ token[link[r]] # NoToken
    BY <1>6, Own DEF CommitVerify
  <2> QED
    BY <1>4, <1>6, <2>1 DEF CommitVerify
<1>7. ASSUME NEW r \in Requests, CommitRecovery(r) PROVE TokensAge
  <2>1. token' = ConsumeAll("recover") /\ issued' = issued
    BY <1>7 DEF CommitRecovery, ConsumeRecovery
  <2>2. token' \in [Tokens -> TokenRows] /\ \A t \in Tokens : Older(token'[t], t)
    BY <1>1, <2>1, Consumed
  <2> QED
    BY <1>2, <2>1, <2>2 DEF TokensAge
<1>8. ASSUME NEW kind \in {"verify", "recover"}, NewToken(token, kind) PROVE TokensGrow(kind)
  <2>1. \A t \in Tokens : Older(token[t], t)
    BY <1>1, Kept
  <2>2. /\ TokenTyped' /\ issued' = issued + 1 /\ issued' \in Tokens
        /\ token'[issued'].kind = kind /\ (kind = "recover" => token'[issued'].era = era)
        /\ \A t \in Tokens : t # issued' => token'[t] = token[t]
    BY <1>1, <1>8, NewTokenEffect
  <2> QED
    BY <2>1, <2>2 DEF TokensGrow
<1>9. ASSUME NEW r \in Requests, NewToken(ConsumeAll("verify"), "verify")
      PROVE  /\ TokensGrow("verify")
             /\ \A t \in Tokens : t # issued' => ~(token'[t].fresh /\ token'[t].kind = "verify")
  <2>1. /\ ConsumeAll("verify") \in [Tokens -> TokenRows]
        /\ \A t \in Tokens : /\ Older(ConsumeAll("verify")[t], t)
                             /\ ConsumeAll("verify")[t].fresh => ConsumeAll("verify")[t].kind # "verify"
    BY <1>1, Consumed
  <2>2. /\ TokenTyped' /\ issued' = issued + 1 /\ issued' \in Tokens
        /\ token'[issued'].kind = "verify"
        /\ \A t \in Tokens : t # issued' => token'[t] = ConsumeAll("verify")[t]
    BY <1>1, <1>9, <2>1, NewTokenEffect
  <2> QED
    BY <2>1, <2>2 DEF TokensGrow
<1>10. CASE Register
  BY <1>8, <1>10 DEF Register
<1>11. ASSUME NEW r \in Requests, CommitResend(r)
       PROVE  \/ TokensAge
              \/ /\ TokensGrow("verify")
                 /\ \A t \in Tokens : t # issued' => ~(token'[t].fresh /\ token'[t].kind = "verify")
  BY <1>3, <1>9, <1>11 DEF CommitResend
<1>12. ASSUME NEW r \in Requests, CommitRequestRecovery(r) PROVE TokensGrow("recover")
  BY <1>8, <1>12 DEF CommitRequestRecovery
<1> QED
  BY <1>3, <1>5, <1>6, <1>7, <1>10, <1>11, <1>12, TokenChanges

LEMMA RevokeTyped ==
  ASSUME SessionTyped, NEW r \in Requests, NEW mfa \in 0 .. MaxSecrets
  PROVE  RevokeAll \in [Sessions -> SessionRows] /\ RevokeOthers(r, mfa) \in [Sessions -> SessionRows]
<1>1. ASSUME NEW s \in Sessions
      PROVE  Ended(s) \in SessionRows /\ [session[s] EXCEPT !.mfa = mfa] \in SessionRows
  BY <1>1, Nothing DEF SessionTyped, SessionRows, Ended
<1> QED
  BY <1>1 DEF RevokeAll, RevokeOthers

LEMMA SessionTypeStep == TypeInv /\ [Next]_vars => SessionTyped'
<1> SUFFICES ASSUME TypeInv, [Next]_vars PROVE SessionTyped'
  OBVIOUS
<1>1. SessionTyped
  BY TypeParts DEF TypeInv
<1>2. CASE UNCHANGED session
  BY <1>1, <1>2 DEF SessionTyped
<1>3. ASSUME NEW s \in Sessions, Logout(s) PROVE SessionTyped'
  BY <1>1, <1>3, Nothing DEF Logout, SessionTyped
<1>4. ASSUME NEW reset \in BOOLEAN, Bootstrap(reset) PROVE SessionTyped'
  <2>1. RevokeAll \in [Sessions -> SessionRows]
    BY <1>1, Nothing DEF SessionTyped, RevokeAll, Ended
  <2> QED
    BY <1>1, <1>4, <2>1 DEF Bootstrap, SessionTyped
<1>5. ASSUME NEW r \in Requests, CommitLogin(r) PROVE SessionTyped'
  <2>1. PICK s \in Sessions :
          session' = [session EXCEPT ![s] = [state |-> "open", pw |-> seen[r].pw, mfa |-> seen[r].secret]]
    BY <1>5 DEF CommitLogin
  <2>2. seen[r].pw \in 0 .. MaxPasswords /\ seen[r].secret \in 0 .. MaxSecrets
    BY Own DEF UserRows
  <2>3. [state |-> "open", pw |-> seen[r].pw, mfa |-> seen[r].secret] \in SessionRows
    BY <2>2 DEF SessionRows
  <2> QED
    BY <1>1, <2>1, <2>3 DEF SessionTyped
<1>6. ASSUME NEW r \in Requests, CommitConfirm(r) \/ CommitDisable(r) \/ CommitRecovery(r)
      PROVE  SessionTyped'
  <2>1. seen[r].pending \in 0 .. MaxSecrets
    BY Own DEF UserRows
  <2>2. /\ RevokeAll \in [Sessions -> SessionRows]
        /\ RevokeOthers(r, seen[r].pending) \in [Sessions -> SessionRows]
        /\ RevokeOthers(r, 0) \in [Sessions -> SessionRows]
    BY <1>1, <2>1, RevokeTyped, Values
  <2> QED
    BY <1>6, <2>2 DEF CommitConfirm, CommitDisable, CommitRecovery, SessionTyped
<1> QED
  BY <1>2, <1>3, <1>4, <1>5, <1>6, SessionChanges

LEMMA VerifyHasLink ==
  ASSUME TypeInv, LinkInv, NEW r \in Requests, CommitVerify(r)
  PROVE  token[link[r]] # NoToken /\ link[r] \in Tokens
<1>1. op[r] = "verify" /\ link[r] \in Tokens
  BY Own DEF CommitVerify
<1> QED
  BY <1>1, Nothing DEF LinkInv, LinkOf

LEMMA TypeStep == TypeInv /\ LinkInv /\ [Next]_vars => TypeInv'
<1> SUFFICES ASSUME TypeInv, LinkInv, [Next]_vars PROVE TypeInv'
  OBVIOUS
<1>1. TokenTyped'
  BY TokensAgeOrGrow, VerifyHasLink DEF TokensAge, TokensGrow
<1>2. UserTyped' /\ UserInv'
  BY UserStep
<1>3. NumbersTyped' /\ SessionTyped' /\ SeesTruth'
  BY <1>2, NumbersStep, SessionTypeStep, SeesStep
<1> QED
  BY <1>1, <1>2, <1>3, HandlersStep, TypePartsPrimed DEF TypeInv

-----------------------------------------------------------------------------
(* Links *)

LEMMA ExistsStays == TypeInv /\ [Next]_vars /\ user.exists => user'.exists
<1> SUFFICES ASSUME TypeInv, [Next]_vars, user.exists PROVE user'.exists
  OBVIOUS
<1>1. user \in UserRows
  BY TypeParts DEF TypeInv, UserTyped
<1>2. ASSUME NEW r \in Requests, CommitLogin(r) \/ CommitSetup(r) PROVE user'.exists
  BY <1>1, <1>2 DEF CommitLogin, CommitSetup, FactorGiven, UserRows
<1>3. ASSUME NEW r \in Requests, CommitConfirm(r) \/ CommitDisable(r) \/ CommitVerify(r) \/ CommitRecovery(r)
      PROVE  user'.exists
  BY <1>1, <1>3 DEF CommitConfirm, CommitDisable, CommitVerify, CommitRecovery, UserRows
<1>4. ASSUME NEW reset \in BOOLEAN, Bootstrap(reset) PROVE user'.exists
  BY <1>1, <1>4 DEF Bootstrap, UserRows
<1> QED
  BY <1>2, <1>3, <1>4, UserChanges DEF Register

\* A use of a link: by whom, and what the link then is.
LEMMA UsesChange ==
  ASSUME TypeInv, LinkInv, [Next]_vars
  PROVE  \/ UNCHANGED uses
         \/ \E r \in Requests :
              /\ op[r] \in {"verify", "recover"} /\ link[r] \in Tokens
              /\ uses[link[r]] = 0 /\ uses' = [uses EXCEPT ![link[r]] = 1]
              /\ ~token'[link[r]].fresh /\ Release(r)
              /\ op[r] = "verify" => tokenLock[link[r]] = r
<1>1. TokenTyped /\ uses \in [Tokens -> Nat]
  BY TypeParts DEF TypeInv, NumbersTyped
<1>2. ASSUME NEW r \in Requests, CommitVerify(r)
      PROVE  /\ op[r] \in {"verify", "recover"} /\ link[r] \in Tokens
             /\ uses[link[r]] = 0 /\ uses' = [uses EXCEPT ![link[r]] = 1]
             /\ ~token'[link[r]].fresh /\ Release(r)
             /\ op[r] = "verify" => tokenLock[link[r]] = r
  <2>1. op[r] = "verify" /\ link[r] \in Tokens /\ Release(r)
    BY <1>2, Own DEF CommitVerify
  <2>2. uses[link[r]] = 0 /\ tokenLock[link[r]] = r
    BY <2>1 DEF LinkInv, LinkOf, TypeInv, Holds
  <2>3. uses' = [uses EXCEPT ![link[r]] = uses[link[r]] + 1] /\ token' = [token EXCEPT ![link[r]] = Used(link[r])]
    BY <1>2 DEF CommitVerify
  <2>4. ~token'[link[r]].fresh
    BY <1>1, <2>1, <2>3, UsedUp DEF TokenTyped
  <2> QED
    BY <2>1, <2>2, <2>3, <2>4
<1>3. ASSUME NEW r \in Requests, CommitRecovery(r)
      PROVE  /\ op[r] \in {"verify", "recover"} /\ link[r] \in Tokens
             /\ uses[link[r]] = 0 /\ uses' = [uses EXCEPT ![link[r]] = 1]
             /\ ~token'[link[r]].fresh /\ Release(r)
             /\ op[r] = "verify" => tokenLock[link[r]] = r
  <2>1. op[r] = "recover" /\ link[r] \in Tokens /\ Release(r) /\ Fresh(link[r], "recover")
    BY <1>3, Own DEF CommitRecovery, Ready, StillFresh
  <2>2. uses[link[r]] = 0
    BY <2>1 DEF LinkInv, FreshInv, Fresh
  <2>3. uses' = [uses EXCEPT ![link[r]] = uses[link[r]] + 1] /\ token' = ConsumeAll("recover")
    BY <1>3 DEF CommitRecovery, ConsumeRecovery
  <2>4. token'[link[r]] = Used(link[r])
    BY <2>1, <2>3 DEF ConsumeAll, Fresh
  <2>5. ~token'[link[r]].fresh
    BY <1>1, <2>1, <2>4, UsedUp
  <2> QED
    BY <2>1, <2>2, <2>3, <2>5
<1> QED
  BY <1>2, <1>3, TokenChanges DEF Register, TokenExpires, CommitResend, CommitRequestRecovery, history

LEMMA LinkStep == TypeInv /\ LinkInv /\ [Next]_vars => LinkInv'
<1> SUFFICES ASSUME TypeInv, LinkInv, [Next]_vars PROVE LinkInv'
  OBVIOUS
<1>1. /\ TokenTyped /\ issued \in 0 .. MaxTokens /\ uses \in [Tokens -> Nat]
  BY TypeParts DEF TypeInv, NumbersTyped, TokenTyped
<1>2. LinkInv /\ Unissued /\ FreshInv /\ LinksWorkOnce
  BY DEF LinkInv
<1>3. \/ TokensAge
      \/ TokensGrow("verify") /\ Register
      \/ TokensGrow("verify") /\ \E r \in Requests :
           /\ CommitResend(r)
           /\ \A t \in Tokens : t # issued' => ~(token'[t].fresh /\ token'[t].kind = "verify")
      \/ TokensGrow("recover") /\ \E r \in Requests : CommitRequestRecovery(r)
  BY TokensAgeOrGrow, VerifyHasLink
<1>4. TokensAge \/ (user'.exists /\ UNCHANGED <<uses, era>>)
  <2>1. Register => user'.exists /\ UNCHANGED <<uses, era>>
    BY Nothing DEF Register, NoUser, history
  <2>2. ASSUME NEW r \in Requests, CommitResend(r) \/ CommitRequestRecovery(r)
        PROVE  user'.exists /\ UNCHANGED <<uses, era>>
    BY <2>2, Own, ExistsStays DEF CommitResend, CommitRequestRecovery, Ready, history
  <2> QED
    BY <1>3, <2>1, <2>2
\* A row that was there is as it was or used up, and the new one is fresh.
<1>5. /\ \A t \in Tokens : Older(token'[t], t) \/ (t = issued' /\ issued' = issued + 1 /\ ~TokensAge)
      /\ issued' \in {issued, issued + 1} /\ (TokensAge => issued' = issued)
  BY <1>3 DEF TokensAge, TokensGrow
<1>6. ~user'.exists => issued' = 0
  BY <1>2, <1>4, <1>5, ExistsStays DEF LinkInv
<1>7. ASSUME NEW t \in Tokens
      PROVE  \/ uses'[t] = uses[t]
             \/ token[t] # NoToken /\ uses[t] = 0 /\ uses'[t] = 1 /\ ~token'[t].fresh
  <2>1. CASE UNCHANGED uses
    BY <2>1
  <2>2. ASSUME NEW r \in Requests, op[r] \in {"verify", "recover"}, link[r] \in Tokens,
               uses[link[r]] = 0, uses' = [uses EXCEPT ![link[r]] = 1], ~token'[link[r]].fresh
        PROVE  uses'[t] = uses[t]
               \/ (token[t] # NoToken /\ uses[t] = 0 /\ uses'[t] = 1 /\ ~token'[t].fresh)
    <3>1. token[link[r]] # NoToken
      BY <1>2, <2>2, Nothing DEF LinkInv, LinkOf
    <3> QED
      BY <1>1, <2>2, <3>1
  <2> QED
    BY <2>1, <2>2, UsesChange
<1>8. ASSUME NEW t \in Tokens, t > issued' PROVE token'[t] = NoToken /\ uses'[t] = 0
  <2>1. t > issued /\ t # issued' /\ issued' \in Nat
    BY <1>1, <1>5, <1>8 DEF Tokens
  <2>2. token[t] = NoToken /\ uses[t] = 0
    BY <1>2, <2>1 DEF Unissued
  <2>3. Older(token'[t], t)
    BY <1>5, <2>1
  <2> QED
    BY <1>7, <2>2, <2>3 DEF Older
<1>9. ASSUME NEW t \in Tokens, token'[t].fresh PROVE uses'[t] = 0
  <2>1. CASE Older(token'[t], t)
    BY <1>2, <1>7, <1>9, <2>1 DEF Older, FreshInv
  <2>2. CASE t = issued' /\ issued' = issued + 1 /\ ~TokensAge
    <3>1. t > issued /\ UNCHANGED uses
      BY <1>1, <1>4, <2>2
    <3> QED
      BY <1>2, <3>1 DEF Unissued
  <2> QED
    BY <1>5, <2>1, <2>2
<1>10. \A t \in Tokens : uses'[t] <= 1
  <2>1. \A t \in Tokens : uses[t] <= 1
    BY <1>2 DEF LinksWorkOnce
  <2> QED
    BY <1>7, <2>1
<1>11. ASSUME NEW t \in Tokens, NEW q \in Tokens, Fresh(t, "verify")', Fresh(q, "verify")' PROVE t = q
  <2>1. /\ token'[t].fresh /\ token'[t].kind = "verify" /\ token'[q].fresh /\ token'[q].kind = "verify"
    BY <1>11 DEF Fresh
  <2>2. ASSUME Older(token'[t], t), Older(token'[q], q) PROVE t = q
    BY <1>2, <2>1, <2>2 DEF Older, Fresh, LinksWorkOnce
  <2>3. CASE TokensAge
    BY <2>2, <2>3 DEF TokensAge
  <2>4. CASE TokensGrow("verify") /\ Register
    <3>1. issued = 0
      BY <1>2, <2>4 DEF Register, LinkInv
    <3>2. \A x \in Tokens : x # issued' => ~token'[x].fresh
      <4>1. \A x \in Tokens : x > 0
        BY DEF Tokens
      <4>2. \A x \in Tokens : token[x] = NoToken
        BY <1>2, <3>1, <4>1 DEF Unissued
      <4> QED
        BY <2>4, <4>2, Nothing DEF TokensGrow, Older
    <3> QED
      BY <2>1, <3>2
  <2>5. CASE \A x \in Tokens : x # issued' => ~(token'[x].fresh /\ token'[x].kind = "verify")
    BY <2>1, <2>5
  <2>6. CASE TokensGrow("recover")
    BY <2>1, <2>2, <2>6 DEF TokensGrow
  <2> QED
    BY <1>3, <2>3, <2>4, <2>5, <2>6
<1>12. ASSUME NEW t \in Tokens, Fresh(t, "recover")' PROVE token'[t].era = era'
  <2>1. token'[t].fresh /\ token'[t].kind = "recover"
    BY <1>12 DEF Fresh
  <2>2. ASSUME Older(token'[t], t) PROVE token'[t].era = era
    BY <1>2, <2>1, <2>2 DEF Older, Fresh, LinksWorkOnce
  <2>3. CASE TokensAge
    <3>1. era' = era
      <4>1. ASSUME NEW r \in Requests, CommitRecovery(r) PROVE FALSE
        <5>1. token'[t] = ConsumeAll("recover")[t]
          BY <4>1 DEF CommitRecovery, ConsumeRecovery
        <5> QED
          BY <1>1, <2>1, <5>1, Consumed
      <4> QED
        BY <4>1, TokenChanges
        DEF Register, TokenExpires, CommitVerify, CommitResend, CommitRequestRecovery, history
    <3> QED
      BY <2>2, <2>3, <3>1 DEF TokensAge
  <2>4. CASE TokensGrow("verify") \/ TokensGrow("recover")
    <3>1. era' = era
      <4>1. ~TokensAge
        BY <1>1, <2>4 DEF TokensAge, TokensGrow
      <4> QED
        BY <1>4, <4>1
    <3>2. CASE t = issued'
      BY <2>1, <2>4, <3>1, <3>2 DEF TokensGrow
    <3>3. CASE t # issued'
      BY <2>2, <2>4, <3>1, <3>3 DEF TokensGrow
    <3> QED
      BY <3>2, <3>3
  <2> QED
    BY <1>3, <2>3, <2>4
<1>13. ASSUME NEW q \in Requests PROVE LinkOf(q)'
  <2>1. SUFFICES ASSUME op'[q] \in {"verify", "recover"} PROVE LinkOf(q)'
    BY DEF LinkOf
  <2>2. HandlersTyped /\ LocksTyped
    BY TypeParts DEF TypeInv
  <2>3. CASE op'[q] = op[q] /\ link'[q] = link[q]
    <3>1. link[q] \in Tokens /\ token[link[q]].kind = op[q] /\ token[link[q]] # NoToken
      BY <1>2, <2>1, <2>3, Own, Nothing DEF LinkInv, LinkOf
    <3>2. token'[link[q]].kind = op[q]
      <4>1. ~(link[q] > issued)
        BY <1>2, <3>1 DEF Unissued
      <4>2. Older(token'[link[q]], link[q])
        BY <1>1, <1>5, <3>1, <4>1
      <4> QED
        BY <3>1, <4>2 DEF Older
    <3>3. op[q] = "verify" => uses'[link[q]] = 0
      <4>1. SUFFICES ASSUME op[q] = "verify" PROVE uses'[link[q]] = 0
        OBVIOUS
      <4>2. uses[link[q]] = 0 /\ tokenLock[link[q]] = q
        BY <1>2, <4>1 DEF LinkInv, LinkOf, TypeInv, Holds
      <4>3. ASSUME NEW r \in Requests, op[r] \in {"verify", "recover"}, link[r] \in Tokens,
                   uses' = [uses EXCEPT ![link[r]] = 1], Release(r),
                   op[r] = "verify" => tokenLock[link[r]] = r
            PROVE  link[r] # link[q]
        <5>1. r # q
          BY <2>1, <2>2, <4>3, ReleaseEffect
        <5>2. op[r] = "recover" => token[link[r]].kind = "recover"
          BY <1>2 DEF LinkInv, LinkOf
        <5> QED
          BY <3>1, <4>1, <4>2, <4>3, <5>1, <5>2
      <4> QED
        BY <1>1, <3>1, <4>2, <4>3, UsesChange
    <3> QED
      BY <2>3, <3>2, <3>3 DEF LinkOf
  <2>4. ASSUME NEW t \in Tokens, FollowVerificationLink(q, t) PROVE LinkOf(q)'
    <3>1. op'[q] = "verify" /\ link'[q] = t /\ UNCHANGED <<token, uses>>
      BY <2>2, <2>4 DEF FollowVerificationLink, HandlersTyped, rows, history
    <3>2. token[t].kind = "verify" /\ uses[t] = 0
      BY <1>2, <2>4 DEF FollowVerificationLink, Fresh, FreshInv
    <3> QED
      BY <3>1, <3>2 DEF LinkOf
  <2>5. ASSUME NEW t \in Tokens, FollowRecoveryLink(q, t) PROVE LinkOf(q)'
    BY <2>2, <2>5 DEF FollowRecoveryLink, HandlersTyped, rows, Fresh, LinkOf
  <2>6. ASSUME NEW r \in Requests, HandlerStep(r), r # q PROVE op'[q] = op[q] /\ link'[q] = link[q]
    BY <2>2, <2>6, OthersStay
  <2>7. ~Ends(q)
    BY <2>1, <2>2, EndsReleases, ReleaseEffect
  <2>8. ASSUME NEW o \in Ops, LockUser(q, o) PROVE op'[q] = op[q] /\ link'[q] = link[q]
    BY <2>1, <2>2, <2>8 DEF LockUser, HandlersTyped
  <2>9. ASSUME LockRecoveryToken(q) PROVE op'[q] = op[q] /\ link'[q] = link[q]
    BY <2>9 DEF LockRecoveryToken, handlers
  <2>10. ASSUME NEW s \in Sessions, NEW o \in Ops, Authenticate(q, s, o) PROVE FALSE
    BY <2>1, <2>2, <2>10 DEF Authenticate, HandlersTyped
  <2>11. UNCHANGED handlers => op'[q] = op[q] /\ link'[q] = link[q]
    BY DEF handlers
  <2> QED
    BY <2>3, <2>4, <2>5, <2>6, <2>7, <2>8, <2>9, <2>10, <2>11, NextSteps, ApartKeepsHandlers
    DEF HandlerStep, Arrives, Waits, vars
<1> QED
  BY <1>6, <1>8, <1>9, <1>10, <1>11, <1>12, <1>13 DEF LinkInv, Unissued, FreshInv, LinksWorkOnce

LEMMA TypeInit == Init => TypeInv /\ LinkInv
<1> SUFFICES ASSUME Init PROVE TypeInv /\ LinkInv
  OBVIOUS
<1> USE Nothing, Values DEF Init
<1>1. UserTyped /\ TokenTyped /\ NumbersTyped /\ UserInv
  <2>1. UserTyped /\ UserInv
    BY DEF UserTyped, UserInv
  <2>2. 0 \in 0 .. MaxTokens
    OBVIOUS
  <2>3. TokenTyped
    BY <2>2 DEF TokenTyped
  <2>4. NumbersTyped
    BY DEF NumbersTyped
  <2> QED
    BY <2>1, <2>3, <2>4
<1>2. SessionTyped
  BY DEF SessionTyped, SessionRows, NoSession
<1>3. HandlersTyped /\ LocksTyped /\ SeesTruth
  BY DEF HandlersTyped, LocksTyped, SeesTruth, Ops
<1>4. \A r \in Requests : Holds(r) /\ LinkOf(r)
  BY DEF Holds, LinkOf
<1>5. Unissued /\ FreshInv /\ LinksWorkOnce
  BY DEF Unissued, FreshInv, LinksWorkOnce, Fresh
<1> QED
  BY <1>1, <1>2, <1>3, <1>4, <1>5, TypeParts DEF TypeInv, LinkInv

LEMMA AccountInvAlways == Spec => [](TypeInv /\ LinkInv)
  BY TypeInit, TypeStep, LinkStep, PTL DEF Spec

\* Every row, lock and handler keeps its type, and locks belong to handlers under way.
THEOREM TypeCorrect == Spec => []TypeOK
<1>1. TypeInv => TypeOK
  BY DEF TypeInv
<1> QED
  BY <1>1, AccountInvAlways, PTL

\* A link is used once, whoever follows it at the same time, and of one kind only the
\* newest ones work.
THEOREM LinksWorkOnceAlways == Spec => []LinksWorkOnce
<1>1. LinkInv => LinksWorkOnce
  BY DEF LinkInv
<1> QED
  BY <1>1, AccountInvAlways, PTL

-----------------------------------------------------------------------------
(* Sessions *)

\* A session that is revoked or kept by one that changes the factor.
LEMMA RevokeOthersEffect ==
  ASSUME SessionTyped, NEW r \in Requests, NEW mfa, session' = RevokeOthers(r, mfa),
         NEW s \in Sessions, session'[s].state = "open"
  PROVE  session[s].state = "open" /\ session'[s].pw = session[s].pw /\ session'[s].mfa = mfa
<1>1. session[s] \in SessionRows
  BY DEF SessionTyped
<1>2. session'[s] = IF s = sess[r] /\ Usable(s) THEN [session[s] EXCEPT !.mfa = mfa] ELSE Ended(s)
  BY DEF RevokeOthers
<1>3. Usable(s) /\ session'[s] = [session[s] EXCEPT !.mfa = mfa]
  BY <1>1, <1>2, Nothing DEF Ended, Usable
<1> QED
  BY <1>1, <1>3 DEF Usable, SessionRows

LEMMA SessionStep == TypeInv /\ SessionInv /\ [Next]_vars => SessionInv'
<1> SUFFICES ASSUME TypeInv, SessionInv, [Next]_vars, NEW s \in Sessions, session'[s].state = "open"
             PROVE  user'.exists /\ session'[s].pw = user'.pw /\ session'[s].mfa \in {0, user'.secret}
  BY DEF SessionInv, Usable
<1>1. SessionTyped /\ user \in UserRows
  BY TypeParts DEF TypeInv, UserTyped
<1> DEFINE Current == user'.exists /\ session'[s].pw = user'.pw /\ session'[s].mfa \in {0, user'.secret}
<1>2. ASSUME session[s].state = "open"
      PROVE  user.exists /\ session[s].pw = user.pw /\ session[s].mfa \in {0, user.secret}
  BY <1>2 DEF SessionInv, Usable
<1>3. ASSUME session'[s] = session[s], user'.exists = user.exists, user'.pw = user.pw,
             user'.secret = user.secret
      PROVE  Current
  BY <1>2, <1>3
<1>4. ASSUME NEW x \in Sessions, Logout(x) PROVE session'[s] = session[s] /\ user' = user
  BY <1>1, <1>4, Nothing DEF Logout, SessionTyped
<1>5. ASSUME session' = RevokeAll PROVE FALSE
  BY <1>1, <1>5, Nothing DEF RevokeAll, Ended, Usable
<1>6. ASSUME NEW reset \in BOOLEAN, Bootstrap(reset) PROVE Current
  <2>1. session' = session /\ ~(user.exists /\ reset)
    BY <1>5, <1>6 DEF Bootstrap
  <2>2. user.exists
    BY <1>2, <2>1
  <2>3. user' = [user EXCEPT !.exists = TRUE, !.verified = TRUE, !.admin = TRUE, !.pw = user.pw]
    BY <1>6, <2>1, <2>2 DEF Bootstrap
  <2> QED
    BY <1>1, <1>3, <2>1, <2>2, <2>3 DEF UserRows
<1>7. ASSUME NEW r \in Requests, FactorGiven(r)
      PROVE  user'.exists = user.exists /\ user'.pw = user.pw /\ user'.secret = user.secret
  BY <1>1, <1>7 DEF FactorGiven, UserRows
<1>8. ASSUME NEW r \in Requests, CommitLogin(r) PROVE Current
  <2>1. seen[r] = user /\ user.exists
    BY <1>8, Own DEF CommitLogin, Ready
  <2>2. user'.exists = user.exists /\ user'.pw = user.pw /\ user'.secret = user.secret
    BY <1>7, <1>8 DEF CommitLogin
  <2>3. PICK x \in Sessions :
          session' = [session EXCEPT ![x] = [state |-> "open", pw |-> seen[r].pw, mfa |-> seen[r].secret]]
    BY <1>8 DEF CommitLogin
  <2>4. CASE s = x
    <3>1. session'[s] = [state |-> "open", pw |-> user.pw, mfa |-> user.secret]
      BY <1>1, <2>1, <2>3, <2>4 DEF SessionTyped
    <3> QED
      BY <2>1, <2>2, <3>1
  <2>5. CASE s # x
    BY <1>1, <1>3, <2>2, <2>3, <2>5 DEF SessionTyped
  <2> QED
    BY <2>4, <2>5
<1>9. ASSUME NEW r \in Requests, CommitConfirm(r) PROVE Current
  <2>1. user' = [user EXCEPT !.secret = seen[r].pending, !.pending = 0, !.codes = Codes]
        /\ session' = RevokeOthers(r, seen[r].pending)
    BY <1>9 DEF CommitConfirm
  <2>2. session[s].state = "open" /\ session'[s].pw = session[s].pw /\ session'[s].mfa = seen[r].pending
    BY <1>1, <2>1, RevokeOthersEffect
  <2>3. user'.exists = user.exists /\ user'.pw = user.pw /\ user'.secret = seen[r].pending
    BY <1>1, <2>1 DEF UserRows
  <2> QED
    BY <1>2, <2>2, <2>3
<1>10. ASSUME NEW r \in Requests, CommitDisable(r) PROVE Current
  <2>1. user' = [user EXCEPT !.secret = 0, !.pending = 0, !.codes = {}] /\ session' = RevokeOthers(r, 0)
    BY <1>10 DEF CommitDisable
  <2>2. session[s].state = "open" /\ session'[s].pw = session[s].pw /\ session'[s].mfa = 0
    BY <1>1, <2>1, RevokeOthersEffect
  <2>3. user'.exists = user.exists /\ user'.pw = user.pw
    BY <1>1, <2>1 DEF UserRows
  <2> QED
    BY <1>2, <2>2, <2>3
<1>11. ASSUME NEW r \in Requests, CommitRecovery(r) PROVE FALSE
  BY <1>5, <1>11 DEF CommitRecovery
<1>12. ASSUME NEW r \in Requests, CommitSetup(r) PROVE Current
  <2>1. session' = session /\ \E codes \in SUBSET seen[r].codes :
          user' = [user EXCEPT !.pending = drawn + 1, !.codes = codes]
    BY <1>12 DEF CommitSetup
  <2> QED
    BY <1>1, <1>3, <2>1 DEF UserRows
<1>13. ASSUME NEW r \in Requests, CommitVerify(r) PROVE Current
  BY <1>1, <1>3, <1>13 DEF CommitVerify, UserRows
<1>14. CASE Register
  <2>1. session' = session /\ ~user.exists
    BY <1>14 DEF Register
  <2> QED
    BY <1>2, <2>1
<1> QED
  BY <1>3, <1>4, <1>6, <1>8, <1>9, <1>10, <1>11, <1>12, <1>13, <1>14, UserChanges, SessionChanges

\* A working session is of today's password, and who administers the platform with it has
\* proved today's factor, however resets and changes of the factor overlap with it.
THEOREM SessionsAreCurrentAlways == Spec => []SessionsAreCurrent
<1>1. Init => SessionInv
  BY DEF Init, SessionInv, Usable, NoSession
<1>2. SessionInv => SessionsAreCurrent
  BY DEF SessionInv, SessionsAreCurrent, MayAdminister
<1> QED
  BY <1>1, <1>2, SessionStep, AccountInvAlways, PTL DEF Spec

-----------------------------------------------------------------------------
(* Recovery codes *)

LEMMA SpentStep == TypeInv /\ SpentCodesStaySpent /\ [Next]_vars => SpentCodesStaySpent'
<1> SUFFICES ASSUME TypeInv, SpentCodesStaySpent, [Next]_vars PROVE SpentCodesStaySpent'
  OBVIOUS
<1>1. user \in UserRows /\ spent \cap user.codes = {}
  BY TypeParts DEF TypeInv, UserTyped, SpentCodesStaySpent
<1>2. ASSUME spent' = spent, user'.codes = user.codes PROVE SpentCodesStaySpent'
  BY <1>1, <1>2 DEF SpentCodesStaySpent
<1>3. ASSUME NEW r \in Requests, Ready(r, "login") \/ Ready(r, "setup"),
             NEW codes \in SUBSET seen[r].codes, user'.codes = codes,
             spent' = spent \cup (seen[r].codes \ codes)
      PROVE  SpentCodesStaySpent'
  <2>1. seen[r] = user
    BY <1>3, Own DEF Ready
  <2> QED
    BY <1>1, <1>3, <2>1 DEF SpentCodesStaySpent
<1>4. ASSUME NEW r \in Requests, CommitLogin(r) PROVE SpentCodesStaySpent'
  <2>1. CASE UNCHANGED <<user, spent>>
    BY <1>2, <2>1
  <2>2. ASSUME NEW c \in seen[r].codes, user' = [user EXCEPT !.codes = seen[r].codes \ {c}],
               spent' = spent \cup {c}
        PROVE  SpentCodesStaySpent'
    <3>1. user'.codes = seen[r].codes \ {c}
      BY <1>1, <2>2 DEF UserRows
    <3>2. seen[r].codes \ (seen[r].codes \ {c}) = {c}
      BY <2>2
    <3>3. Ready(r, "login")
      BY <1>4 DEF CommitLogin
    <3> QED
      BY <1>3, <2>2, <3>1, <3>2, <3>3
  <2> QED
    BY <1>4, <2>1, <2>2 DEF CommitLogin, FactorGiven
<1>5. ASSUME NEW r \in Requests, CommitSetup(r) PROVE SpentCodesStaySpent'
  <2>1. PICK codes \in SUBSET seen[r].codes :
          /\ user' = [user EXCEPT !.pending = drawn + 1, !.codes = codes]
          /\ spent' = spent \cup (seen[r].codes \ codes)
    BY <1>5 DEF CommitSetup
  <2>2. user'.codes = codes
    BY <1>1, <2>1 DEF UserRows
  <2>3. Ready(r, "setup")
    BY <1>5 DEF CommitSetup
  <2> QED
    BY <1>3, <2>1, <2>2, <2>3
<1>6. ASSUME NEW r \in Requests, CommitConfirm(r) \/ CommitDisable(r) PROVE SpentCodesStaySpent'
  BY <1>6 DEF CommitConfirm, CommitDisable, SpentCodesStaySpent
<1>7. ASSUME NEW r \in Requests, CommitVerify(r) \/ CommitRecovery(r) PROVE SpentCodesStaySpent'
  BY <1>1, <1>2, <1>7 DEF CommitVerify, CommitRecovery, UserRows
<1>8. ASSUME NEW reset \in BOOLEAN, Bootstrap(reset) PROVE SpentCodesStaySpent'
  BY <1>1, <1>2, <1>8 DEF Bootstrap, UserRows, history
<1>9. CASE Register
  <2>1. user' = [NoUser EXCEPT !.exists = TRUE, !.pw = 1]
    BY <1>9 DEF Register
  <2>2. user'.codes = {}
    BY <2>1, Nothing DEF UserRows
  <2> QED
    BY <2>2 DEF SpentCodesStaySpent
<1>10. UNCHANGED spent \/ \E r \in Requests : CommitLogin(r) \/ CommitSetup(r) \/ CommitConfirm(r)
                                                 \/ CommitDisable(r)
  <2>1. Apart => UNCHANGED spent
    BY DEF Apart, Register, CooldownEnds, Logout, Bootstrap, TokenExpires, history
  <2>2. ASSUME NEW r \in Requests, Ends(r)
        PROVE  UNCHANGED spent \/ CommitLogin(r) \/ CommitSetup(r) \/ CommitConfirm(r) \/ CommitDisable(r)
    BY <2>2 DEF Ends, Commit, CommitVerify, CommitResend, CommitRequestRecovery, CommitRecovery,
       Refused, DeadlockVictim, history
  <2> QED
    BY <2>1, <2>2, NextSteps, OthersKeepRows DEF HandlerStep, history, vars
<1> QED
  BY <1>2, <1>4, <1>5, <1>6, <1>7, <1>8, <1>9, <1>10, UserChanges

\* A recovery code that was accepted never comes back into the set.
THEOREM SpentCodesStaySpentAlways == Spec => []SpentCodesStaySpent
<1>1. Init => SpentCodesStaySpent
  BY DEF Init, SpentCodesStaySpent
<1> QED
  BY <1>1, SpentStep, AccountInvAlways, PTL DEF Spec

-----------------------------------------------------------------------------
(* Lock order *)

\* Handlers wait for each other only around the verification link and the account.
THEOREM OnlyVerificationDeadlocksAlways == Spec => []OnlyVerificationDeadlocks
<1>1. TypeInv /\ LinkInv => OnlyVerificationDeadlocks
  <2> SUFFICES ASSUME TypeInv, LinkInv, NEW r \in Requests, NEW q \in Requests, r # q,
                      WaitsFor(r, q), WaitsFor(q, r)
               PROVE  {op[r], op[q]} = {"verify", "resend"}
    BY DEF OnlyVerificationDeadlocks, Deadlocked
  <2>1. HandlersTyped /\ LocksTyped
    BY TypeParts DEF TypeInv
  \* Who waits for a link has the account.
  <2>2. ASSUME NEW x \in Requests, NEW t \in NeededTokens(x) PROVE userLock = x /\ seen[x].exists
    BY <2>2, Own DEF NeededTokens, Ready
  <2>3. ASSUME NEW x \in Requests, NEW y \in Requests, x # y,
               NeedsUser(x), userLock = y, NEW t \in NeededTokens(y), tokenLock[t] = x
        PROVE  op[x] = "verify" /\ op[y] = "resend"
    <3>1. ~seen[x].exists
      BY <2>3, Own
    <3>2. t \in Tokens /\ op[y] \in {"resend", "recover"}
          /\ (op[y] = "resend" => token[t].kind = "verify")
          /\ (op[y] = "recover" => token[t].kind = "recover")
      <4>1. CASE Ready(y, "resend") /\ ~seen[y].verified
        BY <2>3, <4>1 DEF NeededTokens, VerifyTokens, Ready
      <4>2. CASE Ready(y, "recover")
        <5>1. link[y] \in Tokens /\ token[link[y]].kind = "recover" /\ op[y] = "recover"
          BY <4>2, Own DEF Ready, LinkInv, LinkOf
        <5>2. t \in {link[y]} \cup {u \in Tokens : Fresh(u, "recover")}
          BY <2>3, <4>2 DEF NeededTokens, Ready
        <5> QED
          BY <5>1, <5>2 DEF Fresh
      <4> QED
        BY <2>3, <4>1, <4>2 DEF NeededTokens
    <3>3. link[x] = t /\ op[x] \in {"verify", "recover"}
      BY <2>1, <2>3, <3>2, Nothing DEF LocksTyped, TypeInv, Holds
    <3>4. op[x] = "verify"
      BY <2>3, <3>1, <3>3 DEF TypeInv, Holds
    <3>5. token[t].kind = "verify"
      BY <3>3, <3>4 DEF LinkInv, LinkOf
    <3> QED
      BY <3>2, <3>4, <3>5
  <2>4. CASE NeedsUser(r) /\ userLock = q
    <3>1. ~(NeedsUser(q) /\ userLock = r)
      BY <2>4
    <3>2. PICK t \in NeededTokens(q) : tokenLock[t] = r
      BY <3>1 DEF WaitsFor
    <3> QED
      BY <2>3, <2>4, <3>2
  <2>5. CASE \E t \in NeededTokens(r) : tokenLock[t] = q
    <3>1. userLock = r
      BY <2>2, <2>5
    <3>2. ~\E t \in NeededTokens(q) : tokenLock[t] = r
      BY <2>2, <3>1
    <3>3. NeedsUser(q)
      BY <3>2 DEF WaitsFor
    <3>4. op[q] = "verify" /\ op[r] = "resend"
      BY <2>3, <2>5, <3>1, <3>3
    <3> QED
      BY <3>4
  <2> QED
    BY <2>4, <2>5 DEF WaitsFor
<1> QED
  BY <1>1, AccountInvAlways, PTL

=============================================================================

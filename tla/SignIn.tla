------------------------------- MODULE SignIn -------------------------------
(***************************************************************************)
(* One account and everything that opens or closes it: AuthService and     *)
(* SessionService (apps/api, identity), the forms of the storefront that   *)
(* call them, and the deactivation of the account by staff.                *)
(*                                                                         *)
(* Requests overlap: each is one slot, taken through the reads and writes  *)
(* of its handler one at a time.  A transaction is the snapshot its first  *)
(* UPDATE took (seen) and, later, its commit; the ones that write the User *)
(* row before they revoke hold its lock in between.  A request may die     *)
(* between any two steps (MaxDeaths bounds how many do); a transaction it  *)
(* had open is rolled back.  A request that is refused before it writes    *)
(* anything changes nothing and is left out.                               *)
(***************************************************************************)
EXTENDS FiniteSets, Integers

CONSTANTS
  Requests,     \* slots for requests under way
  Sessions,     \* the Session rows there is room for
  Codes,        \* the LoginOtp rows there is room for
  Links,        \* the AccountActionToken rows there is room for
  Passwords,
  Null,         \* no password; nothing carried
  MaxAttempts,  \* LOGIN_OTP_MAX_ATTEMPTS
  MaxDeaths     \* bound: requests that die

ASSUME ProofsAreDistinct ==
  /\ Codes \cap Passwords = {} /\ Null \notin Codes \cup Passwords
  /\ "google" \notin Codes \cup Passwords \cup {Null}
ASSUME Bounds == MaxAttempts \in Nat \ {0} /\ MaxDeaths \in Nat

VARIABLES
  account,   \* the User row and whether an OAuthAccount is linked to it
  sessions,  \* Session
  codes,     \* LoginOtp
  links,     \* AccountActionToken
  request,   \* the requests under way
  deaths     \* how many requests have died

vars == <<account, sessions, codes, links, request, deaths>>
stores == <<account, sessions, codes, links>>

Google == "google"
Proofs == Codes \cup Passwords \cup {Google}
Accounts == [status : {"NONE", "ACTIVE", "DISABLED"}, password : {Null} \cup Passwords,
             verified : BOOLEAN, linked : BOOLEAN]
(* A row is "written" until its token is answered; then a client holds it. *)
(* One that is revoked or out of date is forgotten, and "free" for another. *)
(* "late" remembers why the row outlived a replacement of the password:    *)
(* its sign-in was under way when that was committed, or was answered, but *)
(* only after the claim of the account had looked for rows to revoke.      *)
SessionRows == [state : {"free", "written", "held"}, by : {Null} \cup Proofs,
                late : {"no", "underWay", "missed"}]
(* The tries of a consumed code decide nothing and are forgotten.  "left"  *)
(* remembers that the request that was to close it died before it did.     *)
CodeRows == [open : BOOLEAN, attempts : Nat, left : BOOLEAN]
(* Both "used" and "void" have consumedAt or are out of date.              *)
LinkRows == [state : {"void", "open", "used"}, purpose : {"verify", "reset"}]

Ops == {"password", "code", "google", "register", "verify", "reset",
        "sendCode", "sendVerify", "sendReset", "deactivate"}
Phases == {"idle", "create", "validate", "wrong", "over", "right", "mark", "makeUser", "claim", "claiming",
           "link", "register", "verify", "hash", "revoking", "sending"}
RequestRecords == [at : Phases, op : Ops, what : {Null} \cup Proofs,
                   seen : SUBSET (Sessions \cup Codes \cup Links), late : BOOLEAN]
Asked(at, op, what, seen) == [at |-> at, op |-> op, what |-> what, seen |-> seen, late |-> FALSE]
Idle == Asked("idle", "password", Null, {})

NoSession == [state |-> "free", by |-> Null, late |-> "no"]
Spent == [open |-> FALSE, attempts |-> 0, left |-> FALSE]
Void == [state |-> "void", purpose |-> "verify"]
Alive(s) == sessions[s].state # "free"
Unconsumed(c) == codes[c].open
Live == {s \in Sessions : Alive(s)}

(* Rows that nothing refers to any more stand for the next ones written.   *)
Unseen(row) == \A q \in Requests : row \notin request[q].seen /\ row # request[q].what
SpareSession(s) == ~Alive(s) /\ Unseen(s)
SpareCode(c) == ~Unconsumed(c) /\ Unseen(c) /\ \A s \in Sessions : sessions[s].by # c
SpareLink(l) == Unseen(l) /\ (links[l].state = "void" \/ (links[l].state = "used" /\ account.verified))

Init ==
  /\ account = [status |-> "NONE", password |-> Null, verified |-> FALSE, linked |-> FALSE]
  /\ sessions = [s \in Sessions |-> NoSession]
  /\ codes = [c \in Codes |-> Spent]
  /\ links = [l \in Links |-> Void]
  /\ request = [q \in Requests |-> Idle]
  /\ deaths = 0

Take(q, at, op, what, seen) ==
  /\ request[q].at = "idle"
  /\ request' = [request EXCEPT ![q] = Asked(at, op, what, seen)]
At(q, at) == request[q].at = at
Go(q, at) == request' = [request EXCEPT ![q].at = at]
Answer(q) == request' = [request EXCEPT ![q] = Idle]

(* Bounds: every request under way finds the row it will write.            *)
Doing(ops) == {q \in Requests : request[q].at # "idle" /\ request[q].op \in ops}
RoomForSession == Cardinality({s \in Sessions : ~Alive(s)}) > Cardinality(Doing({"password", "code", "google"}))
RoomForCode == Cardinality({c \in Codes : SpareCode(c)}) > Cardinality(Doing({"sendCode"}))
RoomForLink == Cardinality({l \in Links : SpareLink(l)})
                 > Cardinality(Doing({"register", "sendVerify", "sendReset"}))

(* An UPDATE of the User row waits for the transaction that wrote it.      *)
UserRowIsFree == \A q \in Requests : ~At(q, "revoking")

(***************************************************************************)
(* issueSession                                                            *)
(***************************************************************************)
CreateSession(q) ==
  /\ At(q, "create")
  /\ \E s \in Sessions :
       /\ SpareSession(s)
       /\ sessions' = [sessions EXCEPT ![s] = [state |-> "written", by |-> request[q].what,
                                               late |-> IF request[q].late THEN "underWay" ELSE "no"]]
       /\ request' = [request EXCEPT ![q].at = "validate", ![q].seen = {s}]
  /\ UNCHANGED <<account, codes, links, deaths>>

\* Bug: lastLoginAt is not written, so nothing waits for a deactivation under way.
DoesNotWait == TRUE
LastLoginWaits == UserRowIsFree

(* lastLoginAt is written, then the session read back like any other.      *)
ValidateSession(q) ==
  /\ At(q, "validate") /\ LastLoginWaits
  /\ sessions' = [s \in Sessions |->
       IF s \in request[q].seen /\ Alive(s) /\ account.status = "ACTIVE"
       THEN [sessions[s] EXCEPT !.state = "held"] ELSE sessions[s]]
  /\ Answer(q) /\ UNCHANGED <<account, codes, links, deaths>>

RevokeSession(s) ==
  /\ sessions' = [sessions EXCEPT ![s] = NoSession]
  /\ UNCHANGED <<account, codes, links, request, deaths>>
Logout(s) == sessions[s].state = "held" /\ RevokeSession(s)
SessionExpires(s) == Alive(s) /\ Unseen(s) /\ RevokeSession(s)

(***************************************************************************)
(* Signing in with a password                                              *)
(***************************************************************************)
Login(q, p) ==
  /\ RoomForSession /\ account.status = "ACTIVE" /\ account.password = p
  /\ Take(q, "create", "password", p, {})
  /\ UNCHANGED <<stores, deaths>>

(***************************************************************************)
(* Signing in with a code sent by email                                    *)
(***************************************************************************)
(* The cooldown between two codes only asks that time passes, which it may  *)
(* between any two steps.                                                   *)
RequestLoginOtp(q) ==
  /\ RoomForCode /\ account.status = "ACTIVE"
  /\ Take(q, "sending", "sendCode", Null, {c \in Codes : Unconsumed(c)})
  /\ UNCHANGED <<stores, deaths>>

CommitLoginOtp(q) ==
  /\ At(q, "sending") /\ request[q].op = "sendCode"
  /\ \E c \in Codes :
       /\ SpareCode(c)
       /\ codes' = [d \in Codes |-> IF d = c THEN [Spent EXCEPT !.open = TRUE]
                                    ELSE IF d \in request[q].seen THEN Spent
                                    ELSE codes[d]]
  /\ Answer(q) /\ UNCHANGED <<account, sessions, links, deaths>>

CodeExpires(c) ==
  /\ Unconsumed(c)
  /\ codes' = [codes EXCEPT ![c] = Spent]
  /\ UNCHANGED <<account, sessions, links, request, deaths>>

(* The code read is the newest one; two are unconsumed only when they were *)
(* issued at once, and then either may be the newer.                       *)
LoginWithOtp(q, c) ==
  /\ RoomForSession /\ account.status = "ACTIVE" /\ Unconsumed(c)
  /\ \E at \in {"right", "wrong"} : Take(q, at, "code", c, {})
  /\ UNCHANGED <<stores, deaths>>

\* Bug: the last try allowed does not close the code.
ClosesLate(n) == n > MaxAttempts
ClosesAfter(n) == n >= MaxAttempts

(* The try is added to what the row holds by then, not to what was read.   *)
WrongCode(q) ==
  /\ At(q, "wrong")
  /\ LET c == request[q].what
         n == codes[c].attempts + 1 IN
     IF Unconsumed(c)
     THEN /\ codes' = [codes EXCEPT ![c].attempts = n]
          /\ IF ClosesAfter(n) THEN Go(q, "over") ELSE Answer(q)
     ELSE Answer(q) /\ UNCHANGED codes
  /\ UNCHANGED <<account, sessions, links, deaths>>

TooManyTries(q) ==
  /\ At(q, "over")
  /\ codes' = [codes EXCEPT ![request[q].what] = Spent]
  /\ Answer(q) /\ UNCHANGED <<account, sessions, links, deaths>>
\* Bug: the code is consumed whether or not it still was to be.
AnyRow(c) == TRUE
WinsRow(c) == Unconsumed(c)

RightCode(q) ==
  /\ At(q, "right")
  /\ LET c == request[q].what IN
     IF WinsRow(c)
     THEN /\ codes' = [codes EXCEPT ![c] = Spent]
          /\ Go(q, "mark")
     ELSE Answer(q) /\ UNCHANGED codes
  /\ UNCHANGED <<account, sessions, links, deaths>>

\* Bug: the code is not taken as proof that the address is the customer's.
LeavesAsIs == account
Verified == [account EXCEPT !.verified = TRUE]

(* Nothing is written, and nothing waited for, if the address was verified *)
(* when the request read the account; it can only have become so since.    *)
MarkVerified(q) ==
  /\ At(q, "mark") /\ (account.verified \/ UserRowIsFree)
  /\ account' = Verified
  /\ Go(q, "create") /\ UNCHANGED <<sessions, codes, links, deaths>>

(***************************************************************************)
(* Signing in with Google                                                  *)
(***************************************************************************)
Exists == account.status # "NONE"

LoginWithGoogle(q) ==
  /\ RoomForSession
  /\ \/ account.linked /\ account.status = "ACTIVE" /\ Take(q, "create", "google", Google, {})
     \/ ~Exists /\ Take(q, "makeUser", "google", Google, {})
     \/ Exists /\ ~account.linked /\ ~account.verified /\ Take(q, "claim", "google", Google, {})
     \/ account.status = "ACTIVE" /\ ~account.linked /\ account.verified /\ Take(q, "link", "google", Google, {})
  /\ UNCHANGED <<stores, deaths>>

(* The address is unique: who comes second fails.                          *)
MakeUser(q) ==
  /\ At(q, "makeUser")
  /\ IF Exists THEN Answer(q) /\ UNCHANGED account
     ELSE /\ account' = [status |-> "ACTIVE", password |-> Null, verified |-> TRUE, linked |-> FALSE]
          /\ Go(q, "link")
  /\ UNCHANGED <<sessions, codes, links, deaths>>

RevokeForClaim(q) ==
  /\ At(q, "claim")
  /\ request' = [request EXCEPT ![q].at = "claiming", ![q].seen = Live]
  /\ UNCHANGED <<stores, deaths>>

\* Bug: the sessions stay.
RevokesNothing(seen, op) == sessions
Late(row, op) == CASE op # "deactivate" /\ row.state = "written" -> "underWay"
                   [] op = "google" /\ row.state = "held" -> "missed"
                   [] OTHER -> row.late
Revoke(seen, op) == [s \in Sessions |->
  IF ~Alive(s) THEN sessions[s]
  ELSE IF s \in seen THEN NoSession
  ELSE [sessions[s] EXCEPT !.late = Late(sessions[s], op)]]
(* Sign-ins that go on although the password they gave has been replaced.  *)
Overtake(r) == [r EXCEPT !.late = r.op = "password"]

(* The row this returns is read for the status. *)
CommitClaim(q) ==
  /\ At(q, "claiming") /\ UserRowIsFree
  /\ account' = [account EXCEPT !.password = Null, !.verified = TRUE]
  /\ sessions' = Revoke(request[q].seen, request[q].op)
  /\ request' = [r \in Requests |->
       IF r # q THEN Overtake(request[r])
       ELSE IF account.status = "ACTIVE" THEN [request[q] EXCEPT !.at = "link", !.seen = {}] ELSE Idle]
  /\ UNCHANGED <<codes, links, deaths>>

LinkGoogle(q) ==
  /\ At(q, "link")
  /\ account' = [account EXCEPT !.linked = TRUE]
  /\ Go(q, "create") /\ UNCHANGED <<sessions, codes, links, deaths>>

(***************************************************************************)
(* Links sent by email: verification and reset                             *)
(***************************************************************************)
Issued(l, purpose, prior) == [k \in Links |->
  IF k = l THEN [state |-> "open", purpose |-> purpose]
  ELSE IF k \in prior /\ links[k].state = "open" THEN Void ELSE links[k]]

Register(q, p) ==
  /\ RoomForLink /\ ~Exists
  /\ Take(q, "register", "register", p, {})
  /\ UNCHANGED <<stores, deaths>>

CreateAccount(q) ==
  /\ At(q, "register")
  /\ IF Exists THEN UNCHANGED <<account, links>>
     ELSE /\ account' = [status |-> "ACTIVE", password |-> request[q].what,
                         verified |-> FALSE, linked |-> FALSE]
          /\ \E l \in Links : SpareLink(l) /\ links' = Issued(l, "verify", {})
  /\ Answer(q) /\ UNCHANGED <<sessions, codes, deaths>>

OpenLinks(purpose) == {l \in Links : links[l].state = "open" /\ links[l].purpose = purpose}

ResendVerification(q) ==
  /\ RoomForLink /\ account.status = "ACTIVE" /\ ~account.verified
  /\ Take(q, "sending", "sendVerify", Null, OpenLinks("verify"))
  /\ UNCHANGED <<stores, deaths>>

RequestPasswordReset(q) ==
  /\ RoomForLink /\ account.status = "ACTIVE" /\ account.password # Null
  /\ Take(q, "sending", "sendReset", Null, OpenLinks("reset"))
  /\ UNCHANGED <<stores, deaths>>

PurposeOf(q) == IF request[q].op = "sendReset" THEN "reset" ELSE "verify"

CommitToken(q) ==
  /\ At(q, "sending") /\ request[q].op \in {"sendVerify", "sendReset"}
  /\ \E l \in Links : SpareLink(l) /\ links' = Issued(l, PurposeOf(q), request[q].seen)
  /\ Answer(q) /\ UNCHANGED <<account, sessions, codes, deaths>>

LinkExpires(l) ==
  /\ links[l].state = "open"
  /\ links' = [links EXCEPT ![l] = Void]
  /\ UNCHANGED <<account, sessions, codes, request, deaths>>

ConsumeToken(l, purpose) ==
  /\ links[l].state = "open" /\ links[l].purpose = purpose
  /\ links' = [links EXCEPT ![l].state = "used"]
  /\ UNCHANGED <<account, sessions, codes, deaths>>

VerifyEmail(q, l) == ConsumeToken(l, "verify") /\ Take(q, "verify", "verify", Null, {})

SetVerified(q) ==
  /\ At(q, "verify") /\ UserRowIsFree
  /\ account' = Verified
  /\ Answer(q) /\ UNCHANGED <<sessions, codes, links, deaths>>

ResetPassword(q, l, p) == ConsumeToken(l, "reset") /\ Take(q, "hash", "reset", p, {})

(* The transactions that write the User row first, then revoke. *)
BeginRevoking(q, op, what) ==
  /\ UserRowIsFree
  /\ request' = [request EXCEPT ![q] = Asked("revoking", op, what, Live)]
  /\ UNCHANGED <<stores, deaths>>

WritePassword(q) == At(q, "hash") /\ BeginRevoking(q, "reset", request[q].what)

CommitReset(q) ==
  /\ At(q, "revoking") /\ request[q].op = "reset"
  /\ account' = [account EXCEPT !.password = request[q].what, !.verified = TRUE]
  /\ sessions' = Revoke(request[q].seen, request[q].op)
  /\ request' = [r \in Requests |-> IF r = q THEN Idle ELSE Overtake(request[r])]
  /\ UNCHANGED <<codes, links, deaths>>

(***************************************************************************)
(* Staff                                                                   *)
(***************************************************************************)
Deactivate(q) ==
  /\ At(q, "idle") /\ account.status = "ACTIVE"
  /\ BeginRevoking(q, "deactivate", Null)

CommitDeactivate(q) ==
  /\ At(q, "revoking") /\ request[q].op = "deactivate"
  /\ account' = [account EXCEPT !.status = "DISABLED"]
  /\ sessions' = Revoke(request[q].seen, request[q].op)
  /\ Answer(q) /\ UNCHANGED <<codes, links, deaths>>

Activate ==
  /\ account.status = "DISABLED" /\ UserRowIsFree
  /\ account' = [account EXCEPT !.status = "ACTIVE"]
  /\ UNCHANGED <<sessions, codes, links, request, deaths>>

LeftOpen(c) == [codes EXCEPT ![c].left = Unconsumed(c)]
Die(q) ==
  /\ ~At(q, "idle") /\ deaths < MaxDeaths
  /\ deaths' = deaths + 1
  /\ codes' = IF At(q, "over") THEN LeftOpen(request[q].what) ELSE codes
  /\ Answer(q) /\ UNCHANGED <<account, sessions, links>>

(* The forms that send these requests; nothing keeps two pages from sending *)
(* them at once.                                                            *)
EmailStep(q) == RequestLoginOtp(q) \/ LoginWithGoogle(q)
PasswordStep(q) == \E p \in Passwords : Login(q, p)
OtpStep(q) == \E c \in Codes : LoginWithOtp(q, c)
CreateAccountForm(q) == \E p \in Passwords : Register(q, p)
VerifyEmailPanel(q) == \E l \in Links : VerifyEmail(q, l)
ResendVerificationButton(q) == ResendVerification(q)
ForgotPasswordForm(q) == RequestPasswordReset(q)
ResetPasswordForm(q) == \E l \in Links, p \in Passwords : ResetPassword(q, l, p)

Start(q) ==
  \/ EmailStep(q) \/ PasswordStep(q) \/ OtpStep(q)
  \/ CreateAccountForm(q) \/ VerifyEmailPanel(q) \/ ResendVerificationButton(q)
  \/ ForgotPasswordForm(q) \/ ResetPasswordForm(q)
  \/ Deactivate(q)

Step(q) ==
  \/ CreateSession(q) \/ ValidateSession(q)
  \/ CommitLoginOtp(q)
  \/ WrongCode(q) \/ TooManyTries(q) \/ RightCode(q) \/ MarkVerified(q)
  \/ MakeUser(q) \/ RevokeForClaim(q) \/ CommitClaim(q) \/ LinkGoogle(q)
  \/ CreateAccount(q)  \/ CommitToken(q) \/ SetVerified(q)
  \/ WritePassword(q) \/ CommitReset(q) \/ CommitDeactivate(q)

Next ==
  \/ \E q \in Requests : Start(q) \/ Step(q) \/ Die(q)
  \/ \E s \in Sessions : Logout(s) \/ SessionExpires(s)
  \/ \E c \in Codes : CodeExpires(c)
  \/ \E l \in Links : LinkExpires(l)
  \/ Activate

Spec == Init /\ [][Next]_vars

(***************************************************************************)
(* Properties                                                              *)
(***************************************************************************)
TypeOK ==
  /\ account \in Accounts
  /\ sessions \in [Sessions -> SessionRows]
  /\ codes \in [Codes -> CodeRows]
  /\ links \in [Links -> LinkRows]
  /\ request \in [Requests -> RequestRecords]
  /\ deaths \in 0..MaxDeaths

(* However many requests bring the same code at once, it opens one session. *)
OneSessionPerCode ==
  \A s, t \in Sessions : sessions[s].by \in Codes /\ sessions[s].by = sessions[t].by => s = t

(* A code that has had its wrong tries is about to be closed, by a request  *)
(* that is still under way, unless that very request died: wrong tries that *)
(* come together are all counted, and none overlooks that it was the last.  *)
ExhaustedCodeCloses ==
  \A c \in Codes : Unconsumed(c) /\ codes[c].attempts >= MaxAttempts =>
    codes[c].left \/ \E q \in Requests : At(q, "over") /\ request[q].what = c

(* A code that has had its wrong tries opens nothing.  The code breaks this *)
(* between the write that counts the last try and the one that closes the   *)
(* code, and for good after a death in between: the consumption of a right  *)
(* code does not look at the tries.  See the README.                        *)
ExhaustedCodeOpensNothing ==
  [][\A q \in Requests : At(q, "right") /\ request'[q].at = "mark" =>
       codes[request[q].what].attempts < MaxAttempts]_vars

(* Whoever has signed in with a code or with Google may check out: the      *)
(* address is verified then, whatever the request had read.                 *)
SignedInByMailIsVerified ==
  (account.linked \/ \E s \in Sessions : sessions[s].by \in Codes \cup {Google}) => account.verified

(* An emailed link that was accepted verifies the address: until that is    *)
(* done a request that brought one is still under way, unless one died.     *)
AcceptedLinkVerifies ==
  account.verified \/ deaths > 0 \/
  ((\E l \in Links : links[l].state = "used") => Doing({"verify", "reset"}) # {})

(* Deactivation ends every session a client holds, the ones opened while it *)
(* went on included: none comes back when the account is activated again.   *)
DisabledIsSignedOut ==
  account.status = "DISABLED" => \A s \in Sessions : sessions[s].state # "held"

(* A session that was opened with a password ends when the password is      *)
(* replaced.  A reset leaves only those whose sign-in was still under way;  *)
(* a claim by Google also leaves those that were opened, and answered, after *)
(* it had revoked the sessions it found and before it took the password.    *)
OldPasswordsAreOut ==
  \A s \in Sessions :
    sessions[s].state = "held" /\ sessions[s].by \in Passwords /\ sessions[s].by # account.password =>
      sessions[s].late = "underWay" \/ (sessions[s].late = "missed" /\ account.password = Null)

(* No session outlives the password it was opened with.  The code breaks    *)
(* this in the two cases that OldPasswordsAreOut exempts: see the README.   *)
NoSessionOutlivesItsPassword ==
  \A s \in Sessions :
    sessions[s].state = "held" /\ sessions[s].by \in Passwords => sessions[s].by = account.password
=============================================================================

---------------------------- MODULE SignInProofs ----------------------------
(***************************************************************************)
(* What signing in, resetting and deactivating keep true of one account,   *)
(* for any number of overlapping requests, sessions, codes and links.      *)
(***************************************************************************)
EXTENDS SignIn, TLAPS

(* What a request carries, and which handler each phase belongs to. *)
Stands(at, op, what) == at # "idle" =>
  /\ op = "code" => what \in Codes
  /\ op = "google" => what = Google
  /\ op \in {"password", "register", "reset"} => what \in Passwords
  /\ at \in {"create", "validate"} => op \in {"password", "code", "google"}
  /\ at \in {"wrong", "over", "right", "mark"} => op = "code"
  /\ at \in {"makeUser", "claim", "claiming", "link"} => op = "google"
  /\ at = "register" => op = "register"
  /\ at = "verify" => op = "verify"
  /\ at = "hash" => op = "reset"
  /\ at = "revoking" => op \in {"reset", "deactivate"}
  /\ at = "sending" => op \in {"sendCode", "sendVerify", "sendReset"}
Staged == \A q \in Requests : Stands(request[q].at, request[q].op, request[q].what)

(* Nothing was written before there was an account. *)
NothingBefore ==
  ~Exists =>
    /\ ~account.linked
    /\ \A s \in Sessions : sessions[s] = NoSession
    /\ \A l \in Links : links[l].state = "void"
    /\ \A q \in Requests : request[q].at \in {"idle", "makeUser", "register"}

(* A code that opens a session is consumed, and opens no other. *)
Opens(q) == request[q].op = "code" /\ request[q].at \in {"mark", "create"}
CodesAreOwned ==
  /\ OneSessionPerCode
  /\ \A s \in Sessions : sessions[s].by \in Codes => ~Unconsumed(sessions[s].by)
  /\ \A q \in Requests : Opens(q) =>
       /\ ~Unconsumed(request[q].what)
       /\ \A s \in Sessions : sessions[s].by # request[q].what
       /\ \A r \in Requests \ {q} : Opens(r) => request[r].what # request[q].what

(* Who is about to open a session by mail has verified the address. *)
AboutToByMail(q) == \/ request[q].at = "link"
                    \/ request[q].at = "create" /\ request[q].op \in {"code", "google"}
MailVerifies == SignedInByMailIsVerified /\ \A q \in Requests : AboutToByMail(q) => account.verified

(* One transaction at a time has written the User row; it has seen every   *)
(* session a client holds.                                                 *)
OneHoldsTheRow ==
  /\ \A q, r \in Requests : At(q, "revoking") /\ At(r, "revoking") => q = r
  /\ \A q \in Requests : At(q, "revoking") =>
       \A s \in Sessions : sessions[s].state = "held" => s \in request[q].seen

(* A password that was replaced is only still used by sign-ins that know it, *)
(* and by sessions that a claim, which leaves no password, has missed.     *)
Outlives(s) == sessions[s].late = "underWay" \/ (sessions[s].late = "missed" /\ account.password = Null)
OldPasswordsAreLate ==
  /\ \A s \in Sessions : Alive(s) /\ sessions[s].by \in Passwords /\ sessions[s].by # account.password
                            => Outlives(s)
  /\ \A q \in Requests : At(q, "create") /\ request[q].op = "password" /\ request[q].what # account.password
                            => request[q].late

IInv ==
  /\ TypeOK /\ Staged /\ NothingBefore /\ CodesAreOwned /\ ExhaustedCodeCloses
  /\ MailVerifies /\ AcceptedLinkVerifies /\ OneHoldsTheRow /\ DisabledIsSignedOut /\ OldPasswordsAreLate

LEMMA IdleType == Idle \in RequestRecords /\ Idle.at = "idle"
BY DEF Idle, Asked, RequestRecords, Phases, Ops

LEMMA Initially ==
  ASSUME Init
  PROVE  IInv
<1>1. TypeOK
  BY IdleType, ProofsAreDistinct, Bounds DEF Init, NoSession, Spent, Void, Idle, Asked, TypeOK,
    Accounts, SessionRows, CodeRows, LinkRows
<1>2. Staged
  BY IdleType DEF Init, Staged, Stands
<1>3. NothingBefore
  BY IdleType, ProofsAreDistinct, Bounds DEF Init, NoSession, Spent, Void, Idle, Asked,
    NothingBefore, Alive
<1>4. CodesAreOwned
  BY IdleType, ProofsAreDistinct DEF Init, NoSession, CodesAreOwned, OneSessionPerCode, Opens
<1>5. ExhaustedCodeCloses
  BY IdleType, ProofsAreDistinct, Bounds DEF Init, NoSession, Spent, Void, Idle, Asked,
    ExhaustedCodeCloses, Unconsumed
<1>6. MailVerifies
  BY IdleType, ProofsAreDistinct, Bounds DEF Init, NoSession, Spent, Void, Idle, Asked,
    MailVerifies, SignedInByMailIsVerified, AboutToByMail, Google
<1>7. AcceptedLinkVerifies
  BY IdleType, ProofsAreDistinct, Bounds DEF Init, NoSession, Spent, Void, Idle, Asked,
    AcceptedLinkVerifies
<1>8. OneHoldsTheRow
  BY IdleType, ProofsAreDistinct, Bounds DEF Init, NoSession, Spent, Void, Idle, Asked,
    OneHoldsTheRow, At
<1>9. DisabledIsSignedOut
  BY IdleType, ProofsAreDistinct, Bounds DEF Init, NoSession, Spent, Void, Idle, Asked,
    DisabledIsSignedOut
<1>10. OldPasswordsAreLate
  BY IdleType, ProofsAreDistinct, Bounds DEF Init, NoSession, Spent, Void, Idle, Asked,
    OldPasswordsAreLate, Alive, At
<1> QED BY <1>1, <1>2, <1>3, <1>4, <1>5, <1>6, <1>7, <1>8, <1>9, <1>10 DEF IInv

-----------------------------------------------------------------------------
(* How a request moves: Take begins it, Go moves it on, Answer ends it.    *)
Whats == {Null} \cup Proofs
Seens == SUBSET (Sessions \cup Codes \cup Links)
Others(q) == \A r \in Requests \ {q} : request'[r] = request[r]
Becomes(q, at, op, what, seen, late) ==
  /\ request' \in [Requests -> RequestRecords] /\ Others(q)
  /\ request'[q].at = at /\ request'[q].op = op /\ request'[q].what = what
  /\ request'[q].seen = seen /\ request'[q].late = late
IsIdle(r) == r.at = "idle" /\ r.what = Null /\ r.seen = {}
Answered(q) == request' \in [Requests -> RequestRecords] /\ Others(q) /\ IsIdle(request'[q])

(* A replaced password marks the requests that go on. *)
Overtaken(q) ==
  \A r \in Requests \ {q} :
    /\ request'[r].at = request[r].at /\ request'[r].op = request[r].op
    /\ request'[r].what = request[r].what /\ request'[r].seen = request[r].seen
    /\ request'[r].late = (request[r].op = "password")
RowIsFree == \A r \in Requests : request[r].at # "revoking"
Verifies ==
  /\ account' \in Accounts /\ account'.verified
  /\ account'.status = account.status /\ account'.password = account.password /\ account'.linked = account.linked
RevokedBy(q, op) ==
  /\ sessions' \in [Sessions -> SessionRows]
  /\ \A s \in Sessions :
       \/ sessions'[s] = NoSession
       \/ ~Alive(s) /\ sessions'[s] = sessions[s]
       \/ /\ Alive(s) /\ s \notin request[q].seen
          /\ sessions'[s].state = sessions[s].state /\ sessions'[s].by = sessions[s].by
          /\ sessions'[s].late = Late(sessions[s], op)
(* What CreateSession writes of a request that was overtaken. *)
LateOf(q) == IF request[q].late THEN "underWay" ELSE "no"

LEMMA TakeMoves ==
  ASSUME TypeOK, NEW q \in Requests, NEW at \in Phases, NEW op \in Ops, NEW what \in Whats, NEW seen \in Seens,
         Take(q, at, op, what, seen)
  PROVE  request[q].at = "idle" /\ Becomes(q, at, op, what, seen, FALSE)
<1>1. Asked(at, op, what, seen) \in RequestRecords
  BY DEF Asked, RequestRecords, Whats, Seens
<1> QED BY <1>1 DEF Take, Asked, TypeOK, Becomes, Others

LEMMA GoMoves ==
  ASSUME TypeOK, NEW q \in Requests, NEW at \in Phases, Go(q, at)
  PROVE  Becomes(q, at, request[q].op, request[q].what, request[q].seen, request[q].late)
<1>1. [request[q] EXCEPT !.at = at] \in RequestRecords
  BY DEF TypeOK, RequestRecords
<1>2. request[q] \in RequestRecords
  BY DEF TypeOK
<1> QED BY <1>1, <1>2 DEF Go, TypeOK, Becomes, Others, RequestRecords

LEMMA AnswerMoves ==
  ASSUME TypeOK, NEW q \in Requests, Answer(q)
  PROVE  Answered(q)
BY IdleType DEF Answer, TypeOK, Answered, IsIdle, Others, Idle, Asked

LEMMA SeesMoves ==
  ASSUME TypeOK, NEW q \in Requests, NEW at \in Phases, NEW seen \in Seens,
         request' = [request EXCEPT ![q].at = at, ![q].seen = seen]
  PROVE  Becomes(q, at, request[q].op, request[q].what, seen, request[q].late)
<1>1. request[q] \in RequestRecords
  BY DEF TypeOK
<1>2. [[request[q] EXCEPT !.at = at] EXCEPT !.seen = seen] \in RequestRecords
  BY <1>1 DEF RequestRecords, Seens
<1> QED BY <1>1, <1>2 DEF TypeOK, Becomes, Others, RequestRecords

LEMMA RevokingMoves ==
  ASSUME TypeOK, NEW q \in Requests, NEW op \in Ops, NEW what \in Whats, BeginRevoking(q, op, what)
  PROVE  Becomes(q, "revoking", op, what, Live, FALSE)
<1>1. Asked("revoking", op, what, Live) \in RequestRecords
  BY DEF Asked, RequestRecords, Whats, Phases, Live
<1> QED BY <1>1 DEF BeginRevoking, Asked, TypeOK, Becomes, Others

-----------------------------------------------------------------------------
LEMMA OvertakeMoves ==
  ASSUME TypeOK, NEW r \in Requests
  PROVE  /\ Overtake(request[r]) \in RequestRecords
         /\ Overtake(request[r]).at = request[r].at /\ Overtake(request[r]).op = request[r].op
         /\ Overtake(request[r]).what = request[r].what /\ Overtake(request[r]).seen = request[r].seen
         /\ Overtake(request[r]).late = (request[r].op = "password")
<1>1. request[r] \in RequestRecords
  BY DEF TypeOK
<1> QED BY <1>1 DEF Overtake, RequestRecords

LEMMA RevokeMoves ==
  ASSUME TypeOK, NEW q \in Requests, NEW op \in Ops, sessions' = Revoke(request[q].seen, op)
  PROVE  RevokedBy(q, op)
<1>1. NoSession \in SessionRows
  BY DEF NoSession, SessionRows
<1>2. ASSUME NEW s \in Sessions
      PROVE  LET row == [sessions[s] EXCEPT !.late = Late(sessions[s], op)] IN
             /\ row \in SessionRows /\ row.state = sessions[s].state /\ row.by = sessions[s].by
             /\ row.late = Late(sessions[s], op)
  <2>1. sessions[s] \in SessionRows
    BY DEF TypeOK
  <2>2. Late(sessions[s], op) \in {"no", "underWay", "missed"}
    BY <2>1 DEF Late, SessionRows
  <2> QED BY <2>1, <2>2 DEF SessionRows
<1>3. \A s \in Sessions : sessions'[s] = IF ~Alive(s) THEN sessions[s]
        ELSE IF s \in request[q].seen THEN NoSession
        ELSE [sessions[s] EXCEPT !.late = Late(sessions[s], op)]
  BY DEF Revoke
<1>4. sessions' \in [Sessions -> SessionRows]
  BY <1>1, <1>2 DEF Revoke, TypeOK
<1> QED BY <1>2, <1>3, <1>4 DEF RevokedBy

-----------------------------------------------------------------------------
(* What each action does. *)
LEMMA LoginDoes ==
  ASSUME TypeOK, NEW q \in Requests, NEW p \in Passwords, Login(q, p)
  PROVE  /\ request[q].at = "idle"
         /\ account.status = "ACTIVE" /\ account.password = p
         /\ Becomes(q, "create", "password", p, {}, FALSE)
         /\ UNCHANGED <<stores, deaths>>
<1>1. "create" \in Phases /\ "password" \in Ops /\ p \in Whats /\ {} \in Seens
  BY DEF Phases, Ops, Whats, Proofs, Seens
<1> QED BY <1>1, TakeMoves DEF Login

LEMMA RequestLoginOtpDoes ==
  ASSUME TypeOK, NEW q \in Requests, RequestLoginOtp(q)
  PROVE  /\ request[q].at = "idle"
         /\ account.status = "ACTIVE"
         /\ \E seen : Becomes(q, "sending", "sendCode", Null, seen, FALSE)
         /\ UNCHANGED <<stores, deaths>>
<1> DEFINE prior == {c \in Codes : Unconsumed(c)}
<1>1. prior \in Seens /\ "sending" \in Phases /\ "sendCode" \in Ops /\ Null \in Whats
  BY DEF Seens, Phases, Ops, Whats
<1>2. Take(q, "sending", "sendCode", Null, prior)
  BY DEF RequestLoginOtp
<1> HIDE DEF prior
<1> QED BY <1>1, <1>2, TakeMoves DEF RequestLoginOtp

LEMMA LoginWithOtpDoes ==
  ASSUME TypeOK, NEW q \in Requests, NEW c \in Codes, LoginWithOtp(q, c)
  PROVE  /\ request[q].at = "idle"
         /\ account.status = "ACTIVE"
         /\ \E at \in {"right", "wrong"} : Becomes(q, at, "code", c, {}, FALSE)
         /\ UNCHANGED <<stores, deaths>>
<1>1. PICK at \in {"right", "wrong"} : Take(q, at, "code", c, {})
  BY DEF LoginWithOtp
<1>2. at \in Phases /\ c \in Whats /\ "code" \in Ops /\ {} \in Seens
  BY DEF Phases, Whats, Proofs, Ops, Seens
<1> QED BY <1>1, <1>2, TakeMoves DEF LoginWithOtp

LEMMA LoginWithGoogleDoes ==
  ASSUME TypeOK, NEW q \in Requests, LoginWithGoogle(q)
  PROVE  /\ request[q].at = "idle"
         /\ \/ account.linked /\ account.status = "ACTIVE" /\ Becomes(q, "create", "google", Google, {}, FALSE)
            \/ Becomes(q, "makeUser", "google", Google, {}, FALSE)
            \/ Exists /\ Becomes(q, "claim", "google", Google, {}, FALSE)
            \/ account.status = "ACTIVE" /\ account.verified /\ Becomes(q, "link", "google", Google, {}, FALSE)
         /\ UNCHANGED <<stores, deaths>>
<1>1. Google \in Whats /\ "google" \in Ops /\ {} \in Seens
  BY DEF Whats, Proofs, Ops, Seens
<1>2. {"create", "makeUser", "claim", "link"} \subseteq Phases
  BY DEF Phases
<1>3. \A at \in {"create", "makeUser", "claim", "link"} :
        Take(q, at, "google", Google, {}) => request[q].at = "idle" /\ Becomes(q, at, "google", Google, {}, FALSE)
  BY <1>1, <1>2, TakeMoves
<1> QED BY <1>3 DEF LoginWithGoogle

LEMMA RegisterDoes ==
  ASSUME TypeOK, NEW q \in Requests, NEW p \in Passwords, Register(q, p)
  PROVE  /\ request[q].at = "idle"
         /\ Becomes(q, "register", "register", p, {}, FALSE)
         /\ UNCHANGED <<stores, deaths>>
BY TakeMoves DEF Register, stores, Phases, Ops, Whats, Seens, Proofs, At, TypeOK

LEMMA ResendVerificationDoes ==
  ASSUME TypeOK, NEW q \in Requests, ResendVerification(q)
  PROVE  /\ request[q].at = "idle"
         /\ account.status = "ACTIVE"
         /\ \E seen : Becomes(q, "sending", "sendVerify", Null, seen, FALSE)
         /\ UNCHANGED <<stores, deaths>>
<1> DEFINE prior == OpenLinks("verify")
<1>1. prior \in Seens /\ "sending" \in Phases /\ "sendVerify" \in Ops /\ Null \in Whats
  BY DEF Seens, Phases, Ops, Whats, OpenLinks
<1>2. Take(q, "sending", "sendVerify", Null, prior)
  BY DEF ResendVerification
<1> HIDE DEF prior
<1> QED BY <1>1, <1>2, TakeMoves DEF ResendVerification

LEMMA RequestPasswordResetDoes ==
  ASSUME TypeOK, NEW q \in Requests, RequestPasswordReset(q)
  PROVE  /\ request[q].at = "idle"
         /\ account.status = "ACTIVE"
         /\ \E seen : Becomes(q, "sending", "sendReset", Null, seen, FALSE)
         /\ UNCHANGED <<stores, deaths>>
<1> DEFINE prior == OpenLinks("reset")
<1>1. prior \in Seens /\ "sending" \in Phases /\ "sendReset" \in Ops /\ Null \in Whats
  BY DEF Seens, Phases, Ops, Whats, OpenLinks
<1>2. Take(q, "sending", "sendReset", Null, prior)
  BY DEF RequestPasswordReset
<1> HIDE DEF prior
<1> QED BY <1>1, <1>2, TakeMoves DEF RequestPasswordReset

LEMMA VerifyEmailDoes ==
  ASSUME TypeOK, NEW q \in Requests, NEW l \in Links, VerifyEmail(q, l)
  PROVE  /\ request[q].at = "idle"
         /\ links[l].state = "open"
         /\ Becomes(q, "verify", "verify", Null, {}, FALSE)
         /\ links' \in [Links -> LinkRows]
         /\ UNCHANGED <<account, sessions, codes, deaths>>
BY TakeMoves DEF VerifyEmail, stores, Phases, Ops, Whats, Seens, Proofs, At, TypeOK, LinkRows,
  ConsumeToken

LEMMA ResetPasswordDoes ==
  ASSUME TypeOK, NEW q \in Requests, NEW l \in Links, NEW p \in Passwords, ResetPassword(q, l, p)
  PROVE  /\ request[q].at = "idle"
         /\ links[l].state = "open"
         /\ Becomes(q, "hash", "reset", p, {}, FALSE)
         /\ links' \in [Links -> LinkRows]
         /\ UNCHANGED <<account, sessions, codes, deaths>>
BY TakeMoves DEF ResetPassword, stores, Phases, Ops, Whats, Seens, Proofs, At, TypeOK,
  LinkRows, ConsumeToken

LEMMA DeactivateDoes ==
  ASSUME TypeOK, NEW q \in Requests, Deactivate(q)
  PROVE  /\ request[q].at = "idle"
         /\ account.status = "ACTIVE"
         /\ RowIsFree
         /\ Becomes(q, "revoking", "deactivate", Null, Live, FALSE)
         /\ UNCHANGED <<stores, deaths>>
BY RevokingMoves DEF Deactivate, stores, Phases, Ops, Whats, Seens, Proofs, At, TypeOK,
  UserRowIsFree, RowIsFree, BeginRevoking

LEMMA CreateSessionDoes ==
  ASSUME TypeOK, NEW q \in Requests, CreateSession(q)
  PROVE  /\ request[q].at = "create"
         /\ sessions' \in [Sessions -> SessionRows]
         /\ \E s \in Sessions :
              /\ sessions[s].state = "free"
              /\ Becomes(q, "validate", request[q].op, request[q].what, {s}, request[q].late)
              /\ sessions'[s] = [state |-> "written", by |-> request[q].what, late |-> LateOf(q)]
              /\ \A t \in Sessions \ {s} : sessions'[t] = sessions[t]
         /\ UNCHANGED <<account, codes, links, deaths>>
<1>1. PICK s \in Sessions :
         /\ SpareSession(s)
         /\ sessions' = [sessions EXCEPT ![s] = [state |-> "written", by |-> request[q].what, late |-> LateOf(q)]]
         /\ request' = [request EXCEPT ![q].at = "validate", ![q].seen = {s}]
  BY DEF CreateSession, LateOf
<1>2. Becomes(q, "validate", request[q].op, request[q].what, {s}, request[q].late)
  BY <1>1, SeesMoves DEF Phases, Seens
<1>3. [state |-> "written", by |-> request[q].what, late |-> LateOf(q)] \in SessionRows
  BY DEF TypeOK, RequestRecords, SessionRows, LateOf
<1> QED BY <1>1, <1>2, <1>3 DEF TypeOK, CreateSession, At, SpareSession, Alive, SessionRows

LEMMA ValidateSessionDoes ==
  ASSUME TypeOK, NEW q \in Requests, ValidateSession(q)
  PROVE  /\ request[q].at = "validate" /\ RowIsFree
         /\ Answered(q)
         /\ sessions' \in [Sessions -> SessionRows]
         /\ \A s \in Sessions : \/ sessions'[s] = sessions[s]
                             \/ /\ account.status = "ACTIVE" /\ Alive(s) /\ sessions'[s].state = "held"
                                /\ sessions'[s].by = sessions[s].by /\ sessions'[s].late = sessions[s].late
         /\ UNCHANGED <<account, codes, links, deaths>>
<1>1. Answered(q)
  BY AnswerMoves DEF ValidateSession
<1>2. ASSUME NEW s \in Sessions
      PROVE  LET row == [sessions[s] EXCEPT !.state = "held"] IN
             /\ row \in SessionRows /\ row.state = "held"
             /\ row.by = sessions[s].by /\ row.late = sessions[s].late
  <2>1. sessions[s] \in SessionRows
    BY DEF TypeOK
  <2> QED BY <2>1 DEF SessionRows
<1>3. sessions' = [s \in Sessions |->
        IF s \in request[q].seen /\ Alive(s) /\ account.status = "ACTIVE"
        THEN [sessions[s] EXCEPT !.state = "held"] ELSE sessions[s]]
  BY DEF ValidateSession
<1>4. sessions' \in [Sessions -> SessionRows]
  BY <1>2, <1>3 DEF TypeOK
<1>5. \A s \in Sessions : sessions'[s] =
        IF s \in request[q].seen /\ Alive(s) /\ account.status = "ACTIVE"
        THEN [sessions[s] EXCEPT !.state = "held"] ELSE sessions[s]
  BY <1>3
<1> QED BY <1>1, <1>2, <1>4, <1>5 DEF ValidateSession, At, LastLoginWaits, UserRowIsFree, RowIsFree

Fresh == [Spent EXCEPT !.open = TRUE]
LEMMA CommitLoginOtpDoes ==
  ASSUME TypeOK, NEW q \in Requests, CommitLoginOtp(q)
  PROVE  /\ request[q].at = "sending"
         /\ Answered(q)
         /\ codes' \in [Codes -> CodeRows]
         /\ \E c \in Codes : /\ SpareCode(c) /\ codes'[c] = Fresh
                          /\ \A d \in Codes \ {c} : codes'[d] \in {codes[d], Spent}
         /\ UNCHANGED <<account, sessions, links, deaths>>
<1>1. Answered(q)
  BY AnswerMoves DEF CommitLoginOtp
<1>2. PICK c \in Codes :
        /\ SpareCode(c)
        /\ codes' = [d \in Codes |-> IF d = c THEN Fresh
                                     ELSE IF d \in request[q].seen THEN Spent ELSE codes[d]]
  BY DEF CommitLoginOtp, Fresh
<1>3. Spent \in CodeRows /\ Fresh \in CodeRows
  BY DEF Spent, CodeRows, Fresh
<1>4. codes' \in [Codes -> CodeRows]
  BY <1>2, <1>3 DEF TypeOK
<1>5. codes'[c] = Fresh /\ \A d \in Codes \ {c} : codes'[d] \in {codes[d], Spent}
  BY <1>2
<1> QED BY <1>1, <1>2, <1>4, <1>5 DEF CommitLoginOtp, At

LEMMA WrongCodeDoes ==
  ASSUME TypeOK, Staged, NEW q \in Requests, WrongCode(q)
  PROVE  /\ request[q].at = "wrong"
         /\ codes' \in [Codes -> CodeRows]
         /\ \A c \in Codes : /\ codes'[c].open = codes[c].open /\ codes'[c].left = codes[c].left
                             /\ c # request[q].what => codes'[c] = codes[c]
         /\ \/ Answered(q) /\ (Unconsumed(request[q].what) => codes'[request[q].what].attempts < MaxAttempts)
            \/ Becomes(q, "over", request[q].op, request[q].what, request[q].seen, request[q].late)
         /\ UNCHANGED <<account, sessions, links, deaths>>
<1> DEFINE c == request[q].what
           n == codes[c].attempts + 1
<1>1. /\ request[q].at = "wrong" /\ UNCHANGED <<account, sessions, links, deaths>>
      /\ \/ Unconsumed(c) /\ codes' = [codes EXCEPT ![c].attempts = n]
              /\ \/ ClosesAfter(n) /\ Go(q, "over")
                 \/ ~ClosesAfter(n) /\ Answer(q)
         \/ ~Unconsumed(c) /\ Answer(q) /\ UNCHANGED codes
  BY DEF WrongCode, At
<1>2. CASE ~Unconsumed(c) /\ Answer(q) /\ UNCHANGED codes
  BY <1>1, <1>2, AnswerMoves DEF TypeOK
<1>3. CASE Unconsumed(c) /\ codes' = [codes EXCEPT ![c].attempts = n]
              /\ \/ ClosesAfter(n) /\ Go(q, "over")
                 \/ ~ClosesAfter(n) /\ Answer(q)
  <2>1. c \in Codes /\ codes[c] \in CodeRows
    BY DEF TypeOK, Staged, Stands, WrongCode, At
  <2>2. LET row == [codes[c] EXCEPT !.attempts = n] IN
        /\ row \in CodeRows /\ row.open = codes[c].open /\ row.left = codes[c].left
        /\ row.attempts = n /\ n \in Nat
    BY <2>1 DEF CodeRows
  <2>3. codes'[c] = [codes[c] EXCEPT !.attempts = n] /\ \A d \in Codes : d # c => codes'[d] = codes[d]
    BY <1>3, <2>1 DEF TypeOK
  <2>4. codes' \in [Codes -> CodeRows]
    BY <1>3, <2>1, <2>2 DEF TypeOK
  <2>5. ~ClosesAfter(n) => n < MaxAttempts
    BY <2>2, Bounds DEF ClosesAfter
  <2>6. "over" \in Phases
    BY DEF Phases
  <2>7. \/ Answered(q) /\ codes'[c].attempts < MaxAttempts
        \/ Becomes(q, "over", request[q].op, request[q].what, request[q].seen, request[q].late)
    BY <1>3, <2>2, <2>3, <2>5, <2>6, AnswerMoves, GoMoves
  <2> QED BY <1>1, <2>2, <2>3, <2>4, <2>7
<1> QED BY <1>1, <1>2, <1>3

LEMMA TooManyTriesDoes ==
  ASSUME TypeOK, Staged, NEW q \in Requests, TooManyTries(q)
  PROVE  /\ request[q].at = "over"
         /\ Answered(q)
         /\ codes' \in [Codes -> CodeRows]
         /\ codes'[request[q].what] = Spent
         /\ \A c \in Codes : c # request[q].what => codes'[c] = codes[c]
         /\ UNCHANGED <<account, sessions, links, deaths>>
<1>1. Answered(q)
  BY AnswerMoves DEF TooManyTries
<1>2. request[q].what \in Codes /\ Spent \in CodeRows
  BY DEF TypeOK, Staged, Stands, TooManyTries, At, Spent, CodeRows
<1>3. codes' = [codes EXCEPT ![request[q].what] = Spent]
  BY DEF TooManyTries
<1> QED BY <1>1, <1>2, <1>3 DEF TooManyTries, At, TypeOK

LEMMA RightCodeDoes ==
  ASSUME TypeOK, Staged, NEW q \in Requests, RightCode(q)
  PROVE  /\ request[q].at = "right"
         /\ codes' \in [Codes -> CodeRows]
         /\ \A c \in Codes : c # request[q].what => codes'[c] = codes[c]
         /\ \/ /\ Unconsumed(request[q].what) /\ codes'[request[q].what] = Spent
               /\ Becomes(q, "mark", request[q].op, request[q].what, request[q].seen, request[q].late)
            \/ Answered(q) /\ UNCHANGED codes
         /\ UNCHANGED <<account, sessions, links, deaths>>
<1>1. request[q].what \in Codes /\ Spent \in CodeRows /\ "mark" \in Phases
  BY DEF Phases, TypeOK, Staged, Stands, RightCode, At, Spent, CodeRows
<1>2. CASE WinsRow(request[q].what)
  <2>1. codes' = [codes EXCEPT ![request[q].what] = Spent]
    BY <1>2 DEF RightCode
  <2>2. Becomes(q, "mark", request[q].op, request[q].what, request[q].seen, request[q].late)
    BY <1>1, <1>2, GoMoves DEF RightCode
  <2> QED BY <1>1, <1>2, <2>1, <2>2 DEF RightCode, At, TypeOK, WinsRow
<1>3. CASE ~WinsRow(request[q].what)
  BY <1>3, AnswerMoves DEF RightCode, At, TypeOK
<1> QED BY <1>2, <1>3

LEMMA MarkVerifiedDoes ==
  ASSUME TypeOK, NEW q \in Requests, MarkVerified(q)
  PROVE  /\ request[q].at = "mark"
         /\ Verifies
         /\ Becomes(q, "create", request[q].op, request[q].what, request[q].seen, request[q].late)
         /\ UNCHANGED <<sessions, codes, links, deaths>>
BY AnswerMoves, GoMoves DEF MarkVerified, stores, Phases, Ops, Whats, Seens, Proofs, At,
  TypeOK, Accounts, Verified, Verifies

LEMMA MakeUserDoes ==
  ASSUME TypeOK, NEW q \in Requests, MakeUser(q)
  PROVE  /\ request[q].at = "makeUser"
         /\ \/ Answered(q) /\ UNCHANGED account
            \/ /\ ~Exists /\ Becomes(q, "link", request[q].op, request[q].what, request[q].seen, request[q].late)
               /\ account' = [status |-> "ACTIVE", password |-> Null, verified |-> TRUE, linked |-> FALSE]
         /\ UNCHANGED <<sessions, codes, links, deaths>>
BY AnswerMoves, GoMoves DEF MakeUser, stores, Phases, Ops, Whats, Seens, Proofs, At, TypeOK,
  Exists

LEMMA RevokeForClaimDoes ==
  ASSUME TypeOK, NEW q \in Requests, RevokeForClaim(q)
  PROVE  /\ request[q].at = "claim"
         /\ Becomes(q, "claiming", request[q].op, request[q].what, Live, request[q].late)
         /\ UNCHANGED <<stores, deaths>>
<1>1. "claiming" \in Phases /\ Live \in Seens
  BY DEF Phases, Live, Seens
<1> QED BY <1>1, SeesMoves DEF RevokeForClaim, At

LEMMA CommitClaimDoes ==
  ASSUME TypeOK, NEW q \in Requests, CommitClaim(q)
  PROVE  /\ request[q].at = "claiming" /\ RowIsFree
         /\ request' \in [Requests -> RequestRecords] /\ Overtaken(q)
         /\ \/ /\ request'[q].op = request[q].op /\ request'[q].what = request[q].what
               /\ request'[q].at = "link" /\ request'[q].seen = {} /\ request'[q].late = request[q].late
            \/ IsIdle(request'[q])
         /\ account' \in Accounts /\ account'.password = Null /\ account'.verified
         /\ account'.status = account.status /\ account'.linked = account.linked
         /\ RevokedBy(q, request[q].op)
         /\ UNCHANGED <<codes, links, deaths>>
<1> DEFINE linking == [request[q] EXCEPT !.at = "link", !.seen = {}]
<1>1. request' = [r \in Requests |->
       IF r # q THEN Overtake(request[r]) ELSE IF account.status = "ACTIVE" THEN linking ELSE Idle]
  BY DEF CommitClaim
<1>2. IsIdle(Idle)
  BY DEF Idle, Asked, IsIdle
<1>3. request[q] \in RequestRecords
  BY DEF TypeOK
<1>4. /\ linking \in RequestRecords /\ linking.at = "link" /\ linking.seen = {}
      /\ linking.op = request[q].op /\ linking.what = request[q].what /\ linking.late = request[q].late
  BY <1>3 DEF RequestRecords, Phases
<1> HIDE DEF linking
<1>5. \A r \in Requests :
        request'[r] = IF r # q THEN Overtake(request[r]) ELSE IF account.status = "ACTIVE" THEN linking ELSE Idle
  BY <1>1
<1>6. Overtaken(q)
  BY <1>5, OvertakeMoves DEF Overtaken
<1>7. request' \in [Requests -> RequestRecords]
  BY <1>1, <1>4, IdleType, OvertakeMoves
<1>8. request'[q] = linking \/ request'[q] = Idle
  BY <1>5
<1>9. RevokedBy(q, request[q].op)
  BY <1>3, RevokeMoves DEF CommitClaim, RequestRecords
<1>10. /\ account' \in Accounts /\ account'.password = Null /\ account'.verified
       /\ account'.status = account.status /\ account'.linked = account.linked
       /\ request[q].at = "claiming" /\ RowIsFree /\ UNCHANGED <<codes, links, deaths>>
  BY DEF CommitClaim, At, UserRowIsFree, RowIsFree, TypeOK, Accounts
<1> QED BY <1>2, <1>4, <1>6, <1>7, <1>8, <1>9, <1>10

LEMMA LinkGoogleDoes ==
  ASSUME TypeOK, NEW q \in Requests, LinkGoogle(q)
  PROVE  /\ request[q].at = "link"
         /\ Becomes(q, "create", request[q].op, request[q].what, request[q].seen, request[q].late)
         /\ account' \in Accounts /\ account'.linked
         /\ account'.status = account.status /\ account'.password = account.password /\ account'.verified = account.verified
         /\ UNCHANGED <<sessions, codes, links, deaths>>
BY AnswerMoves, GoMoves DEF LinkGoogle, stores, Phases, Ops, Whats, Seens, Proofs, At, TypeOK,
  Accounts

LEMMA CreateAccountDoes ==
  ASSUME TypeOK, NEW q \in Requests, CreateAccount(q)
  PROVE  /\ request[q].at = "register"
         /\ Answered(q)
         /\ links' \in [Links -> LinkRows]
         /\ (Exists /\ UNCHANGED <<account, links>>) \/ (~Exists /\ account' = [status |-> "ACTIVE", password |-> request[q].what, verified |-> FALSE, linked |-> FALSE])
         /\ \A l \in Links : links'[l].state = "used" => links[l].state = "used"
         /\ UNCHANGED <<sessions, codes, deaths>>
BY AnswerMoves DEF CreateAccount, stores, Phases, Ops, Whats, Seens, Proofs, At, TypeOK,
  LinkRows, Issued, Void, Exists

LEMMA CommitTokenDoes ==
  ASSUME TypeOK, NEW q \in Requests, CommitToken(q)
  PROVE  /\ request[q].at = "sending"
         /\ Answered(q)
         /\ links' \in [Links -> LinkRows]
         /\ \A l \in Links : links'[l].state = "used" => links[l].state = "used"
         /\ UNCHANGED <<account, sessions, codes, deaths>>
BY AnswerMoves DEF CommitToken, stores, Phases, Ops, Whats, Seens, Proofs, At, TypeOK,
  LinkRows, Issued, Void, PurposeOf

LEMMA SetVerifiedDoes ==
  ASSUME TypeOK, NEW q \in Requests, SetVerified(q)
  PROVE  /\ request[q].at = "verify"
         /\ Answered(q)
         /\ Verifies
         /\ UNCHANGED <<sessions, codes, links, deaths>>
BY AnswerMoves DEF SetVerified, stores, Phases, Ops, Whats, Seens, Proofs, At, TypeOK,
  Accounts, Verified, Verifies

LEMMA WritePasswordDoes ==
  ASSUME TypeOK, NEW q \in Requests, WritePassword(q)
  PROVE  /\ request[q].at = "hash" /\ RowIsFree
         /\ Becomes(q, "revoking", "reset", request[q].what, Live, FALSE)
         /\ UNCHANGED <<stores, deaths>>
<1>1. request[q].what \in Whats
  BY DEF TypeOK, RequestRecords, Whats
<1> QED BY RevokingMoves, <1>1 DEF WritePassword, Ops, BeginRevoking, UserRowIsFree, RowIsFree, At

LEMMA CommitResetDoes ==
  ASSUME TypeOK, Staged, NEW q \in Requests, CommitReset(q)
  PROVE  /\ request[q].at = "revoking" /\ request[q].op = "reset"
         /\ request' \in [Requests -> RequestRecords] /\ Overtaken(q) /\ IsIdle(request'[q])
         /\ account' \in Accounts /\ account'.password = request[q].what /\ account'.verified
         /\ account'.status = account.status /\ account'.linked = account.linked
         /\ RevokedBy(q, request[q].op)
         /\ UNCHANGED <<codes, links, deaths>>
<1>1. request' = [r \in Requests |-> IF r = q THEN Idle ELSE Overtake(request[r])]
  BY DEF CommitReset
<1>2. IsIdle(Idle)
  BY DEF Idle, Asked, IsIdle
<1>3. \A r \in Requests : request'[r] = IF r = q THEN Idle ELSE Overtake(request[r])
  BY <1>1
<1>4. Overtaken(q) /\ IsIdle(request'[q])
  BY <1>2, <1>3, OvertakeMoves DEF Overtaken
<1>5. request' \in [Requests -> RequestRecords]
  BY <1>1, IdleType, OvertakeMoves
<1>6. RevokedBy(q, request[q].op)
  BY RevokeMoves DEF CommitReset, Ops
<1>7. request[q].what \in Passwords
  BY DEF CommitReset, At, Staged, Stands
<1> QED BY <1>4, <1>5, <1>6, <1>7 DEF CommitReset, At, TypeOK, Accounts

LEMMA CommitDeactivateDoes ==
  ASSUME TypeOK, NEW q \in Requests, CommitDeactivate(q)
  PROVE  /\ request[q].at = "revoking" /\ request[q].op = "deactivate"
         /\ Answered(q)
         /\ account' \in Accounts /\ account'.status = "DISABLED"
         /\ account'.password = account.password /\ account'.verified = account.verified /\ account'.linked = account.linked
         /\ RevokedBy(q, "deactivate")
         /\ UNCHANGED <<codes, links, deaths>>
<1>1. RevokedBy(q, "deactivate")
  BY RevokeMoves DEF CommitDeactivate, Ops
<1>2. Answered(q)
  BY AnswerMoves DEF CommitDeactivate
<1> QED BY <1>1, <1>2 DEF CommitDeactivate, At, TypeOK, Accounts

LEMMA DieDoes ==
  ASSUME TypeOK, Staged, NEW q \in Requests, Die(q)
  PROVE  /\ request[q].at # "idle"
         /\ Answered(q)
         /\ deaths' \in 1..MaxDeaths
         /\ codes' \in [Codes -> CodeRows]
         /\ \A c \in Codes : /\ codes'[c].open = codes[c].open /\ codes'[c].attempts = codes[c].attempts
                             /\ codes[c].open /\ codes[c].left => codes'[c].left
                             /\ request[q].at = "over" /\ request[q].what = c => codes'[c].left = codes[c].open
         /\ UNCHANGED <<account, sessions, links>>
<1>1. /\ request[q].at # "idle" /\ Answered(q) /\ deaths' \in 1..MaxDeaths
      /\ UNCHANGED <<account, sessions, links>>
  BY AnswerMoves, Bounds DEF Die, At, TypeOK
<1>2. CASE request[q].at = "over"
  <2> DEFINE d == request[q].what
             row == [codes[d] EXCEPT !.left = codes[d].open]
  <2>1. d \in Codes /\ codes[d] \in CodeRows
    BY <1>2 DEF TypeOK, Staged, Stands
  <2>2. /\ row \in CodeRows /\ row.open = codes[d].open /\ row.attempts = codes[d].attempts
        /\ row.left = codes[d].open
    BY <2>1 DEF CodeRows
  <2>3. codes' = [codes EXCEPT ![d] = row]
    BY <1>2, <2>1 DEF Die, At, LeftOpen, Unconsumed, TypeOK
  <2> HIDE DEF row
  <2>4. codes' \in [Codes -> CodeRows] /\ codes'[d] = row /\ \A c \in Codes : c # d => codes'[c] = codes[c]
    BY <2>1, <2>2, <2>3 DEF TypeOK
  <2> QED BY <1>1, <2>2, <2>4
<1>3. CASE request[q].at # "over"
  BY <1>1, <1>3 DEF Die, At, TypeOK
<1> QED BY <1>2, <1>3

LEMMA LogoutDoes ==
  ASSUME TypeOK, NEW s \in Sessions, Logout(s)
  PROVE  /\ sessions' \in [Sessions -> SessionRows]
         /\ sessions'[s] = NoSession /\ \A t \in Sessions \ {s} : sessions'[t] = sessions[t]
         /\ UNCHANGED <<account, codes, links, request, deaths>>
BY DEF Logout, stores, Phases, Ops, Whats, Seens, Proofs, At, TypeOK, SessionRows,
  RevokeSession, NoSession

LEMMA SessionExpiresDoes ==
  ASSUME TypeOK, NEW s \in Sessions, SessionExpires(s)
  PROVE  /\ sessions' \in [Sessions -> SessionRows]
         /\ sessions'[s] = NoSession /\ \A t \in Sessions \ {s} : sessions'[t] = sessions[t]
         /\ UNCHANGED <<account, codes, links, request, deaths>>
BY DEF SessionExpires, stores, Phases, Ops, Whats, Seens, Proofs, At, TypeOK, SessionRows,
  RevokeSession, NoSession

LEMMA CodeExpiresDoes ==
  ASSUME TypeOK, NEW c \in Codes, CodeExpires(c)
  PROVE  /\ codes' \in [Codes -> CodeRows]
         /\ codes'[c] = Spent /\ \A d \in Codes \ {c} : codes'[d] = codes[d]
         /\ UNCHANGED <<account, sessions, links, request, deaths>>
BY DEF CodeExpires, stores, Phases, Ops, Whats, Seens, Proofs, At, TypeOK, CodeRows, Spent

LEMMA LinkExpiresDoes ==
  ASSUME TypeOK, NEW l \in Links, LinkExpires(l)
  PROVE  /\ links[l].state = "open"
         /\ links' \in [Links -> LinkRows]
         /\ \A k \in Links : links'[k].state = "used" => links[k].state = "used"
         /\ UNCHANGED <<account, sessions, codes, request, deaths>>
BY DEF LinkExpires, stores, Phases, Ops, Whats, Seens, Proofs, At, TypeOK, LinkRows, Void

LEMMA ActivateDoes ==
  ASSUME TypeOK, Activate
  PROVE  /\ account.status = "DISABLED" /\ RowIsFree
         /\ account' \in Accounts /\ account'.status = "ACTIVE"
         /\ account'.password = account.password /\ account'.verified = account.verified /\ account'.linked = account.linked
         /\ UNCHANGED <<sessions, codes, links, request, deaths>>
BY DEF Activate, stores, Phases, Ops, Whats, Seens, Proofs, At, TypeOK, Accounts,
  UserRowIsFree, RowIsFree

-----------------------------------------------------------------------------
(* What is kept of the requests under way. *)
LEMMA StagedBecomes ==
  ASSUME Staged, NEW q \in Requests, NEW at, NEW op, NEW what, NEW seen, NEW late,
         Becomes(q, at, op, what, seen, late), Stands(at, op, what)
  PROVE  Staged'
BY DEF Staged, Becomes, Others

LEMMA StagedAnswered ==
  ASSUME Staged, NEW q \in Requests, Answered(q)
  PROVE  Staged'
BY DEF Staged, Answered, Others, IsIdle, Stands

LEMMA StagedOvertaken ==
  ASSUME Staged, NEW q \in Requests, Overtaken(q), Stands(request'[q].at, request'[q].op, request'[q].what)
  PROVE  Staged'
BY DEF Staged, Overtaken

LEMMA TypeNext ==
  ASSUME IInv, [Next]_vars
  PROVE  TypeOK'
<1>0. TypeOK /\ Staged
  BY DEF IInv
<1>1. ASSUME NEW q \in Requests, NEW p \in Passwords, Login(q, p)
      PROVE  TypeOK'
  BY <1>0, <1>1, LoginDoes DEF stores, Becomes, TypeOK
<1>2. ASSUME NEW q \in Requests, RequestLoginOtp(q)
      PROVE  TypeOK'
  BY <1>0, <1>2, RequestLoginOtpDoes DEF stores, Becomes, TypeOK
<1>3. ASSUME NEW q \in Requests, NEW c \in Codes, LoginWithOtp(q, c)
      PROVE  TypeOK'
  BY <1>0, <1>3, LoginWithOtpDoes DEF stores, Becomes, TypeOK
<1>4. ASSUME NEW q \in Requests, LoginWithGoogle(q)
      PROVE  TypeOK'
  BY <1>0, <1>4, LoginWithGoogleDoes DEF stores, Becomes, TypeOK
<1>5. ASSUME NEW q \in Requests, NEW p \in Passwords, Register(q, p)
      PROVE  TypeOK'
  BY <1>0, <1>5, RegisterDoes DEF stores, Becomes, TypeOK
<1>6. ASSUME NEW q \in Requests, ResendVerification(q)
      PROVE  TypeOK'
  BY <1>0, <1>6, ResendVerificationDoes DEF stores, Becomes, TypeOK
<1>7. ASSUME NEW q \in Requests, RequestPasswordReset(q)
      PROVE  TypeOK'
  BY <1>0, <1>7, RequestPasswordResetDoes DEF stores, Becomes, TypeOK
<1>8. ASSUME NEW q \in Requests, NEW l \in Links, VerifyEmail(q, l)
      PROVE  TypeOK'
  BY <1>0, <1>8, VerifyEmailDoes DEF Becomes, TypeOK
<1>9. ASSUME NEW q \in Requests, NEW l \in Links, NEW p \in Passwords, ResetPassword(q, l, p)
      PROVE  TypeOK'
  BY <1>0, <1>9, ResetPasswordDoes DEF Becomes, TypeOK
<1>10. ASSUME NEW q \in Requests, Deactivate(q)
      PROVE  TypeOK'
  BY <1>0, <1>10, DeactivateDoes DEF stores, Becomes, TypeOK
<1>11. ASSUME NEW q \in Requests, CreateSession(q)
      PROVE  TypeOK'
  BY <1>0, <1>11, CreateSessionDoes DEF Becomes, TypeOK
<1>12. ASSUME NEW q \in Requests, ValidateSession(q)
      PROVE  TypeOK'
  BY <1>0, <1>12, ValidateSessionDoes DEF Answered, TypeOK
<1>13. ASSUME NEW q \in Requests, CommitLoginOtp(q)
      PROVE  TypeOK'
  BY <1>0, <1>13, CommitLoginOtpDoes DEF Answered, TypeOK
<1>14. ASSUME NEW q \in Requests, WrongCode(q)
      PROVE  TypeOK'
  BY <1>0, <1>14, WrongCodeDoes DEF Becomes, Answered, TypeOK
<1>15. ASSUME NEW q \in Requests, TooManyTries(q)
      PROVE  TypeOK'
  BY <1>0, <1>15, TooManyTriesDoes DEF Answered, TypeOK
<1>16. ASSUME NEW q \in Requests, RightCode(q)
      PROVE  TypeOK'
  BY <1>0, <1>16, RightCodeDoes DEF Becomes, Answered, TypeOK
<1>17. ASSUME NEW q \in Requests, MarkVerified(q)
      PROVE  TypeOK'
  BY <1>0, <1>17, MarkVerifiedDoes DEF Becomes, Verifies, TypeOK
<1>18. ASSUME NEW q \in Requests, MakeUser(q)
      PROVE  TypeOK'
  <2>1. [status |-> "ACTIVE", password |-> Null, verified |-> TRUE, linked |-> FALSE] \in Accounts
    BY DEF Accounts
  <2> QED BY <1>0, <1>18, <2>1, MakeUserDoes DEF Becomes, Answered, TypeOK
<1>19. ASSUME NEW q \in Requests, RevokeForClaim(q)
      PROVE  TypeOK'
  BY <1>0, <1>19, RevokeForClaimDoes DEF stores, Becomes, TypeOK
<1>20. ASSUME NEW q \in Requests, CommitClaim(q)
      PROVE  TypeOK'
  BY <1>0, <1>20, CommitClaimDoes DEF RevokedBy, Overtaken, TypeOK
<1>21. ASSUME NEW q \in Requests, LinkGoogle(q)
      PROVE  TypeOK'
  BY <1>0, <1>21, LinkGoogleDoes DEF Becomes, TypeOK
<1>22. ASSUME NEW q \in Requests, CreateAccount(q)
      PROVE  TypeOK'
  <2>1. request[q].what \in Passwords
    BY <1>0, <1>22, CreateAccountDoes DEF Staged, Stands
  <2>2. [status |-> "ACTIVE", password |-> request[q].what, verified |-> FALSE, linked |-> FALSE] \in Accounts
    BY <2>1 DEF Accounts
  <2> QED BY <1>0, <1>22, <2>2, CreateAccountDoes DEF Answered, TypeOK
<1>23. ASSUME NEW q \in Requests, CommitToken(q)
      PROVE  TypeOK'
  BY <1>0, <1>23, CommitTokenDoes DEF Answered, TypeOK
<1>24. ASSUME NEW q \in Requests, SetVerified(q)
      PROVE  TypeOK'
  BY <1>0, <1>24, SetVerifiedDoes DEF Answered, Verifies, TypeOK
<1>25. ASSUME NEW q \in Requests, WritePassword(q)
      PROVE  TypeOK'
  BY <1>0, <1>25, WritePasswordDoes DEF stores, Becomes, TypeOK
<1>26. ASSUME NEW q \in Requests, CommitReset(q)
      PROVE  TypeOK'
  BY <1>0, <1>26, CommitResetDoes DEF RevokedBy, Overtaken, TypeOK
<1>27. ASSUME NEW q \in Requests, CommitDeactivate(q)
      PROVE  TypeOK'
  BY <1>0, <1>27, CommitDeactivateDoes DEF Answered, RevokedBy, TypeOK
<1>28. ASSUME NEW q \in Requests, Die(q)
      PROVE  TypeOK'
  BY <1>0, <1>28, DieDoes DEF stores, Answered, TypeOK
<1>29. ASSUME NEW s \in Sessions, Logout(s)
      PROVE  TypeOK'
  BY <1>0, <1>29, LogoutDoes DEF TypeOK
<1>30. ASSUME NEW s \in Sessions, SessionExpires(s)
      PROVE  TypeOK'
  BY <1>0, <1>30, SessionExpiresDoes DEF TypeOK
<1>31. ASSUME NEW c \in Codes, CodeExpires(c)
      PROVE  TypeOK'
  BY <1>0, <1>31, CodeExpiresDoes DEF TypeOK
<1>32. ASSUME NEW l \in Links, LinkExpires(l)
      PROVE  TypeOK'
  BY <1>0, <1>32, LinkExpiresDoes DEF TypeOK
<1>33. ASSUME Activate
      PROVE  TypeOK'
  BY <1>0, <1>33, ActivateDoes DEF TypeOK
<1>34. ASSUME UNCHANGED vars
      PROVE  TypeOK'
  BY <1>0, <1>34 DEF vars, TypeOK
<1> QED
  BY <1>1, <1>2, <1>3, <1>4, <1>5, <1>6, <1>7, <1>8, <1>9, <1>10, <1>11, <1>12, <1>13, <1>14,
    <1>15, <1>16, <1>17, <1>18, <1>19, <1>20, <1>21, <1>22, <1>23, <1>24, <1>25, <1>26, <1>27,
    <1>28, <1>29, <1>30, <1>31, <1>32, <1>33, <1>34
     DEF Start, EmailStep, PasswordStep, OtpStep, CreateAccountForm, VerifyEmailPanel, ResendVerificationButton,
          ForgotPasswordForm, ResetPasswordForm, Step, Next

LEMMA StagedNext ==
  ASSUME IInv, [Next]_vars
  PROVE  Staged'
<1>0. TypeOK /\ Staged
  BY DEF IInv
<1>1. ASSUME NEW q \in Requests, NEW p \in Passwords, Login(q, p)
      PROVE  Staged'
  BY <1>0, <1>1, LoginDoes, StagedBecomes DEF Stands
<1>2. ASSUME NEW q \in Requests, RequestLoginOtp(q)
      PROVE  Staged'
  BY <1>0, <1>2, RequestLoginOtpDoes, StagedBecomes DEF Stands
<1>3. ASSUME NEW q \in Requests, NEW c \in Codes, LoginWithOtp(q, c)
      PROVE  Staged'
  BY <1>0, <1>3, LoginWithOtpDoes, StagedBecomes DEF Stands
<1>4. ASSUME NEW q \in Requests, LoginWithGoogle(q)
      PROVE  Staged'
  BY <1>0, <1>4, LoginWithGoogleDoes, StagedBecomes DEF Stands
<1>5. ASSUME NEW q \in Requests, NEW p \in Passwords, Register(q, p)
      PROVE  Staged'
  BY <1>0, <1>5, RegisterDoes, StagedBecomes DEF Stands
<1>6. ASSUME NEW q \in Requests, ResendVerification(q)
      PROVE  Staged'
  BY <1>0, <1>6, ResendVerificationDoes, StagedBecomes DEF Stands
<1>7. ASSUME NEW q \in Requests, RequestPasswordReset(q)
      PROVE  Staged'
  BY <1>0, <1>7, RequestPasswordResetDoes, StagedBecomes DEF Stands
<1>8. ASSUME NEW q \in Requests, NEW l \in Links, VerifyEmail(q, l)
      PROVE  Staged'
  BY <1>0, <1>8, VerifyEmailDoes, StagedBecomes DEF Stands
<1>9. ASSUME NEW q \in Requests, NEW l \in Links, NEW p \in Passwords, ResetPassword(q, l, p)
      PROVE  Staged'
  BY <1>0, <1>9, ResetPasswordDoes, StagedBecomes DEF Stands
<1>10. ASSUME NEW q \in Requests, Deactivate(q)
      PROVE  Staged'
  BY <1>0, <1>10, DeactivateDoes, StagedBecomes DEF Stands
<1>11. ASSUME NEW q \in Requests, CreateSession(q)
      PROVE  Staged'
  BY <1>0, <1>11, CreateSessionDoes, StagedBecomes DEF Stands, Staged
<1>12. ASSUME NEW q \in Requests, ValidateSession(q)
      PROVE  Staged'
  BY <1>0, <1>12, ValidateSessionDoes, StagedAnswered DEF Stands
<1>13. ASSUME NEW q \in Requests, CommitLoginOtp(q)
      PROVE  Staged'
  BY <1>0, <1>13, CommitLoginOtpDoes, StagedAnswered DEF Stands
<1>14. ASSUME NEW q \in Requests, WrongCode(q)
      PROVE  Staged'
  BY <1>0, <1>14, WrongCodeDoes, StagedBecomes, StagedAnswered DEF Stands, Staged
<1>15. ASSUME NEW q \in Requests, TooManyTries(q)
      PROVE  Staged'
  BY <1>0, <1>15, TooManyTriesDoes, StagedAnswered DEF Stands, Staged
<1>16. ASSUME NEW q \in Requests, RightCode(q)
      PROVE  Staged'
  BY <1>0, <1>16, RightCodeDoes, StagedBecomes, StagedAnswered DEF Stands, Staged
<1>17. ASSUME NEW q \in Requests, MarkVerified(q)
      PROVE  Staged'
  BY <1>0, <1>17, MarkVerifiedDoes, StagedBecomes DEF Stands, Staged
<1>18. ASSUME NEW q \in Requests, MakeUser(q)
      PROVE  Staged'
  BY <1>0, <1>18, MakeUserDoes, StagedBecomes, StagedAnswered DEF Stands, Staged
<1>19. ASSUME NEW q \in Requests, RevokeForClaim(q)
      PROVE  Staged'
  BY <1>0, <1>19, RevokeForClaimDoes, StagedBecomes DEF Stands, Staged
<1>20. ASSUME NEW q \in Requests, CommitClaim(q)
      PROVE  Staged'
  BY <1>0, <1>20, CommitClaimDoes, StagedOvertaken DEF Stands, Staged, IsIdle
<1>21. ASSUME NEW q \in Requests, LinkGoogle(q)
      PROVE  Staged'
  BY <1>0, <1>21, LinkGoogleDoes, StagedBecomes DEF Stands, Staged
<1>22. ASSUME NEW q \in Requests, CreateAccount(q)
      PROVE  Staged'
  BY <1>0, <1>22, CreateAccountDoes, StagedAnswered DEF Stands, Staged
<1>23. ASSUME NEW q \in Requests, CommitToken(q)
      PROVE  Staged'
  BY <1>0, <1>23, CommitTokenDoes, StagedAnswered DEF Stands
<1>24. ASSUME NEW q \in Requests, SetVerified(q)
      PROVE  Staged'
  BY <1>0, <1>24, SetVerifiedDoes, StagedAnswered DEF Stands
<1>25. ASSUME NEW q \in Requests, WritePassword(q)
      PROVE  Staged'
  BY <1>0, <1>25, WritePasswordDoes, StagedBecomes DEF Stands, Staged
<1>26. ASSUME NEW q \in Requests, CommitReset(q)
      PROVE  Staged'
  BY <1>0, <1>26, CommitResetDoes, StagedOvertaken DEF Stands, Staged, IsIdle
<1>27. ASSUME NEW q \in Requests, CommitDeactivate(q)
      PROVE  Staged'
  BY <1>0, <1>27, CommitDeactivateDoes, StagedAnswered DEF Stands
<1>28. ASSUME NEW q \in Requests, Die(q)
      PROVE  Staged'
  BY <1>0, <1>28, DieDoes, StagedAnswered DEF Stands
<1>29. ASSUME NEW s \in Sessions, Logout(s)
      PROVE  Staged'
  BY <1>0, <1>29, LogoutDoes DEF Staged
<1>30. ASSUME NEW s \in Sessions, SessionExpires(s)
      PROVE  Staged'
  BY <1>0, <1>30, SessionExpiresDoes DEF Staged
<1>31. ASSUME NEW c \in Codes, CodeExpires(c)
      PROVE  Staged'
  BY <1>0, <1>31, CodeExpiresDoes DEF Staged
<1>32. ASSUME NEW l \in Links, LinkExpires(l)
      PROVE  Staged'
  BY <1>0, <1>32, LinkExpiresDoes DEF Staged
<1>33. ASSUME Activate
      PROVE  Staged'
  BY <1>0, <1>33, ActivateDoes DEF Staged
<1>34. ASSUME UNCHANGED vars
      PROVE  Staged'
  BY <1>0, <1>34 DEF vars, Staged
<1> QED
  BY <1>1, <1>2, <1>3, <1>4, <1>5, <1>6, <1>7, <1>8, <1>9, <1>10, <1>11, <1>12, <1>13, <1>14,
    <1>15, <1>16, <1>17, <1>18, <1>19, <1>20, <1>21, <1>22, <1>23, <1>24, <1>25, <1>26, <1>27,
    <1>28, <1>29, <1>30, <1>31, <1>32, <1>33, <1>34
     DEF Start, EmailStep, PasswordStep, OtpStep, CreateAccountForm, VerifyEmailPanel, ResendVerificationButton,
          ForgotPasswordForm, ResetPasswordForm, Step, Next

-----------------------------------------------------------------------------
(* Before there is an account. *)
LEMMA NothingBeforeNext ==
  ASSUME IInv, [Next]_vars
  PROVE  NothingBefore'
<1>0. TypeOK /\ Staged /\ NothingBefore
  BY DEF IInv
<1>1. ASSUME NEW q \in Requests, NEW p \in Passwords, Login(q, p)
      PROVE  NothingBefore'
  BY <1>0, <1>1, LoginDoes DEF NothingBefore, Exists, stores
<1>2. ASSUME NEW q \in Requests, RequestLoginOtp(q)
      PROVE  NothingBefore'
  BY <1>0, <1>2, RequestLoginOtpDoes DEF NothingBefore, Exists, stores
<1>3. ASSUME NEW q \in Requests, NEW c \in Codes, LoginWithOtp(q, c)
      PROVE  NothingBefore'
  BY <1>0, <1>3, LoginWithOtpDoes DEF NothingBefore, Exists, stores
<1>4. ASSUME NEW q \in Requests, LoginWithGoogle(q)
      PROVE  NothingBefore'
  BY <1>0, <1>4, LoginWithGoogleDoes DEF stores, Becomes, NothingBefore, Exists, Others, IsIdle
<1>5. ASSUME NEW q \in Requests, NEW p \in Passwords, Register(q, p)
      PROVE  NothingBefore'
  BY <1>0, <1>5, RegisterDoes DEF stores, Becomes, NothingBefore, Exists, Others, IsIdle
<1>6. ASSUME NEW q \in Requests, ResendVerification(q)
      PROVE  NothingBefore'
  BY <1>0, <1>6, ResendVerificationDoes DEF NothingBefore, Exists, stores
<1>7. ASSUME NEW q \in Requests, RequestPasswordReset(q)
      PROVE  NothingBefore'
  BY <1>0, <1>7, RequestPasswordResetDoes DEF NothingBefore, Exists, stores
<1>8. ASSUME NEW q \in Requests, NEW l \in Links, VerifyEmail(q, l)
      PROVE  NothingBefore'
  BY <1>0, <1>8, VerifyEmailDoes DEF NothingBefore, Exists
<1>9. ASSUME NEW q \in Requests, NEW l \in Links, NEW p \in Passwords, ResetPassword(q, l, p)
      PROVE  NothingBefore'
  BY <1>0, <1>9, ResetPasswordDoes DEF NothingBefore, Exists
<1>10. ASSUME NEW q \in Requests, Deactivate(q)
      PROVE  NothingBefore'
  BY <1>0, <1>10, DeactivateDoes DEF NothingBefore, Exists, stores
<1>11. ASSUME NEW q \in Requests, CreateSession(q)
      PROVE  NothingBefore'
  BY <1>0, <1>11, CreateSessionDoes DEF NothingBefore, Exists
<1>12. ASSUME NEW q \in Requests, ValidateSession(q)
      PROVE  NothingBefore'
  BY <1>0, <1>12, ValidateSessionDoes DEF NothingBefore, Exists
<1>13. ASSUME NEW q \in Requests, CommitLoginOtp(q)
      PROVE  NothingBefore'
  BY <1>0, <1>13, CommitLoginOtpDoes DEF NothingBefore, Exists
<1>14. ASSUME NEW q \in Requests, WrongCode(q)
      PROVE  NothingBefore'
  BY <1>0, <1>14, WrongCodeDoes DEF NothingBefore, Exists
<1>15. ASSUME NEW q \in Requests, TooManyTries(q)
      PROVE  NothingBefore'
  BY <1>0, <1>15, TooManyTriesDoes DEF NothingBefore, Exists
<1>16. ASSUME NEW q \in Requests, RightCode(q)
      PROVE  NothingBefore'
  BY <1>0, <1>16, RightCodeDoes DEF NothingBefore, Exists
<1>17. ASSUME NEW q \in Requests, MarkVerified(q)
      PROVE  NothingBefore'
  BY <1>0, <1>17, MarkVerifiedDoes DEF NothingBefore, Exists, Verifies
<1>18. ASSUME NEW q \in Requests, MakeUser(q)
      PROVE  NothingBefore'
  BY <1>0, <1>18, MakeUserDoes DEF Becomes, Answered, NothingBefore, Exists, Others, IsIdle
<1>19. ASSUME NEW q \in Requests, RevokeForClaim(q)
      PROVE  NothingBefore'
  BY <1>0, <1>19, RevokeForClaimDoes DEF NothingBefore, Exists, stores
<1>20. ASSUME NEW q \in Requests, CommitClaim(q)
      PROVE  NothingBefore'
  BY <1>0, <1>20, CommitClaimDoes DEF NothingBefore, Exists
<1>21. ASSUME NEW q \in Requests, LinkGoogle(q)
      PROVE  NothingBefore'
  BY <1>0, <1>21, LinkGoogleDoes DEF NothingBefore, Exists
<1>22. ASSUME NEW q \in Requests, CreateAccount(q)
      PROVE  NothingBefore'
  BY <1>0, <1>22, CreateAccountDoes DEF Answered, NothingBefore, Exists, Others, IsIdle
<1>23. ASSUME NEW q \in Requests, CommitToken(q)
      PROVE  NothingBefore'
  BY <1>0, <1>23, CommitTokenDoes DEF NothingBefore, Exists
<1>24. ASSUME NEW q \in Requests, SetVerified(q)
      PROVE  NothingBefore'
  BY <1>0, <1>24, SetVerifiedDoes DEF NothingBefore, Exists, Verifies
<1>25. ASSUME NEW q \in Requests, WritePassword(q)
      PROVE  NothingBefore'
  BY <1>0, <1>25, WritePasswordDoes DEF NothingBefore, Exists, stores
<1>26. ASSUME NEW q \in Requests, CommitReset(q)
      PROVE  NothingBefore'
  BY <1>0, <1>26, CommitResetDoes DEF NothingBefore, Exists
<1>27. ASSUME NEW q \in Requests, CommitDeactivate(q)
      PROVE  NothingBefore'
  BY <1>0, <1>27, CommitDeactivateDoes DEF NothingBefore, Exists
<1>28. ASSUME NEW q \in Requests, Die(q)
      PROVE  NothingBefore'
  BY <1>0, <1>28, DieDoes DEF stores, Answered, NothingBefore, Exists, Others, IsIdle
<1>29. ASSUME NEW s \in Sessions, Logout(s)
      PROVE  NothingBefore'
  BY <1>0, <1>29, LogoutDoes DEF NothingBefore, Exists, Others, IsIdle
<1>30. ASSUME NEW s \in Sessions, SessionExpires(s)
      PROVE  NothingBefore'
  BY <1>0, <1>30, SessionExpiresDoes DEF NothingBefore, Exists, Others, IsIdle
<1>31. ASSUME NEW c \in Codes, CodeExpires(c)
      PROVE  NothingBefore'
  BY <1>0, <1>31, CodeExpiresDoes DEF NothingBefore, Exists, Others, IsIdle
<1>32. ASSUME NEW l \in Links, LinkExpires(l)
      PROVE  NothingBefore'
  BY <1>0, <1>32, LinkExpiresDoes DEF NothingBefore, Exists, Others, IsIdle
<1>33. ASSUME Activate
      PROVE  NothingBefore'
  BY <1>0, <1>33, ActivateDoes DEF NothingBefore, Exists, Others, IsIdle
<1>34. ASSUME UNCHANGED vars
      PROVE  NothingBefore'
  BY <1>0, <1>34 DEF vars, NothingBefore, Exists, Others, IsIdle
<1> QED
  BY <1>1, <1>2, <1>3, <1>4, <1>5, <1>6, <1>7, <1>8, <1>9, <1>10, <1>11, <1>12, <1>13, <1>14,
    <1>15, <1>16, <1>17, <1>18, <1>19, <1>20, <1>21, <1>22, <1>23, <1>24, <1>25, <1>26, <1>27,
    <1>28, <1>29, <1>30, <1>31, <1>32, <1>33, <1>34
     DEF Start, EmailStep, PasswordStep, OtpStep, CreateAccountForm, VerifyEmailPanel, ResendVerificationButton,
          ForgotPasswordForm, ResetPasswordForm, Step, Next

-----------------------------------------------------------------------------
(* Codes that are consumed. *)
OpensKept == \A q \in Requests : Opens(q)' => Opens(q) /\ request'[q].what = request[q].what
CodeSessionsKept == \A s \in Sessions : sessions'[s].by \in Codes => sessions'[s].by = sessions[s].by
CodesStayClosed == \A c \in Codes : ~Unconsumed(c) => ~Unconsumed(c)'

LEMMA CodesAreKept ==
  ASSUME Staged, CodesAreOwned, OpensKept, CodeSessionsKept, CodesStayClosed
  PROVE  CodesAreOwned'
<1>1. \A s \in Sessions : sessions'[s].by \in Codes => ~Unconsumed(sessions[s].by)'
  BY DEF CodesAreOwned, CodeSessionsKept, CodesStayClosed, Unconsumed
<1>2. ASSUME NEW q \in Requests, Opens(q)'
      PROVE  /\ ~Unconsumed(request[q].what)'
             /\ \A s \in Sessions : sessions'[s].by # request'[q].what
             /\ \A r \in Requests \ {q} : Opens(r)' => request'[r].what # request'[q].what
  <2>1. /\ Opens(q) /\ request'[q].what = request[q].what /\ request[q].what \in Codes
        /\ ~Unconsumed(request[q].what)
    BY <1>2 DEF OpensKept, CodesAreOwned, Staged, Stands, Opens
  <2>2. ~Unconsumed(request[q].what)'
    BY <2>1 DEF CodesStayClosed, Unconsumed
  <2>3. \A s \in Sessions : sessions'[s].by # request'[q].what
    BY <2>1 DEF CodeSessionsKept, CodesAreOwned
  <2>4. \A r \in Requests \ {q} : Opens(r)' => request'[r].what # request'[q].what
    BY <2>1 DEF OpensKept, CodesAreOwned
  <2> QED BY <2>2, <2>3, <2>4
<1>3. OneSessionPerCode'
  BY DEF CodesAreOwned, OneSessionPerCode, CodeSessionsKept
<1> QED BY <1>1, <1>2, <1>3 DEF CodesAreOwned

LEMMA OpensBecomes ==
  ASSUME NEW q \in Requests, NEW at, NEW op, NEW what, NEW seen, NEW late,
         Becomes(q, at, op, what, seen, late),
         op = "code" /\ at \in {"mark", "create"} => Opens(q) /\ request[q].what = what
  PROVE  OpensKept
BY DEF OpensKept, Opens, Becomes, Others

LEMMA OpensAnswered ==
  ASSUME NEW q \in Requests, Answered(q)
  PROVE  OpensKept
BY DEF OpensKept, Opens, Answered, Others, IsIdle

LEMMA OpensOvertaken ==
  ASSUME NEW q \in Requests, Overtaken(q), request'[q].at \notin {"mark", "create"}
  PROVE  OpensKept
BY DEF OpensKept, Opens, Overtaken

LEMMA CodeSessionsRevoked ==
  ASSUME NEW q \in Requests, NEW op, RevokedBy(q, op)
  PROVE  CodeSessionsKept
BY ProofsAreDistinct DEF CodeSessionsKept, RevokedBy, NoSession

LEMMA CodesNext ==
  ASSUME IInv, [Next]_vars
  PROVE  CodesAreOwned'
<1>0. TypeOK /\ Staged /\ CodesAreOwned
  BY DEF IInv
<1>1. ASSUME NEW q \in Requests, NEW p \in Passwords, Login(q, p)
      PROVE  CodesAreOwned'
  BY <1>0, <1>1, LoginDoes, CodesAreKept, OpensBecomes DEF stores, CodesStayClosed, Unconsumed,
    CodeSessionsKept
<1>2. ASSUME NEW q \in Requests, RequestLoginOtp(q)
      PROVE  CodesAreOwned'
  BY <1>0, <1>2, RequestLoginOtpDoes, CodesAreKept, OpensBecomes DEF stores, CodesStayClosed,
    Unconsumed, CodeSessionsKept
<1>3. ASSUME NEW q \in Requests, NEW c \in Codes, LoginWithOtp(q, c)
      PROVE  CodesAreOwned'
  BY <1>0, <1>3, LoginWithOtpDoes, CodesAreKept, OpensBecomes DEF stores, CodesStayClosed,
    Unconsumed, CodeSessionsKept
<1>4. ASSUME NEW q \in Requests, LoginWithGoogle(q)
      PROVE  CodesAreOwned'
  BY <1>0, <1>4, LoginWithGoogleDoes, CodesAreKept, OpensBecomes DEF stores, CodesStayClosed,
    Unconsumed, CodeSessionsKept
<1>5. ASSUME NEW q \in Requests, NEW p \in Passwords, Register(q, p)
      PROVE  CodesAreOwned'
  BY <1>0, <1>5, RegisterDoes, CodesAreKept, OpensBecomes DEF stores, CodesStayClosed, Unconsumed,
    CodeSessionsKept
<1>6. ASSUME NEW q \in Requests, ResendVerification(q)
      PROVE  CodesAreOwned'
  BY <1>0, <1>6, ResendVerificationDoes, CodesAreKept, OpensBecomes DEF stores, CodesStayClosed,
    Unconsumed, CodeSessionsKept
<1>7. ASSUME NEW q \in Requests, RequestPasswordReset(q)
      PROVE  CodesAreOwned'
  BY <1>0, <1>7, RequestPasswordResetDoes, CodesAreKept, OpensBecomes DEF stores, CodesStayClosed,
    Unconsumed, CodeSessionsKept
<1>8. ASSUME NEW q \in Requests, NEW l \in Links, VerifyEmail(q, l)
      PROVE  CodesAreOwned'
  BY <1>0, <1>8, VerifyEmailDoes, CodesAreKept, OpensBecomes DEF CodesStayClosed, Unconsumed,
    CodeSessionsKept
<1>9. ASSUME NEW q \in Requests, NEW l \in Links, NEW p \in Passwords, ResetPassword(q, l, p)
      PROVE  CodesAreOwned'
  BY <1>0, <1>9, ResetPasswordDoes, CodesAreKept, OpensBecomes DEF CodesStayClosed, Unconsumed,
    CodeSessionsKept
<1>10. ASSUME NEW q \in Requests, Deactivate(q)
      PROVE  CodesAreOwned'
  BY <1>0, <1>10, DeactivateDoes, CodesAreKept, OpensBecomes DEF stores, CodesStayClosed,
    Unconsumed, CodeSessionsKept
<1>11. ASSUME NEW q \in Requests, CreateSession(q)
      PROVE  CodesAreOwned'
  <2> DEFINE c == request[q].what
  <2>0. PICK s \in Sessions :
          /\ Becomes(q, "validate", request[q].op, request[q].what, {s}, request[q].late)
          /\ sessions'[s] = [state |-> "written", by |-> request[q].what, late |-> LateOf(q)]
          /\ \A t \in Sessions \ {s} : sessions'[t] = sessions[t]
    BY <1>0, <1>11, CreateSessionDoes
  <2>1. /\ Becomes(q, "validate", request[q].op, c, {s}, request[q].late)
        /\ sessions'[s].by = c /\ \A t \in Sessions \ {s} : sessions'[t] = sessions[t]
    BY <2>0
  <2>2. UNCHANGED codes /\ request[q].at = "create"
    BY <1>0, <1>11, CreateSessionDoes
  <2>3. c \in Codes => Opens(q) /\ ~Unconsumed(c)
    BY <1>0, <2>2, ProofsAreDistinct DEF Staged, Stands, Opens, CodesAreOwned, Google
  <2>4. \A t \in Sessions : sessions'[t].by \in Codes => ~Unconsumed(sessions[t].by)'
    BY <1>0, <2>1, <2>2, <2>3 DEF CodesAreOwned, Unconsumed
  <2>5. OpensKept /\ ~Opens(q)'
    BY <2>1, OpensBecomes DEF Becomes, Opens
  <2>6. ASSUME NEW r \in Requests, Opens(r)'
        PROVE  /\ ~Unconsumed(request[r].what)' /\ \A t \in Sessions : sessions'[t].by # request'[r].what
               /\ \A x \in Requests \ {r} : Opens(x)' => request'[x].what # request'[r].what
    <3>1. r # q /\ Opens(r) /\ request'[r].what = request[r].what /\ request[r].what \in Codes
      BY <1>0, <2>5, <2>6 DEF OpensKept, Staged, Stands, Opens
    <3>2. c \in Codes => request[r].what # c
      BY <1>0, <2>3, <3>1 DEF CodesAreOwned
    <3>3. \A t \in Sessions : sessions'[t].by # request'[r].what
      BY <1>0, <2>1, <3>1, <3>2 DEF CodesAreOwned
    <3>4. ~Unconsumed(request[r].what)'
      BY <1>0, <2>2, <3>1 DEF CodesAreOwned, Unconsumed
    <3> QED BY <1>0, <2>5, <3>1, <3>3, <3>4 DEF CodesAreOwned, OpensKept
  <2>7. OneSessionPerCode'
    BY <1>0, <2>1, <2>3 DEF CodesAreOwned, OneSessionPerCode
  <2> QED BY <2>4, <2>6, <2>7 DEF CodesAreOwned
<1>12. ASSUME NEW q \in Requests, ValidateSession(q)
      PROVE  CodesAreOwned'
  BY <1>0, <1>12, ValidateSessionDoes, CodesAreKept, OpensAnswered DEF CodesStayClosed, Unconsumed,
    CodeSessionsKept
<1>13. ASSUME NEW q \in Requests, CommitLoginOtp(q)
      PROVE  CodesAreOwned'
  <2>1. OpensKept /\ UNCHANGED sessions
    BY <1>0, <1>13, CommitLoginOtpDoes, OpensAnswered
  <2>2. PICK c \in Codes : SpareCode(c) /\ \A d \in Codes \ {c} : codes'[d] \in {codes[d], Spent}
    BY <1>0, <1>13, CommitLoginOtpDoes
  <2>3. \A d \in Codes : d # c /\ ~Unconsumed(d) => ~Unconsumed(d)'
    BY <2>2 DEF Unconsumed, Spent
  <2>4. \A s \in Sessions : sessions'[s].by \in Codes => ~Unconsumed(sessions[s].by)'
    BY <1>0, <2>1, <2>2, <2>3 DEF SpareCode, CodesAreOwned
  <2>5. ASSUME NEW r \in Requests, Opens(r)'
        PROVE  /\ ~Unconsumed(request[r].what)' /\ \A t \in Sessions : sessions'[t].by # request'[r].what
               /\ \A x \in Requests \ {r} : Opens(x)' => request'[x].what # request'[r].what
    <3>1. Opens(r) /\ request'[r].what = request[r].what /\ request[r].what \in Codes /\ request[r].what # c
      BY <1>0, <2>1, <2>2, <2>5 DEF OpensKept, Staged, Stands, Opens, SpareCode, Unseen
    <3>2. ~Unconsumed(request[r].what) /\ ~Unconsumed(request[r].what)'
      BY <1>0, <2>3, <3>1 DEF CodesAreOwned
    <3> QED BY <1>0, <2>1, <3>1, <3>2 DEF CodesAreOwned, OpensKept, Unconsumed
  <2>6. OneSessionPerCode'
    BY <1>0, <2>1 DEF CodesAreOwned, OneSessionPerCode
  <2> QED BY <2>4, <2>5, <2>6 DEF CodesAreOwned
<1>14. ASSUME NEW q \in Requests, WrongCode(q)
      PROVE  CodesAreOwned'
  BY <1>0, <1>14, WrongCodeDoes, CodesAreKept, OpensBecomes, OpensAnswered DEF CodesStayClosed,
    Unconsumed, CodeSessionsKept
<1>15. ASSUME NEW q \in Requests, TooManyTries(q)
      PROVE  CodesAreOwned'
  BY <1>0, <1>15, TooManyTriesDoes, CodesAreKept, OpensAnswered DEF CodesStayClosed, Unconsumed,
    CodeSessionsKept, Spent
<1>16. ASSUME NEW q \in Requests, RightCode(q)
      PROVE  CodesAreOwned'
  <2> DEFINE c == request[q].what
  <2>1. c \in Codes /\ request[q].at = "right" /\ UNCHANGED sessions
    BY <1>0, <1>16, RightCodeDoes DEF Staged, Stands
  <2>2. CodesStayClosed /\ CodeSessionsKept
    BY <1>0, <2>1, <1>16, RightCodeDoes DEF CodesStayClosed, Unconsumed, Spent, CodeSessionsKept
  <2>3. CASE Answered(q)
    BY <1>0, <2>2, <2>3, CodesAreKept, OpensAnswered
  <2>4. CASE /\ Unconsumed(c) /\ codes'[c] = Spent
             /\ Becomes(q, "mark", request[q].op, c, request[q].seen, request[q].late)
    <3>1. \A s \in Sessions : sessions'[s].by # c
      BY <1>0, <2>1, <2>4 DEF CodesAreOwned
    <3>2. \A r \in Requests \ {q} : request'[r] = request[r] /\ (Opens(r) => request[r].what # c)
      BY <1>0, <2>4 DEF CodesAreOwned, Becomes, Others
    <3>3. request'[q].what = c /\ ~Unconsumed(c)'
      BY <2>4 DEF Becomes, Unconsumed, Spent
    <3>4. \A s \in Sessions : sessions'[s].by \in Codes => ~Unconsumed(sessions[s].by)'
      BY <1>0, <2>1, <2>2 DEF CodesAreOwned, CodesStayClosed, Unconsumed
    <3>5. ASSUME NEW r \in Requests, Opens(r)'
          PROVE  /\ ~Unconsumed(request[r].what)' /\ \A t \in Sessions : sessions'[t].by # request'[r].what
                 /\ \A x \in Requests \ {r} : Opens(x)' => request'[x].what # request'[r].what
      <4>1. CASE r = q
        BY <3>1, <3>2, <3>3, <4>1 DEF Opens, Unconsumed
      <4>2. CASE r # q
        <5>1. Opens(r) /\ request[r].what \in Codes /\ request'[r].what = request[r].what
          BY <1>0, <3>2, <3>5, <4>2 DEF Opens, Staged, Stands
        <5>2. ~Unconsumed(request[r].what)'
          BY <1>0, <2>2, <5>1 DEF CodesAreOwned, CodesStayClosed, Unconsumed
        <5> QED BY <1>0, <2>1, <3>2, <3>3, <4>2, <5>1, <5>2 DEF CodesAreOwned, Opens, Unconsumed
      <4> QED BY <4>1, <4>2
    <3>6. OneSessionPerCode'
      BY <1>0, <2>1 DEF CodesAreOwned, OneSessionPerCode
    <3> QED BY <3>4, <3>5, <3>6 DEF CodesAreOwned
  <2> QED BY <1>0, <1>16, <2>3, <2>4, RightCodeDoes
<1>17. ASSUME NEW q \in Requests, MarkVerified(q)
      PROVE  CodesAreOwned'
  BY <1>0, <1>17, MarkVerifiedDoes, CodesAreKept, OpensBecomes DEF CodesStayClosed, Unconsumed,
    CodeSessionsKept, Opens, Staged, Stands
<1>18. ASSUME NEW q \in Requests, MakeUser(q)
      PROVE  CodesAreOwned'
  BY <1>0, <1>18, MakeUserDoes, CodesAreKept, OpensBecomes, OpensAnswered DEF CodesStayClosed,
    Unconsumed, CodeSessionsKept
<1>19. ASSUME NEW q \in Requests, RevokeForClaim(q)
      PROVE  CodesAreOwned'
  BY <1>0, <1>19, RevokeForClaimDoes, CodesAreKept, OpensBecomes DEF stores, CodesStayClosed,
    Unconsumed, CodeSessionsKept
<1>20. ASSUME NEW q \in Requests, CommitClaim(q)
      PROVE  CodesAreOwned'
  BY <1>0, <1>20, CommitClaimDoes, CodesAreKept, OpensOvertaken, CodeSessionsRevoked DEF
    CodesStayClosed, Unconsumed, IsIdle
<1>21. ASSUME NEW q \in Requests, LinkGoogle(q)
      PROVE  CodesAreOwned'
  BY <1>0, <1>21, LinkGoogleDoes, CodesAreKept, OpensBecomes DEF CodesStayClosed, Unconsumed,
    CodeSessionsKept, Opens, Staged, Stands
<1>22. ASSUME NEW q \in Requests, CreateAccount(q)
      PROVE  CodesAreOwned'
  BY <1>0, <1>22, CreateAccountDoes, CodesAreKept, OpensAnswered DEF CodesStayClosed, Unconsumed,
    CodeSessionsKept
<1>23. ASSUME NEW q \in Requests, CommitToken(q)
      PROVE  CodesAreOwned'
  BY <1>0, <1>23, CommitTokenDoes, CodesAreKept, OpensAnswered DEF CodesStayClosed, Unconsumed,
    CodeSessionsKept
<1>24. ASSUME NEW q \in Requests, SetVerified(q)
      PROVE  CodesAreOwned'
  BY <1>0, <1>24, SetVerifiedDoes, CodesAreKept, OpensAnswered DEF CodesStayClosed, Unconsumed,
    CodeSessionsKept
<1>25. ASSUME NEW q \in Requests, WritePassword(q)
      PROVE  CodesAreOwned'
  BY <1>0, <1>25, WritePasswordDoes, CodesAreKept, OpensBecomes DEF stores, CodesStayClosed,
    Unconsumed, CodeSessionsKept
<1>26. ASSUME NEW q \in Requests, CommitReset(q)
      PROVE  CodesAreOwned'
  BY <1>0, <1>26, CommitResetDoes, CodesAreKept, OpensOvertaken, CodeSessionsRevoked DEF
    CodesStayClosed, Unconsumed, IsIdle
<1>27. ASSUME NEW q \in Requests, CommitDeactivate(q)
      PROVE  CodesAreOwned'
  BY <1>0, <1>27, CommitDeactivateDoes, CodesAreKept, OpensAnswered, CodeSessionsRevoked DEF
    CodesStayClosed, Unconsumed
<1>28. ASSUME NEW q \in Requests, Die(q)
      PROVE  CodesAreOwned'
  BY <1>0, <1>28, DieDoes, CodesAreKept, OpensAnswered DEF stores, CodesStayClosed, Unconsumed,
    CodeSessionsKept
<1>29. ASSUME NEW s \in Sessions, Logout(s)
      PROVE  CodesAreOwned'
  BY <1>0, <1>29, LogoutDoes, CodesAreKept, ProofsAreDistinct DEF CodesStayClosed, Unconsumed,
    OpensKept, Opens, CodeSessionsKept, NoSession
<1>30. ASSUME NEW s \in Sessions, SessionExpires(s)
      PROVE  CodesAreOwned'
  BY <1>0, <1>30, SessionExpiresDoes, CodesAreKept, ProofsAreDistinct DEF CodesStayClosed,
    Unconsumed, OpensKept, Opens, CodeSessionsKept, NoSession
<1>31. ASSUME NEW c \in Codes, CodeExpires(c)
      PROVE  CodesAreOwned'
  BY <1>0, <1>31, CodeExpiresDoes, CodesAreKept DEF CodesStayClosed, Unconsumed, OpensKept, Opens,
    CodeSessionsKept, Spent
<1>32. ASSUME NEW l \in Links, LinkExpires(l)
      PROVE  CodesAreOwned'
  BY <1>0, <1>32, LinkExpiresDoes, CodesAreKept DEF CodesStayClosed, Unconsumed, OpensKept, Opens,
    CodeSessionsKept
<1>33. ASSUME Activate
      PROVE  CodesAreOwned'
  BY <1>0, <1>33, ActivateDoes, CodesAreKept DEF CodesStayClosed, Unconsumed, OpensKept, Opens,
    CodeSessionsKept
<1>34. ASSUME UNCHANGED vars
      PROVE  CodesAreOwned'
  BY <1>0, <1>34 DEF vars, CodesAreOwned, OneSessionPerCode, Opens, Unconsumed
<1> QED
  BY <1>1, <1>2, <1>3, <1>4, <1>5, <1>6, <1>7, <1>8, <1>9, <1>10, <1>11, <1>12, <1>13, <1>14,
    <1>15, <1>16, <1>17, <1>18, <1>19, <1>20, <1>21, <1>22, <1>23, <1>24, <1>25, <1>26, <1>27,
    <1>28, <1>29, <1>30, <1>31, <1>32, <1>33, <1>34
     DEF Start, EmailStep, PasswordStep, OtpStep, CreateAccountForm, VerifyEmailPanel, ResendVerificationButton,
          ForgotPasswordForm, ResetPasswordForm, Step, Next

-----------------------------------------------------------------------------
(* Codes that have had their wrong tries. *)
OversKept == \A q \in Requests : At(q, "over") => At(q, "over")' /\ request'[q].what = request[q].what
CodesCalm == \A c \in Codes : Unconsumed(c)' /\ codes'[c].attempts >= MaxAttempts
                                => /\ Unconsumed(c) /\ codes[c].attempts >= MaxAttempts
                                   /\ codes[c].left => codes'[c].left

LEMMA ExhaustedKept ==
  ASSUME ExhaustedCodeCloses, OversKept, CodesCalm
  PROVE  ExhaustedCodeCloses'
BY DEF ExhaustedCodeCloses, OversKept, CodesCalm, At

LEMMA OversBecomes ==
  ASSUME NEW q \in Requests, NEW at, NEW op, NEW what, NEW seen, NEW late,
         Becomes(q, at, op, what, seen, late), request[q].at # "over"
  PROVE  OversKept
BY DEF OversKept, At, Becomes, Others

LEMMA OversAnswered ==
  ASSUME NEW q \in Requests, Answered(q), request[q].at # "over"
  PROVE  OversKept
BY DEF OversKept, At, Answered, Others

LEMMA OversOvertaken ==
  ASSUME NEW q \in Requests, Overtaken(q), request[q].at # "over"
  PROVE  OversKept
BY DEF OversKept, At, Overtaken

LEMMA ExhaustedNext ==
  ASSUME IInv, [Next]_vars
  PROVE  ExhaustedCodeCloses'
<1>0. TypeOK /\ Staged /\ ExhaustedCodeCloses
  BY DEF IInv
<1>1. ASSUME NEW q \in Requests, NEW p \in Passwords, Login(q, p)
      PROVE  ExhaustedCodeCloses'
  BY <1>0, <1>1, LoginDoes, ExhaustedKept, OversBecomes DEF stores, CodesCalm, Unconsumed
<1>2. ASSUME NEW q \in Requests, RequestLoginOtp(q)
      PROVE  ExhaustedCodeCloses'
  BY <1>0, <1>2, RequestLoginOtpDoes, ExhaustedKept, OversBecomes DEF stores, CodesCalm, Unconsumed
<1>3. ASSUME NEW q \in Requests, NEW c \in Codes, LoginWithOtp(q, c)
      PROVE  ExhaustedCodeCloses'
  BY <1>0, <1>3, LoginWithOtpDoes, ExhaustedKept, OversBecomes DEF stores, CodesCalm, Unconsumed
<1>4. ASSUME NEW q \in Requests, LoginWithGoogle(q)
      PROVE  ExhaustedCodeCloses'
  BY <1>0, <1>4, LoginWithGoogleDoes, ExhaustedKept, OversBecomes DEF stores, CodesCalm, Unconsumed
<1>5. ASSUME NEW q \in Requests, NEW p \in Passwords, Register(q, p)
      PROVE  ExhaustedCodeCloses'
  BY <1>0, <1>5, RegisterDoes, ExhaustedKept, OversBecomes DEF stores, CodesCalm, Unconsumed
<1>6. ASSUME NEW q \in Requests, ResendVerification(q)
      PROVE  ExhaustedCodeCloses'
  BY <1>0, <1>6, ResendVerificationDoes, ExhaustedKept, OversBecomes DEF stores, CodesCalm,
    Unconsumed
<1>7. ASSUME NEW q \in Requests, RequestPasswordReset(q)
      PROVE  ExhaustedCodeCloses'
  BY <1>0, <1>7, RequestPasswordResetDoes, ExhaustedKept, OversBecomes DEF stores, CodesCalm,
    Unconsumed
<1>8. ASSUME NEW q \in Requests, NEW l \in Links, VerifyEmail(q, l)
      PROVE  ExhaustedCodeCloses'
  BY <1>0, <1>8, VerifyEmailDoes, ExhaustedKept, OversBecomes DEF CodesCalm, Unconsumed
<1>9. ASSUME NEW q \in Requests, NEW l \in Links, NEW p \in Passwords, ResetPassword(q, l, p)
      PROVE  ExhaustedCodeCloses'
  BY <1>0, <1>9, ResetPasswordDoes, ExhaustedKept, OversBecomes DEF CodesCalm, Unconsumed
<1>10. ASSUME NEW q \in Requests, Deactivate(q)
      PROVE  ExhaustedCodeCloses'
  BY <1>0, <1>10, DeactivateDoes, ExhaustedKept, OversBecomes DEF stores, CodesCalm, Unconsumed
<1>11. ASSUME NEW q \in Requests, CreateSession(q)
      PROVE  ExhaustedCodeCloses'
  BY <1>0, <1>11, CreateSessionDoes, ExhaustedKept, OversBecomes DEF CodesCalm, Unconsumed
<1>12. ASSUME NEW q \in Requests, ValidateSession(q)
      PROVE  ExhaustedCodeCloses'
  BY <1>0, <1>12, ValidateSessionDoes, ExhaustedKept, OversAnswered DEF CodesCalm, Unconsumed
<1>13. ASSUME NEW q \in Requests, CommitLoginOtp(q)
      PROVE  ExhaustedCodeCloses'
  <2>1. OversKept
    BY <1>0, <1>13, CommitLoginOtpDoes, OversAnswered
  <2>2. PICK c \in Codes : codes'[c] = Fresh /\ \A d \in Codes \ {c} : codes'[d] \in {codes[d], Spent}
    BY <1>0, <1>13, CommitLoginOtpDoes
  <2>3. codes'[c].attempts = 0 /\ \A d \in Codes \ {c} : codes'[d] = codes[d] \/ ~codes'[d].open
    BY <2>2 DEF Spent, Fresh
  <2>4. CodesCalm
    BY <2>3, Bounds DEF CodesCalm, Unconsumed
  <2> QED BY <1>0, <2>1, <2>4, ExhaustedKept
<1>14. ASSUME NEW q \in Requests, WrongCode(q)
      PROVE  ExhaustedCodeCloses'
  <2> DEFINE c == request[q].what
  <2>1. /\ request[q].at = "wrong" /\ c \in Codes
        /\ \A d \in Codes : /\ codes'[d].open = codes[d].open /\ codes'[d].left = codes[d].left
                            /\ d # c => codes'[d] = codes[d]
        /\ codes'[c] \in CodeRows
    BY <1>0, <1>14, WrongCodeDoes DEF Staged, Stands
  <2>2. CASE Answered(q) /\ (Unconsumed(c) => codes'[c].attempts < MaxAttempts)
    <3>1. OversKept
      BY <2>1, <2>2, OversAnswered
    <3>2. CodesCalm
      BY <2>1, <2>2, Bounds DEF CodesCalm, Unconsumed, CodeRows
    <3> QED BY <1>0, <2>1, <3>1, <3>2, ExhaustedKept
  <2>3. CASE Becomes(q, "over", request[q].op, c, request[q].seen, request[q].late)
    <3>1. OversKept
      BY <2>1, <2>3, OversBecomes
    <3>2. At(q, "over")' /\ request'[q].what = c
      BY <2>3 DEF Becomes, At
    <3> QED BY <1>0, <2>1, <3>1, <3>2 DEF ExhaustedCodeCloses, OversKept, Unconsumed, At
  <2> QED BY <1>0, <1>14, <2>2, <2>3, WrongCodeDoes
<1>15. ASSUME NEW q \in Requests, TooManyTries(q)
      PROVE  ExhaustedCodeCloses'
  <2> DEFINE c == request[q].what
  <2>1. /\ c \in Codes /\ codes'[c] = Spent /\ \A d \in Codes : d # c => codes'[d] = codes[d]
    BY <1>0, <1>15, TooManyTriesDoes DEF Staged, Stands
  <2>2. \A r \in Requests \ {q} : request'[r] = request[r]
    BY <1>0, <1>15, TooManyTriesDoes DEF Answered, Others
  <2>3. ~codes'[c].open
    BY <2>1 DEF Spent
  <2> QED BY <1>0, <2>1, <2>2, <2>3 DEF ExhaustedCodeCloses, Unconsumed, At
<1>16. ASSUME NEW q \in Requests, RightCode(q)
      PROVE  ExhaustedCodeCloses'
  BY <1>0, <1>16, RightCodeDoes, ExhaustedKept, OversBecomes, OversAnswered DEF CodesCalm,
    Unconsumed, Spent, Staged, Stands
<1>17. ASSUME NEW q \in Requests, MarkVerified(q)
      PROVE  ExhaustedCodeCloses'
  BY <1>0, <1>17, MarkVerifiedDoes, ExhaustedKept, OversBecomes DEF CodesCalm, Unconsumed
<1>18. ASSUME NEW q \in Requests, MakeUser(q)
      PROVE  ExhaustedCodeCloses'
  BY <1>0, <1>18, MakeUserDoes, ExhaustedKept, OversBecomes, OversAnswered DEF CodesCalm, Unconsumed
<1>19. ASSUME NEW q \in Requests, RevokeForClaim(q)
      PROVE  ExhaustedCodeCloses'
  BY <1>0, <1>19, RevokeForClaimDoes, ExhaustedKept, OversBecomes DEF stores, CodesCalm, Unconsumed
<1>20. ASSUME NEW q \in Requests, CommitClaim(q)
      PROVE  ExhaustedCodeCloses'
  BY <1>0, <1>20, CommitClaimDoes, ExhaustedKept, OversOvertaken DEF CodesCalm, Unconsumed
<1>21. ASSUME NEW q \in Requests, LinkGoogle(q)
      PROVE  ExhaustedCodeCloses'
  BY <1>0, <1>21, LinkGoogleDoes, ExhaustedKept, OversBecomes DEF CodesCalm, Unconsumed
<1>22. ASSUME NEW q \in Requests, CreateAccount(q)
      PROVE  ExhaustedCodeCloses'
  BY <1>0, <1>22, CreateAccountDoes, ExhaustedKept, OversAnswered DEF CodesCalm, Unconsumed
<1>23. ASSUME NEW q \in Requests, CommitToken(q)
      PROVE  ExhaustedCodeCloses'
  BY <1>0, <1>23, CommitTokenDoes, ExhaustedKept, OversAnswered DEF CodesCalm, Unconsumed
<1>24. ASSUME NEW q \in Requests, SetVerified(q)
      PROVE  ExhaustedCodeCloses'
  BY <1>0, <1>24, SetVerifiedDoes, ExhaustedKept, OversAnswered DEF CodesCalm, Unconsumed
<1>25. ASSUME NEW q \in Requests, WritePassword(q)
      PROVE  ExhaustedCodeCloses'
  BY <1>0, <1>25, WritePasswordDoes, ExhaustedKept, OversBecomes DEF stores, CodesCalm, Unconsumed
<1>26. ASSUME NEW q \in Requests, CommitReset(q)
      PROVE  ExhaustedCodeCloses'
  BY <1>0, <1>26, CommitResetDoes, ExhaustedKept, OversOvertaken DEF CodesCalm, Unconsumed
<1>27. ASSUME NEW q \in Requests, CommitDeactivate(q)
      PROVE  ExhaustedCodeCloses'
  BY <1>0, <1>27, CommitDeactivateDoes, ExhaustedKept, OversAnswered DEF CodesCalm, Unconsumed
<1>28. ASSUME NEW q \in Requests, Die(q)
      PROVE  ExhaustedCodeCloses'
  <2>1. \A r \in Requests \ {q} : request'[r] = request[r]
    BY <1>0, <1>28, DieDoes DEF Answered, Others
  <2>2. ASSUME NEW c \in Codes
        PROVE  /\ codes'[c].open = codes[c].open /\ codes'[c].attempts = codes[c].attempts
               /\ codes[c].open /\ codes[c].left => codes'[c].left
               /\ request[q].at = "over" /\ request[q].what = c => codes'[c].left = codes[c].open
    BY <1>0, <1>28, DieDoes
  <2>3. ASSUME NEW c \in Codes, Unconsumed(c)', codes'[c].attempts >= MaxAttempts
        PROVE  codes'[c].left \/ \E r \in Requests : At(r, "over")' /\ request'[r].what = c
    <3>1. codes[c].left \/ \E r \in Requests : At(r, "over") /\ request[r].what = c
      BY <1>0, <2>2, <2>3 DEF ExhaustedCodeCloses, Unconsumed
    <3> QED BY <2>1, <2>2, <2>3, <3>1 DEF At, Unconsumed
  <2> QED BY <2>3 DEF ExhaustedCodeCloses, At
<1>29. ASSUME NEW s \in Sessions, Logout(s)
      PROVE  ExhaustedCodeCloses'
  BY <1>0, <1>29, LogoutDoes, ExhaustedKept DEF CodesCalm, Unconsumed, OversKept, At
<1>30. ASSUME NEW s \in Sessions, SessionExpires(s)
      PROVE  ExhaustedCodeCloses'
  BY <1>0, <1>30, SessionExpiresDoes, ExhaustedKept DEF CodesCalm, Unconsumed, OversKept, At
<1>31. ASSUME NEW c \in Codes, CodeExpires(c)
      PROVE  ExhaustedCodeCloses'
  BY <1>0, <1>31, CodeExpiresDoes, ExhaustedKept DEF CodesCalm, Unconsumed, OversKept, At, Spent
<1>32. ASSUME NEW l \in Links, LinkExpires(l)
      PROVE  ExhaustedCodeCloses'
  BY <1>0, <1>32, LinkExpiresDoes, ExhaustedKept DEF CodesCalm, Unconsumed, OversKept, At
<1>33. ASSUME Activate
      PROVE  ExhaustedCodeCloses'
  BY <1>0, <1>33, ActivateDoes, ExhaustedKept DEF CodesCalm, Unconsumed, OversKept, At
<1>34. ASSUME UNCHANGED vars
      PROVE  ExhaustedCodeCloses'
  BY <1>0, <1>34 DEF vars, ExhaustedCodeCloses, Unconsumed, At
<1> QED
  BY <1>1, <1>2, <1>3, <1>4, <1>5, <1>6, <1>7, <1>8, <1>9, <1>10, <1>11, <1>12, <1>13, <1>14,
    <1>15, <1>16, <1>17, <1>18, <1>19, <1>20, <1>21, <1>22, <1>23, <1>24, <1>25, <1>26, <1>27,
    <1>28, <1>29, <1>30, <1>31, <1>32, <1>33, <1>34
     DEF Start, EmailStep, PasswordStep, OtpStep, CreateAccountForm, VerifyEmailPanel, ResendVerificationButton,
          ForgotPasswordForm, ResetPasswordForm, Step, Next

-----------------------------------------------------------------------------
(* Signing in by mail. *)
ByMail == Codes \cup {Google}
AboutKept == \A q \in Requests : AboutToByMail(q)' => AboutToByMail(q)
MailSessionsKept == \A s \in Sessions : sessions'[s].by \in ByMail => sessions'[s].by = sessions[s].by

LEMMA MailKept ==
  ASSUME MailVerifies, AboutKept, MailSessionsKept,
         account'.verified = account.verified, account'.linked = account.linked
  PROVE  MailVerifies'
BY DEF MailVerifies, SignedInByMailIsVerified, AboutKept, MailSessionsKept, ByMail

LEMMA MailVerified ==
  ASSUME account'.verified
  PROVE  MailVerifies'
BY DEF MailVerifies, SignedInByMailIsVerified

LEMMA AboutBecomes ==
  ASSUME NEW q \in Requests, NEW at, NEW op, NEW what, NEW seen, NEW late,
         Becomes(q, at, op, what, seen, late),
         at = "link" \/ (at = "create" /\ op \in {"code", "google"}) => AboutToByMail(q)
  PROVE  AboutKept
BY DEF AboutKept, AboutToByMail, Becomes, Others

LEMMA AboutAnswered ==
  ASSUME NEW q \in Requests, Answered(q)
  PROVE  AboutKept
BY DEF AboutKept, AboutToByMail, Answered, Others, IsIdle

LEMMA MailSessionsRevoked ==
  ASSUME NEW q \in Requests, NEW op, RevokedBy(q, op)
  PROVE  MailSessionsKept
BY ProofsAreDistinct DEF MailSessionsKept, RevokedBy, NoSession, ByMail, Google

LEMMA MailNext ==
  ASSUME IInv, [Next]_vars
  PROVE  MailVerifies'
<1>0. TypeOK /\ Staged /\ NothingBefore /\ MailVerifies
  BY DEF IInv
<1>1. ASSUME NEW q \in Requests, NEW p \in Passwords, Login(q, p)
      PROVE  MailVerifies'
  BY <1>0, <1>1, LoginDoes, MailKept, AboutBecomes DEF stores, MailSessionsKept
<1>2. ASSUME NEW q \in Requests, RequestLoginOtp(q)
      PROVE  MailVerifies'
  BY <1>0, <1>2, RequestLoginOtpDoes, MailKept, AboutBecomes DEF stores, MailSessionsKept
<1>3. ASSUME NEW q \in Requests, NEW c \in Codes, LoginWithOtp(q, c)
      PROVE  MailVerifies'
  BY <1>0, <1>3, LoginWithOtpDoes, MailKept, AboutBecomes DEF stores, MailSessionsKept
<1>4. ASSUME NEW q \in Requests, LoginWithGoogle(q)
      PROVE  MailVerifies'
  <2>1. UNCHANGED stores
    BY <1>0, <1>4, LoginWithGoogleDoes DEF stores
  <2>2. CASE account.verified
    BY <2>1, <2>2, MailVerified DEF stores
  <2>3. CASE ~account.verified
    <3>1. ~account.linked
      BY <1>0, <2>3 DEF MailVerifies, SignedInByMailIsVerified
    <3>2. \E at \in {"makeUser", "claim"} : Becomes(q, at, "google", Google, {}, FALSE)
      BY <1>0, <1>4, <2>3, <3>1, LoginWithGoogleDoes
    <3>3. AboutKept
      BY <3>2, AboutBecomes
    <3> QED BY <1>0, <2>1, <3>3, MailKept DEF stores, MailSessionsKept
  <2> QED BY <2>2, <2>3
<1>5. ASSUME NEW q \in Requests, NEW p \in Passwords, Register(q, p)
      PROVE  MailVerifies'
  BY <1>0, <1>5, RegisterDoes, MailKept, AboutBecomes DEF stores, MailSessionsKept
<1>6. ASSUME NEW q \in Requests, ResendVerification(q)
      PROVE  MailVerifies'
  BY <1>0, <1>6, ResendVerificationDoes, MailKept, AboutBecomes DEF stores, MailSessionsKept
<1>7. ASSUME NEW q \in Requests, RequestPasswordReset(q)
      PROVE  MailVerifies'
  BY <1>0, <1>7, RequestPasswordResetDoes, MailKept, AboutBecomes DEF stores, MailSessionsKept
<1>8. ASSUME NEW q \in Requests, NEW l \in Links, VerifyEmail(q, l)
      PROVE  MailVerifies'
  BY <1>0, <1>8, VerifyEmailDoes, MailKept, AboutBecomes DEF MailSessionsKept
<1>9. ASSUME NEW q \in Requests, NEW l \in Links, NEW p \in Passwords, ResetPassword(q, l, p)
      PROVE  MailVerifies'
  BY <1>0, <1>9, ResetPasswordDoes, MailKept, AboutBecomes DEF MailSessionsKept
<1>10. ASSUME NEW q \in Requests, Deactivate(q)
      PROVE  MailVerifies'
  BY <1>0, <1>10, DeactivateDoes, MailKept, AboutBecomes DEF stores, MailSessionsKept
<1>11. ASSUME NEW q \in Requests, CreateSession(q)
      PROVE  MailVerifies'
  <2>1. UNCHANGED account /\ request[q].at = "create"
    BY <1>0, <1>11, CreateSessionDoes
  <2>2. CASE account.verified
    BY <2>1, <2>2, MailVerified
  <2>3. CASE ~account.verified
    <3>1. ~AboutToByMail(q)
      BY <1>0, <2>3 DEF MailVerifies
    <3>2. request[q].what \notin ByMail
      BY <1>0, <2>1, <3>1, ProofsAreDistinct DEF AboutToByMail, Staged, Stands, ByMail, Google
    <3>3. PICK s \in Sessions :
            /\ Becomes(q, "validate", request[q].op, request[q].what, {s}, request[q].late)
            /\ sessions'[s] = [state |-> "written", by |-> request[q].what, late |-> LateOf(q)]
            /\ \A t \in Sessions \ {s} : sessions'[t] = sessions[t]
      BY <1>0, <1>11, CreateSessionDoes
    <3>4. AboutKept
      BY <3>3, AboutBecomes
    <3>5. MailSessionsKept
      BY <3>2, <3>3 DEF MailSessionsKept
    <3> QED BY <1>0, <2>1, <3>4, <3>5, MailKept
  <2> QED BY <2>2, <2>3
<1>12. ASSUME NEW q \in Requests, ValidateSession(q)
      PROVE  MailVerifies'
  BY <1>0, <1>12, ValidateSessionDoes, MailKept, AboutAnswered DEF MailSessionsKept
<1>13. ASSUME NEW q \in Requests, CommitLoginOtp(q)
      PROVE  MailVerifies'
  BY <1>0, <1>13, CommitLoginOtpDoes, MailKept, AboutAnswered DEF MailSessionsKept
<1>14. ASSUME NEW q \in Requests, WrongCode(q)
      PROVE  MailVerifies'
  BY <1>0, <1>14, WrongCodeDoes, MailKept, AboutBecomes, AboutAnswered DEF MailSessionsKept
<1>15. ASSUME NEW q \in Requests, TooManyTries(q)
      PROVE  MailVerifies'
  BY <1>0, <1>15, TooManyTriesDoes, MailKept, AboutAnswered DEF MailSessionsKept
<1>16. ASSUME NEW q \in Requests, RightCode(q)
      PROVE  MailVerifies'
  BY <1>0, <1>16, RightCodeDoes, MailKept, AboutBecomes, AboutAnswered DEF MailSessionsKept
<1>17. ASSUME NEW q \in Requests, MarkVerified(q)
      PROVE  MailVerifies'
  BY <1>0, <1>17, MarkVerifiedDoes, MailVerified DEF Verifies
<1>18. ASSUME NEW q \in Requests, MakeUser(q)
      PROVE  MailVerifies'
  <2>1. CASE Answered(q) /\ UNCHANGED account
    BY <1>0, <1>18, <2>1, MakeUserDoes, MailKept, AboutAnswered DEF MailSessionsKept
  <2>2. CASE account' = [status |-> "ACTIVE", password |-> Null, verified |-> TRUE, linked |-> FALSE]
    BY <2>2, MailVerified
  <2> QED BY <1>0, <1>18, <2>1, <2>2, MakeUserDoes
<1>19. ASSUME NEW q \in Requests, RevokeForClaim(q)
      PROVE  MailVerifies'
  BY <1>0, <1>19, RevokeForClaimDoes, MailKept, AboutBecomes DEF stores, MailSessionsKept
<1>20. ASSUME NEW q \in Requests, CommitClaim(q)
      PROVE  MailVerifies'
  BY <1>0, <1>20, CommitClaimDoes, MailVerified
<1>21. ASSUME NEW q \in Requests, LinkGoogle(q)
      PROVE  MailVerifies'
  <2>1. account'.verified
    BY <1>0, <1>21, LinkGoogleDoes DEF MailVerifies, AboutToByMail
  <2> QED BY <2>1, MailVerified
<1>22. ASSUME NEW q \in Requests, CreateAccount(q)
      PROVE  MailVerifies'
  <2>1. AboutKept /\ UNCHANGED sessions
    BY <1>0, <1>22, CreateAccountDoes, AboutAnswered
  <2>2. CASE Exists /\ UNCHANGED account
    BY <1>0, <2>1, <2>2, MailKept DEF MailSessionsKept
  <2>3. CASE ~Exists /\ account' = [status |-> "ACTIVE", password |-> request[q].what, verified |-> FALSE, linked |-> FALSE]
    <3>1. \A s \in Sessions : sessions'[s].by \notin Codes \cup {Google}
      BY <1>0, <2>1, <2>3, ProofsAreDistinct DEF NothingBefore, NoSession, Google
    <3>2. \A r \in Requests : ~AboutToByMail(r)'
      BY <1>0, <2>1, <2>3 DEF NothingBefore, AboutKept, AboutToByMail
    <3> QED BY <2>3, <3>1, <3>2 DEF MailVerifies, SignedInByMailIsVerified
  <2> QED BY <1>0, <1>22, <2>2, <2>3, CreateAccountDoes
<1>23. ASSUME NEW q \in Requests, CommitToken(q)
      PROVE  MailVerifies'
  BY <1>0, <1>23, CommitTokenDoes, MailKept, AboutAnswered DEF MailSessionsKept
<1>24. ASSUME NEW q \in Requests, SetVerified(q)
      PROVE  MailVerifies'
  BY <1>0, <1>24, SetVerifiedDoes, MailVerified DEF Verifies
<1>25. ASSUME NEW q \in Requests, WritePassword(q)
      PROVE  MailVerifies'
  BY <1>0, <1>25, WritePasswordDoes, MailKept, AboutBecomes DEF stores, MailSessionsKept
<1>26. ASSUME NEW q \in Requests, CommitReset(q)
      PROVE  MailVerifies'
  BY <1>0, <1>26, CommitResetDoes, MailVerified
<1>27. ASSUME NEW q \in Requests, CommitDeactivate(q)
      PROVE  MailVerifies'
  BY <1>0, <1>27, CommitDeactivateDoes, MailKept, AboutAnswered, MailSessionsRevoked
<1>28. ASSUME NEW q \in Requests, Die(q)
      PROVE  MailVerifies'
  BY <1>0, <1>28, DieDoes, MailKept, AboutAnswered DEF stores, MailSessionsKept
<1>29. ASSUME NEW s \in Sessions, Logout(s)
      PROVE  MailVerifies'
  BY <1>0, <1>29, LogoutDoes, MailKept, ProofsAreDistinct DEF AboutKept, AboutToByMail, NoSession,
    MailSessionsKept, ByMail, Google
<1>30. ASSUME NEW s \in Sessions, SessionExpires(s)
      PROVE  MailVerifies'
  BY <1>0, <1>30, SessionExpiresDoes, MailKept, ProofsAreDistinct DEF AboutKept, AboutToByMail,
    NoSession, MailSessionsKept, ByMail, Google
<1>31. ASSUME NEW c \in Codes, CodeExpires(c)
      PROVE  MailVerifies'
  BY <1>0, <1>31, CodeExpiresDoes, MailKept DEF AboutKept, AboutToByMail, MailSessionsKept
<1>32. ASSUME NEW l \in Links, LinkExpires(l)
      PROVE  MailVerifies'
  BY <1>0, <1>32, LinkExpiresDoes, MailKept DEF AboutKept, AboutToByMail, MailSessionsKept
<1>33. ASSUME Activate
      PROVE  MailVerifies'
  BY <1>0, <1>33, ActivateDoes, MailKept DEF AboutKept, AboutToByMail, MailSessionsKept
<1>34. ASSUME UNCHANGED vars
      PROVE  MailVerifies'
  BY <1>0, <1>34 DEF vars, MailVerifies, SignedInByMailIsVerified, AboutToByMail
<1> QED
  BY <1>1, <1>2, <1>3, <1>4, <1>5, <1>6, <1>7, <1>8, <1>9, <1>10, <1>11, <1>12, <1>13, <1>14,
    <1>15, <1>16, <1>17, <1>18, <1>19, <1>20, <1>21, <1>22, <1>23, <1>24, <1>25, <1>26, <1>27,
    <1>28, <1>29, <1>30, <1>31, <1>32, <1>33, <1>34
     DEF Start, EmailStep, PasswordStep, OtpStep, CreateAccountForm, VerifyEmailPanel, ResendVerificationButton,
          ForgotPasswordForm, ResetPasswordForm, Step, Next

-----------------------------------------------------------------------------
(* Links that were accepted. *)
Redeems(q) == request[q].at # "idle" /\ request[q].op \in {"verify", "reset"}
RedeemsKept == \A q \in Requests : Redeems(q) => Redeems(q)'
Used == \E l \in Links : links[l].state = "used"

LEMMA Accepted ==
  /\ AcceptedLinkVerifies <=> (account.verified \/ deaths > 0 \/ ~Used \/ \E q \in Requests : Redeems(q))
  /\ AcceptedLinkVerifies' <=> (account'.verified \/ deaths' > 0 \/ ~Used' \/ \E q \in Requests : Redeems(q)')
BY DEF AcceptedLinkVerifies, Doing, Redeems, Used

LEMMA LinksKept ==
  ASSUME AcceptedLinkVerifies, RedeemsKept, Used' => Used, account.verified => account'.verified, UNCHANGED deaths
  PROVE  AcceptedLinkVerifies'
BY Accepted DEF RedeemsKept

LEMMA RedeemsBecomes ==
  ASSUME NEW q \in Requests, NEW at, NEW op, NEW what, NEW seen, NEW late,
         Becomes(q, at, op, what, seen, late),
         Redeems(q) => at # "idle" /\ op \in {"verify", "reset"}
  PROVE  RedeemsKept
BY DEF RedeemsKept, Redeems, Becomes, Others

LEMMA RedeemsAnswered ==
  ASSUME NEW q \in Requests, Answered(q), ~Redeems(q)
  PROVE  RedeemsKept
BY DEF RedeemsKept, Redeems, Answered, Others

LEMMA LinkNext ==
  ASSUME IInv, [Next]_vars
  PROVE  AcceptedLinkVerifies'
<1>0. TypeOK /\ Staged /\ NothingBefore /\ AcceptedLinkVerifies
  BY DEF IInv
<1>1. ASSUME NEW q \in Requests, NEW p \in Passwords, Login(q, p)
      PROVE  AcceptedLinkVerifies'
  BY <1>0, <1>1, LoginDoes, LinksKept, RedeemsBecomes DEF stores, Used, Redeems, Staged, Stands
<1>2. ASSUME NEW q \in Requests, RequestLoginOtp(q)
      PROVE  AcceptedLinkVerifies'
  BY <1>0, <1>2, RequestLoginOtpDoes, LinksKept, RedeemsBecomes DEF stores, Used, Redeems, Staged,
    Stands
<1>3. ASSUME NEW q \in Requests, NEW c \in Codes, LoginWithOtp(q, c)
      PROVE  AcceptedLinkVerifies'
  BY <1>0, <1>3, LoginWithOtpDoes, LinksKept, RedeemsBecomes DEF stores, Used, Redeems, Staged,
    Stands
<1>4. ASSUME NEW q \in Requests, LoginWithGoogle(q)
      PROVE  AcceptedLinkVerifies'
  BY <1>0, <1>4, LoginWithGoogleDoes, LinksKept, RedeemsBecomes DEF stores, Used, Redeems, Staged,
    Stands
<1>5. ASSUME NEW q \in Requests, NEW p \in Passwords, Register(q, p)
      PROVE  AcceptedLinkVerifies'
  BY <1>0, <1>5, RegisterDoes, LinksKept, RedeemsBecomes DEF stores, Used, Redeems, Staged, Stands
<1>6. ASSUME NEW q \in Requests, ResendVerification(q)
      PROVE  AcceptedLinkVerifies'
  BY <1>0, <1>6, ResendVerificationDoes, LinksKept, RedeemsBecomes DEF stores, Used, Redeems,
    Staged, Stands
<1>7. ASSUME NEW q \in Requests, RequestPasswordReset(q)
      PROVE  AcceptedLinkVerifies'
  BY <1>0, <1>7, RequestPasswordResetDoes, LinksKept, RedeemsBecomes DEF stores, Used, Redeems,
    Staged, Stands
<1>8. ASSUME NEW q \in Requests, NEW l \in Links, VerifyEmail(q, l)
      PROVE  AcceptedLinkVerifies'
  BY <1>0, <1>8, VerifyEmailDoes, Accepted DEF Becomes, Redeems
<1>9. ASSUME NEW q \in Requests, NEW l \in Links, NEW p \in Passwords, ResetPassword(q, l, p)
      PROVE  AcceptedLinkVerifies'
  BY <1>0, <1>9, ResetPasswordDoes, Accepted DEF Becomes, Redeems
<1>10. ASSUME NEW q \in Requests, Deactivate(q)
      PROVE  AcceptedLinkVerifies'
  BY <1>0, <1>10, DeactivateDoes, LinksKept, RedeemsBecomes DEF stores, Used, Redeems, Staged,
    Stands
<1>11. ASSUME NEW q \in Requests, CreateSession(q)
      PROVE  AcceptedLinkVerifies'
  BY <1>0, <1>11, CreateSessionDoes, LinksKept, RedeemsBecomes DEF Used, Redeems, Staged, Stands
<1>12. ASSUME NEW q \in Requests, ValidateSession(q)
      PROVE  AcceptedLinkVerifies'
  BY <1>0, <1>12, ValidateSessionDoes, LinksKept, RedeemsAnswered DEF Used, Redeems, Staged, Stands
<1>13. ASSUME NEW q \in Requests, CommitLoginOtp(q)
      PROVE  AcceptedLinkVerifies'
  BY <1>0, <1>13, CommitLoginOtpDoes, LinksKept, RedeemsAnswered DEF Used, Redeems, Staged, Stands
<1>14. ASSUME NEW q \in Requests, WrongCode(q)
      PROVE  AcceptedLinkVerifies'
  BY <1>0, <1>14, WrongCodeDoes, LinksKept, RedeemsBecomes, RedeemsAnswered DEF Used, Redeems,
    Staged, Stands
<1>15. ASSUME NEW q \in Requests, TooManyTries(q)
      PROVE  AcceptedLinkVerifies'
  BY <1>0, <1>15, TooManyTriesDoes, LinksKept, RedeemsAnswered DEF Used, Redeems, Staged, Stands
<1>16. ASSUME NEW q \in Requests, RightCode(q)
      PROVE  AcceptedLinkVerifies'
  BY <1>0, <1>16, RightCodeDoes, LinksKept, RedeemsBecomes, RedeemsAnswered DEF Used, Redeems,
    Staged, Stands
<1>17. ASSUME NEW q \in Requests, MarkVerified(q)
      PROVE  AcceptedLinkVerifies'
  BY <1>0, <1>17, MarkVerifiedDoes, LinksKept, RedeemsBecomes DEF Used, Redeems, Staged, Stands,
    Verifies
<1>18. ASSUME NEW q \in Requests, MakeUser(q)
      PROVE  AcceptedLinkVerifies'
  <2>1. RedeemsKept /\ UNCHANGED <<links, deaths>> /\ (account.verified => account'.verified)
    BY <1>0, <1>18, MakeUserDoes, RedeemsAnswered, RedeemsBecomes DEF Redeems, Staged, Stands
  <2> QED BY <1>0, <2>1, LinksKept DEF Used
<1>19. ASSUME NEW q \in Requests, RevokeForClaim(q)
      PROVE  AcceptedLinkVerifies'
  BY <1>0, <1>19, RevokeForClaimDoes, LinksKept, RedeemsBecomes DEF stores, Used, Redeems, Staged,
    Stands
<1>20. ASSUME NEW q \in Requests, CommitClaim(q)
      PROVE  AcceptedLinkVerifies'
  BY <1>0, <1>20, CommitClaimDoes, Accepted
<1>21. ASSUME NEW q \in Requests, LinkGoogle(q)
      PROVE  AcceptedLinkVerifies'
  BY <1>0, <1>21, LinkGoogleDoes, LinksKept, RedeemsBecomes DEF Used, Redeems, Staged, Stands
<1>22. ASSUME NEW q \in Requests, CreateAccount(q)
      PROVE  AcceptedLinkVerifies'
  <2>1. RedeemsKept /\ UNCHANGED deaths
    BY <1>0, <1>22, CreateAccountDoes, RedeemsAnswered DEF Redeems, Staged, Stands
  <2>2. Used' => Used
    BY <1>0, <1>22, CreateAccountDoes DEF Used
  <2>3. Used => Exists
    BY <1>0 DEF NothingBefore, Used
  <2>4. Used => UNCHANGED account
    BY <1>0, <1>22, <2>3, CreateAccountDoes
  <2>5. CASE Used
    BY <1>0, <2>1, <2>2, <2>4, <2>5, LinksKept
  <2>6. CASE ~Used
    BY <2>2, <2>6, Accepted
  <2> QED BY <2>5, <2>6
<1>23. ASSUME NEW q \in Requests, CommitToken(q)
      PROVE  AcceptedLinkVerifies'
  BY <1>0, <1>23, CommitTokenDoes, LinksKept, RedeemsAnswered DEF Used, Redeems, Staged, Stands
<1>24. ASSUME NEW q \in Requests, SetVerified(q)
      PROVE  AcceptedLinkVerifies'
  BY <1>0, <1>24, SetVerifiedDoes, Accepted DEF Verifies
<1>25. ASSUME NEW q \in Requests, WritePassword(q)
      PROVE  AcceptedLinkVerifies'
  BY <1>0, <1>25, WritePasswordDoes, LinksKept, RedeemsBecomes DEF stores, Used, Redeems, Staged,
    Stands
<1>26. ASSUME NEW q \in Requests, CommitReset(q)
      PROVE  AcceptedLinkVerifies'
  BY <1>0, <1>26, CommitResetDoes, Accepted
<1>27. ASSUME NEW q \in Requests, CommitDeactivate(q)
      PROVE  AcceptedLinkVerifies'
  BY <1>0, <1>27, CommitDeactivateDoes, LinksKept, RedeemsAnswered DEF Used, Redeems, Staged, Stands
<1>28. ASSUME NEW q \in Requests, Die(q)
      PROVE  AcceptedLinkVerifies'
  <2>1. deaths' > 0
    BY <1>0, <1>28, DieDoes, Bounds
  <2> QED BY <2>1, Accepted
<1>29. ASSUME NEW s \in Sessions, Logout(s)
      PROVE  AcceptedLinkVerifies'
  BY <1>0, <1>29, LogoutDoes, LinksKept DEF Used, RedeemsKept, Redeems
<1>30. ASSUME NEW s \in Sessions, SessionExpires(s)
      PROVE  AcceptedLinkVerifies'
  BY <1>0, <1>30, SessionExpiresDoes, LinksKept DEF Used, RedeemsKept, Redeems
<1>31. ASSUME NEW c \in Codes, CodeExpires(c)
      PROVE  AcceptedLinkVerifies'
  BY <1>0, <1>31, CodeExpiresDoes, LinksKept DEF Used, RedeemsKept, Redeems
<1>32. ASSUME NEW l \in Links, LinkExpires(l)
      PROVE  AcceptedLinkVerifies'
  BY <1>0, <1>32, LinkExpiresDoes, LinksKept DEF Used, RedeemsKept, Redeems
<1>33. ASSUME Activate
      PROVE  AcceptedLinkVerifies'
  BY <1>0, <1>33, ActivateDoes, LinksKept DEF Used, RedeemsKept, Redeems
<1>34. ASSUME UNCHANGED vars
      PROVE  AcceptedLinkVerifies'
  BY <1>0, <1>34 DEF vars, AcceptedLinkVerifies, Doing
<1> QED
  BY <1>1, <1>2, <1>3, <1>4, <1>5, <1>6, <1>7, <1>8, <1>9, <1>10, <1>11, <1>12, <1>13, <1>14,
    <1>15, <1>16, <1>17, <1>18, <1>19, <1>20, <1>21, <1>22, <1>23, <1>24, <1>25, <1>26, <1>27,
    <1>28, <1>29, <1>30, <1>31, <1>32, <1>33, <1>34
     DEF Start, EmailStep, PasswordStep, OtpStep, CreateAccountForm, VerifyEmailPanel, ResendVerificationButton,
          ForgotPasswordForm, ResetPasswordForm, Step, Next

-----------------------------------------------------------------------------
(* The transactions that write the User row. *)
RevokingKept == \A q \in Requests : At(q, "revoking")' => At(q, "revoking") /\ request'[q].seen = request[q].seen
HeldKept == \A s \in Sessions : sessions'[s].state = "held" => sessions[s].state = "held"

LEMMA RowKept ==
  ASSUME OneHoldsTheRow, RevokingKept, HeldKept
  PROVE  OneHoldsTheRow'
BY DEF OneHoldsTheRow, RevokingKept, HeldKept, At

LEMMA RevokingBecomes ==
  ASSUME NEW q \in Requests, NEW at, NEW op, NEW what, NEW seen, NEW late,
         Becomes(q, at, op, what, seen, late), at # "revoking"
  PROVE  RevokingKept
BY DEF RevokingKept, At, Becomes, Others

LEMMA RevokingAnswered ==
  ASSUME NEW q \in Requests, Answered(q)
  PROVE  RevokingKept
BY DEF RevokingKept, At, Answered, Others, IsIdle

LEMMA RevokingOvertaken ==
  ASSUME NEW q \in Requests, Overtaken(q), request'[q].at # "revoking"
  PROVE  RevokingKept
BY DEF RevokingKept, At, Overtaken

LEMMA HeldRevoked ==
  ASSUME NEW q \in Requests, NEW op, RevokedBy(q, op)
  PROVE  HeldKept
BY DEF HeldKept, RevokedBy, NoSession

LEMMA RowTaken ==
  ASSUME NEW q \in Requests, NEW at, NEW op, NEW what, NEW late, RowIsFree,
         Becomes(q, at, op, what, Live, late), UNCHANGED sessions
  PROVE  OneHoldsTheRow'
<1>1. \A r \in Requests : At(r, "revoking")' => r = q
  BY DEF RowIsFree, Becomes, Others, At
<1>2. \A s \in Sessions : sessions'[s].state = "held" => s \in request'[q].seen
  BY DEF Becomes, Live, Alive
<1> QED BY <1>1, <1>2 DEF OneHoldsTheRow

LEMMA RowNext ==
  ASSUME IInv, [Next]_vars
  PROVE  OneHoldsTheRow'
<1>0. TypeOK /\ Staged /\ OneHoldsTheRow
  BY DEF IInv
<1>1. ASSUME NEW q \in Requests, NEW p \in Passwords, Login(q, p)
      PROVE  OneHoldsTheRow'
  BY <1>0, <1>1, LoginDoes, RowKept, RevokingBecomes DEF stores, HeldKept
<1>2. ASSUME NEW q \in Requests, RequestLoginOtp(q)
      PROVE  OneHoldsTheRow'
  BY <1>0, <1>2, RequestLoginOtpDoes, RowKept, RevokingBecomes DEF stores, HeldKept
<1>3. ASSUME NEW q \in Requests, NEW c \in Codes, LoginWithOtp(q, c)
      PROVE  OneHoldsTheRow'
  BY <1>0, <1>3, LoginWithOtpDoes, RowKept, RevokingBecomes DEF stores, HeldKept
<1>4. ASSUME NEW q \in Requests, LoginWithGoogle(q)
      PROVE  OneHoldsTheRow'
  BY <1>0, <1>4, LoginWithGoogleDoes, RowKept, RevokingBecomes DEF stores, HeldKept
<1>5. ASSUME NEW q \in Requests, NEW p \in Passwords, Register(q, p)
      PROVE  OneHoldsTheRow'
  BY <1>0, <1>5, RegisterDoes, RowKept, RevokingBecomes DEF stores, HeldKept
<1>6. ASSUME NEW q \in Requests, ResendVerification(q)
      PROVE  OneHoldsTheRow'
  BY <1>0, <1>6, ResendVerificationDoes, RowKept, RevokingBecomes DEF stores, HeldKept
<1>7. ASSUME NEW q \in Requests, RequestPasswordReset(q)
      PROVE  OneHoldsTheRow'
  BY <1>0, <1>7, RequestPasswordResetDoes, RowKept, RevokingBecomes DEF stores, HeldKept
<1>8. ASSUME NEW q \in Requests, NEW l \in Links, VerifyEmail(q, l)
      PROVE  OneHoldsTheRow'
  BY <1>0, <1>8, VerifyEmailDoes, RowKept, RevokingBecomes DEF HeldKept
<1>9. ASSUME NEW q \in Requests, NEW l \in Links, NEW p \in Passwords, ResetPassword(q, l, p)
      PROVE  OneHoldsTheRow'
  BY <1>0, <1>9, ResetPasswordDoes, RowKept, RevokingBecomes DEF HeldKept
<1>10. ASSUME NEW q \in Requests, Deactivate(q)
      PROVE  OneHoldsTheRow'
  BY <1>0, <1>10, DeactivateDoes, RowTaken DEF stores
<1>11. ASSUME NEW q \in Requests, CreateSession(q)
      PROVE  OneHoldsTheRow'
  <2>1. PICK s \in Sessions :
          /\ Becomes(q, "validate", request[q].op, request[q].what, {s}, request[q].late)
          /\ sessions'[s] = [state |-> "written", by |-> request[q].what, late |-> LateOf(q)]
          /\ \A t \in Sessions \ {s} : sessions'[t] = sessions[t]
    BY <1>0, <1>11, CreateSessionDoes
  <2>2. HeldKept
    BY <2>1 DEF HeldKept
  <2> QED BY <1>0, <2>1, <2>2, RowKept, RevokingBecomes
<1>12. ASSUME NEW q \in Requests, ValidateSession(q)
      PROVE  OneHoldsTheRow'
  <2>1. \A r \in Requests : ~At(r, "revoking")'
    BY <1>0, <1>12, ValidateSessionDoes DEF Answered, Others, IsIdle, RowIsFree, At
  <2> QED BY <2>1 DEF OneHoldsTheRow
<1>13. ASSUME NEW q \in Requests, CommitLoginOtp(q)
      PROVE  OneHoldsTheRow'
  BY <1>0, <1>13, CommitLoginOtpDoes, RowKept, RevokingAnswered DEF HeldKept
<1>14. ASSUME NEW q \in Requests, WrongCode(q)
      PROVE  OneHoldsTheRow'
  BY <1>0, <1>14, WrongCodeDoes, RowKept, RevokingBecomes, RevokingAnswered DEF HeldKept
<1>15. ASSUME NEW q \in Requests, TooManyTries(q)
      PROVE  OneHoldsTheRow'
  BY <1>0, <1>15, TooManyTriesDoes, RowKept, RevokingAnswered DEF HeldKept
<1>16. ASSUME NEW q \in Requests, RightCode(q)
      PROVE  OneHoldsTheRow'
  BY <1>0, <1>16, RightCodeDoes, RowKept, RevokingBecomes, RevokingAnswered DEF HeldKept
<1>17. ASSUME NEW q \in Requests, MarkVerified(q)
      PROVE  OneHoldsTheRow'
  BY <1>0, <1>17, MarkVerifiedDoes, RowKept, RevokingBecomes DEF HeldKept
<1>18. ASSUME NEW q \in Requests, MakeUser(q)
      PROVE  OneHoldsTheRow'
  BY <1>0, <1>18, MakeUserDoes, RowKept, RevokingBecomes, RevokingAnswered DEF HeldKept
<1>19. ASSUME NEW q \in Requests, RevokeForClaim(q)
      PROVE  OneHoldsTheRow'
  BY <1>0, <1>19, RevokeForClaimDoes, RowKept, RevokingBecomes DEF stores, HeldKept
<1>20. ASSUME NEW q \in Requests, CommitClaim(q)
      PROVE  OneHoldsTheRow'
  BY <1>0, <1>20, CommitClaimDoes, RowKept, RevokingOvertaken, HeldRevoked DEF IsIdle
<1>21. ASSUME NEW q \in Requests, LinkGoogle(q)
      PROVE  OneHoldsTheRow'
  BY <1>0, <1>21, LinkGoogleDoes, RowKept, RevokingBecomes DEF HeldKept
<1>22. ASSUME NEW q \in Requests, CreateAccount(q)
      PROVE  OneHoldsTheRow'
  BY <1>0, <1>22, CreateAccountDoes, RowKept, RevokingAnswered DEF HeldKept
<1>23. ASSUME NEW q \in Requests, CommitToken(q)
      PROVE  OneHoldsTheRow'
  BY <1>0, <1>23, CommitTokenDoes, RowKept, RevokingAnswered DEF HeldKept
<1>24. ASSUME NEW q \in Requests, SetVerified(q)
      PROVE  OneHoldsTheRow'
  BY <1>0, <1>24, SetVerifiedDoes, RowKept, RevokingAnswered DEF HeldKept
<1>25. ASSUME NEW q \in Requests, WritePassword(q)
      PROVE  OneHoldsTheRow'
  BY <1>0, <1>25, WritePasswordDoes, RowTaken DEF stores
<1>26. ASSUME NEW q \in Requests, CommitReset(q)
      PROVE  OneHoldsTheRow'
  BY <1>0, <1>26, CommitResetDoes, RowKept, RevokingOvertaken, HeldRevoked DEF IsIdle
<1>27. ASSUME NEW q \in Requests, CommitDeactivate(q)
      PROVE  OneHoldsTheRow'
  BY <1>0, <1>27, CommitDeactivateDoes, RowKept, RevokingAnswered, HeldRevoked
<1>28. ASSUME NEW q \in Requests, Die(q)
      PROVE  OneHoldsTheRow'
  BY <1>0, <1>28, DieDoes, RowKept, RevokingAnswered DEF stores, HeldKept
<1>29. ASSUME NEW s \in Sessions, Logout(s)
      PROVE  OneHoldsTheRow'
  BY <1>0, <1>29, LogoutDoes, RowKept DEF RevokingKept, At, NoSession, HeldKept
<1>30. ASSUME NEW s \in Sessions, SessionExpires(s)
      PROVE  OneHoldsTheRow'
  BY <1>0, <1>30, SessionExpiresDoes, RowKept DEF RevokingKept, At, NoSession, HeldKept
<1>31. ASSUME NEW c \in Codes, CodeExpires(c)
      PROVE  OneHoldsTheRow'
  BY <1>0, <1>31, CodeExpiresDoes, RowKept DEF RevokingKept, At, HeldKept
<1>32. ASSUME NEW l \in Links, LinkExpires(l)
      PROVE  OneHoldsTheRow'
  BY <1>0, <1>32, LinkExpiresDoes, RowKept DEF RevokingKept, At, HeldKept
<1>33. ASSUME Activate
      PROVE  OneHoldsTheRow'
  BY <1>0, <1>33, ActivateDoes, RowKept DEF RevokingKept, At, HeldKept
<1>34. ASSUME UNCHANGED vars
      PROVE  OneHoldsTheRow'
  BY <1>0, <1>34 DEF vars, OneHoldsTheRow, At
<1> QED
  BY <1>1, <1>2, <1>3, <1>4, <1>5, <1>6, <1>7, <1>8, <1>9, <1>10, <1>11, <1>12, <1>13, <1>14,
    <1>15, <1>16, <1>17, <1>18, <1>19, <1>20, <1>21, <1>22, <1>23, <1>24, <1>25, <1>26, <1>27,
    <1>28, <1>29, <1>30, <1>31, <1>32, <1>33, <1>34
     DEF Start, EmailStep, PasswordStep, OtpStep, CreateAccountForm, VerifyEmailPanel, ResendVerificationButton,
          ForgotPasswordForm, ResetPasswordForm, Step, Next

-----------------------------------------------------------------------------
(* Deactivation. *)
LEMMA DisabledKept ==
  ASSUME DisabledIsSignedOut, HeldKept, account'.status = "DISABLED" => account.status = "DISABLED"
  PROVE  DisabledIsSignedOut'
BY DEF DisabledIsSignedOut, HeldKept

LEMMA DisabledNext ==
  ASSUME IInv, [Next]_vars
  PROVE  DisabledIsSignedOut'
<1>0. TypeOK /\ Staged /\ OneHoldsTheRow /\ DisabledIsSignedOut
  BY DEF IInv
<1>1. ASSUME NEW q \in Requests, NEW p \in Passwords, Login(q, p)
      PROVE  DisabledIsSignedOut'
  BY <1>0, <1>1, LoginDoes, DisabledKept DEF stores, HeldKept
<1>2. ASSUME NEW q \in Requests, RequestLoginOtp(q)
      PROVE  DisabledIsSignedOut'
  BY <1>0, <1>2, RequestLoginOtpDoes, DisabledKept DEF stores, HeldKept
<1>3. ASSUME NEW q \in Requests, NEW c \in Codes, LoginWithOtp(q, c)
      PROVE  DisabledIsSignedOut'
  BY <1>0, <1>3, LoginWithOtpDoes, DisabledKept DEF stores, HeldKept
<1>4. ASSUME NEW q \in Requests, LoginWithGoogle(q)
      PROVE  DisabledIsSignedOut'
  BY <1>0, <1>4, LoginWithGoogleDoes, DisabledKept DEF stores, HeldKept
<1>5. ASSUME NEW q \in Requests, NEW p \in Passwords, Register(q, p)
      PROVE  DisabledIsSignedOut'
  BY <1>0, <1>5, RegisterDoes, DisabledKept DEF stores, HeldKept
<1>6. ASSUME NEW q \in Requests, ResendVerification(q)
      PROVE  DisabledIsSignedOut'
  BY <1>0, <1>6, ResendVerificationDoes, DisabledKept DEF stores, HeldKept
<1>7. ASSUME NEW q \in Requests, RequestPasswordReset(q)
      PROVE  DisabledIsSignedOut'
  BY <1>0, <1>7, RequestPasswordResetDoes, DisabledKept DEF stores, HeldKept
<1>8. ASSUME NEW q \in Requests, NEW l \in Links, VerifyEmail(q, l)
      PROVE  DisabledIsSignedOut'
  BY <1>0, <1>8, VerifyEmailDoes, DisabledKept DEF HeldKept
<1>9. ASSUME NEW q \in Requests, NEW l \in Links, NEW p \in Passwords, ResetPassword(q, l, p)
      PROVE  DisabledIsSignedOut'
  BY <1>0, <1>9, ResetPasswordDoes, DisabledKept DEF HeldKept
<1>10. ASSUME NEW q \in Requests, Deactivate(q)
      PROVE  DisabledIsSignedOut'
  BY <1>0, <1>10, DeactivateDoes, DisabledKept DEF stores, HeldKept
<1>11. ASSUME NEW q \in Requests, CreateSession(q)
      PROVE  DisabledIsSignedOut'
  <2>1. PICK s \in Sessions :
          /\ Becomes(q, "validate", request[q].op, request[q].what, {s}, request[q].late)
          /\ sessions'[s] = [state |-> "written", by |-> request[q].what, late |-> LateOf(q)]
          /\ \A t \in Sessions \ {s} : sessions'[t] = sessions[t]
    BY <1>0, <1>11, CreateSessionDoes
  <2>2. HeldKept
    BY <2>1 DEF HeldKept
  <2> QED BY <1>0, <2>1, <2>2, <1>11, CreateSessionDoes, DisabledKept
<1>12. ASSUME NEW q \in Requests, ValidateSession(q)
      PROVE  DisabledIsSignedOut'
  <2>1. CASE account.status = "DISABLED"
    BY <1>0, <1>12, <2>1, ValidateSessionDoes, DisabledKept DEF HeldKept
  <2>2. CASE account.status # "DISABLED"
    BY <1>0, <1>12, <2>2, ValidateSessionDoes DEF DisabledIsSignedOut
  <2> QED BY <2>1, <2>2
<1>13. ASSUME NEW q \in Requests, CommitLoginOtp(q)
      PROVE  DisabledIsSignedOut'
  BY <1>0, <1>13, CommitLoginOtpDoes, DisabledKept DEF HeldKept
<1>14. ASSUME NEW q \in Requests, WrongCode(q)
      PROVE  DisabledIsSignedOut'
  BY <1>0, <1>14, WrongCodeDoes, DisabledKept DEF HeldKept
<1>15. ASSUME NEW q \in Requests, TooManyTries(q)
      PROVE  DisabledIsSignedOut'
  BY <1>0, <1>15, TooManyTriesDoes, DisabledKept DEF HeldKept
<1>16. ASSUME NEW q \in Requests, RightCode(q)
      PROVE  DisabledIsSignedOut'
  BY <1>0, <1>16, RightCodeDoes, DisabledKept DEF HeldKept
<1>17. ASSUME NEW q \in Requests, MarkVerified(q)
      PROVE  DisabledIsSignedOut'
  BY <1>0, <1>17, MarkVerifiedDoes, DisabledKept DEF Verifies, HeldKept
<1>18. ASSUME NEW q \in Requests, MakeUser(q)
      PROVE  DisabledIsSignedOut'
  <2>1. HeldKept /\ (account'.status = account.status \/ account'.status = "ACTIVE")
    BY <1>0, <1>18, MakeUserDoes DEF HeldKept
  <2> QED BY <1>0, <2>1, DisabledKept
<1>19. ASSUME NEW q \in Requests, RevokeForClaim(q)
      PROVE  DisabledIsSignedOut'
  BY <1>0, <1>19, RevokeForClaimDoes, DisabledKept DEF stores, HeldKept
<1>20. ASSUME NEW q \in Requests, CommitClaim(q)
      PROVE  DisabledIsSignedOut'
  BY <1>0, <1>20, CommitClaimDoes, DisabledKept, HeldRevoked
<1>21. ASSUME NEW q \in Requests, LinkGoogle(q)
      PROVE  DisabledIsSignedOut'
  BY <1>0, <1>21, LinkGoogleDoes, DisabledKept DEF HeldKept
<1>22. ASSUME NEW q \in Requests, CreateAccount(q)
      PROVE  DisabledIsSignedOut'
  <2>1. HeldKept /\ (account'.status = account.status \/ account'.status = "ACTIVE")
    BY <1>0, <1>22, CreateAccountDoes DEF HeldKept
  <2> QED BY <1>0, <2>1, DisabledKept
<1>23. ASSUME NEW q \in Requests, CommitToken(q)
      PROVE  DisabledIsSignedOut'
  BY <1>0, <1>23, CommitTokenDoes, DisabledKept DEF HeldKept
<1>24. ASSUME NEW q \in Requests, SetVerified(q)
      PROVE  DisabledIsSignedOut'
  BY <1>0, <1>24, SetVerifiedDoes, DisabledKept DEF Verifies, HeldKept
<1>25. ASSUME NEW q \in Requests, WritePassword(q)
      PROVE  DisabledIsSignedOut'
  BY <1>0, <1>25, WritePasswordDoes, DisabledKept DEF stores, HeldKept
<1>26. ASSUME NEW q \in Requests, CommitReset(q)
      PROVE  DisabledIsSignedOut'
  BY <1>0, <1>26, CommitResetDoes, DisabledKept, HeldRevoked
<1>27. ASSUME NEW q \in Requests, CommitDeactivate(q)
      PROVE  DisabledIsSignedOut'
  <2>1. \A s \in Sessions : sessions[s].state = "held" => s \in request[q].seen
    BY <1>0, <1>27, CommitDeactivateDoes DEF OneHoldsTheRow, At
  <2>2. RevokedBy(q, "deactivate")
    BY <1>0, <1>27, CommitDeactivateDoes
  <2> QED BY <2>1, <2>2 DEF DisabledIsSignedOut, RevokedBy, NoSession, Alive
<1>28. ASSUME NEW q \in Requests, Die(q)
      PROVE  DisabledIsSignedOut'
  BY <1>0, <1>28, DieDoes, DisabledKept DEF stores, HeldKept
<1>29. ASSUME NEW s \in Sessions, Logout(s)
      PROVE  DisabledIsSignedOut'
  BY <1>0, <1>29, LogoutDoes, DisabledKept DEF NoSession, HeldKept
<1>30. ASSUME NEW s \in Sessions, SessionExpires(s)
      PROVE  DisabledIsSignedOut'
  BY <1>0, <1>30, SessionExpiresDoes, DisabledKept DEF NoSession, HeldKept
<1>31. ASSUME NEW c \in Codes, CodeExpires(c)
      PROVE  DisabledIsSignedOut'
  BY <1>0, <1>31, CodeExpiresDoes, DisabledKept DEF HeldKept
<1>32. ASSUME NEW l \in Links, LinkExpires(l)
      PROVE  DisabledIsSignedOut'
  BY <1>0, <1>32, LinkExpiresDoes, DisabledKept DEF HeldKept
<1>33. ASSUME Activate
      PROVE  DisabledIsSignedOut'
  BY <1>0, <1>33, ActivateDoes, DisabledKept DEF HeldKept
<1>34. ASSUME UNCHANGED vars
      PROVE  DisabledIsSignedOut'
  BY <1>0, <1>34 DEF vars, DisabledIsSignedOut
<1> QED
  BY <1>1, <1>2, <1>3, <1>4, <1>5, <1>6, <1>7, <1>8, <1>9, <1>10, <1>11, <1>12, <1>13, <1>14,
    <1>15, <1>16, <1>17, <1>18, <1>19, <1>20, <1>21, <1>22, <1>23, <1>24, <1>25, <1>26, <1>27,
    <1>28, <1>29, <1>30, <1>31, <1>32, <1>33, <1>34
     DEF Start, EmailStep, PasswordStep, OtpStep, CreateAccountForm, VerifyEmailPanel, ResendVerificationButton,
          ForgotPasswordForm, ResetPasswordForm, Step, Next

-----------------------------------------------------------------------------
(* Passwords that were replaced. *)
Creating(q) == At(q, "create") /\ request[q].op = "password"
CreatingKept == \A q \in Requests : Creating(q)' =>
  Creating(q) /\ request'[q].what = request[q].what /\ request'[q].late = request[q].late
PasswordSessionsKept == \A s \in Sessions : Alive(s)' /\ sessions'[s].by \in Passwords =>
  Alive(s) /\ sessions'[s].by = sessions[s].by /\ sessions'[s].late = sessions[s].late

LEMMA OldPasswordsKept ==
  ASSUME OldPasswordsAreLate, CreatingKept, PasswordSessionsKept, account'.password = account.password
  PROVE  OldPasswordsAreLate'
<1>1. \A s \in Sessions : Alive(s)' /\ sessions'[s].by \in Passwords /\ sessions'[s].by # account'.password
                            => Outlives(s)'
  BY DEF OldPasswordsAreLate, PasswordSessionsKept, Outlives
<1>2. \A q \in Requests : Creating(q)' /\ request'[q].what # account'.password => request'[q].late
  BY DEF OldPasswordsAreLate, CreatingKept, Creating
<1> QED BY <1>1, <1>2 DEF OldPasswordsAreLate, Creating

LEMMA CreatingBecomes ==
  ASSUME NEW q \in Requests, NEW at, NEW op, NEW what, NEW seen, NEW late,
         Becomes(q, at, op, what, seen, late), at # "create" \/ op # "password"
  PROVE  CreatingKept
BY DEF CreatingKept, Creating, At, Becomes, Others

LEMMA CreatingAnswered ==
  ASSUME NEW q \in Requests, Answered(q)
  PROVE  CreatingKept
BY DEF CreatingKept, Creating, At, Answered, Others, IsIdle

LEMMA SessionsReplaced ==
  ASSUME NEW q \in Requests, RevokedBy(q, "deactivate")
  PROVE  PasswordSessionsKept
<1>1. \A s \in Sessions : Late(sessions[s], "deactivate") = sessions[s].late
  BY DEF Late
<1> QED BY <1>1 DEF PasswordSessionsKept, RevokedBy, NoSession, Alive

(* Whoever goes on after a replacement knows of it. *)
LEMMA CreatorsLate ==
  ASSUME NEW q \in Requests, Overtaken(q), request'[q].at # "create"
  PROVE  \A r \in Requests : Creating(r)' => request'[r].late
BY DEF Overtaken, Creating, At

(* A reset has seen every session that is held: the ones it leaves belong   *)
(* to sign-ins that have not answered.                                     *)
LEMMA ResetLeavesUnanswered ==
  ASSUME TypeOK, OneHoldsTheRow, NEW q \in Requests, At(q, "revoking"), Overtaken(q), RevokedBy(q, "reset"),
         request'[q].at # "create"
  PROVE  OldPasswordsAreLate'
<1>1. ASSUME NEW s \in Sessions, Alive(s)'
      PROVE  sessions'[s].late = "underWay"
  <2>1. Alive(s) /\ s \notin request[q].seen /\ sessions'[s].late = Late(sessions[s], "reset")
    BY <1>1 DEF RevokedBy, NoSession, Alive
  <2>2. sessions[s].state = "written"
    BY <2>1 DEF TypeOK, SessionRows, Alive, OneHoldsTheRow
  <2> QED BY <2>1, <2>2 DEF Late
<1> QED BY <1>1, CreatorsLate DEF OldPasswordsAreLate, Outlives, Creating

(* A claim leaves those, and the sessions it has missed; no password opens  *)
(* the account after it.                                                   *)
LEMMA ClaimLeavesMissed ==
  ASSUME TypeOK, NEW q \in Requests, Overtaken(q), RevokedBy(q, "google"), account'.password = Null,
         request'[q].at # "create"
  PROVE  OldPasswordsAreLate'
<1>1. ASSUME NEW s \in Sessions, Alive(s)'
      PROVE  sessions'[s].late \in {"underWay", "missed"}
  <2>1. Alive(s) /\ sessions'[s].late = Late(sessions[s], "google")
    BY <1>1 DEF RevokedBy, NoSession, Alive
  <2>2. sessions[s].state \in {"written", "held"}
    BY <2>1 DEF TypeOK, SessionRows, Alive
  <2> QED BY <2>1, <2>2 DEF Late
<1> QED BY <1>1, CreatorsLate DEF OldPasswordsAreLate, Outlives, Creating

LEMMA NewAccount ==
  ASSUME NothingBefore, ~Exists, CreatingKept, UNCHANGED sessions
  PROVE  OldPasswordsAreLate'
<1>1. \A s \in Sessions : ~Alive(s)'
  BY DEF NothingBefore, NoSession, Alive
<1>2. \A q \in Requests : ~Creating(q)'
  BY DEF NothingBefore, CreatingKept, Creating, At
<1> QED BY <1>1, <1>2 DEF OldPasswordsAreLate, Creating

LEMMA OldPasswordsNext ==
  ASSUME IInv, [Next]_vars
  PROVE  OldPasswordsAreLate'
<1>0. TypeOK /\ Staged /\ NothingBefore /\ OneHoldsTheRow /\ OldPasswordsAreLate
  BY DEF IInv
<1>1. ASSUME NEW q \in Requests, NEW p \in Passwords, Login(q, p)
      PROVE  OldPasswordsAreLate'
  <2>1. Becomes(q, "create", "password", p, {}, FALSE) /\ UNCHANGED <<account, sessions>> /\ account.password = p
    BY <1>0, <1>1, LoginDoes DEF stores
  <2>2. \A r \in Requests : Creating(r)' /\ request'[r].what # account'.password => request'[r].late
    BY <1>0, <2>1 DEF OldPasswordsAreLate, Creating, At, Becomes, Others
  <2>3. \A s \in Sessions : Alive(s)' /\ sessions'[s].by \in Passwords /\ sessions'[s].by # account'.password
                            => Outlives(s)'
    BY <1>0, <2>1 DEF OldPasswordsAreLate, Alive, Outlives
  <2> QED BY <2>2, <2>3 DEF OldPasswordsAreLate, Creating
<1>2. ASSUME NEW q \in Requests, RequestLoginOtp(q)
      PROVE  OldPasswordsAreLate'
  BY <1>0, <1>2, RequestLoginOtpDoes, OldPasswordsKept, CreatingBecomes DEF stores,
    PasswordSessionsKept, Alive
<1>3. ASSUME NEW q \in Requests, NEW c \in Codes, LoginWithOtp(q, c)
      PROVE  OldPasswordsAreLate'
  BY <1>0, <1>3, LoginWithOtpDoes, OldPasswordsKept, CreatingBecomes DEF stores,
    PasswordSessionsKept, Alive
<1>4. ASSUME NEW q \in Requests, LoginWithGoogle(q)
      PROVE  OldPasswordsAreLate'
  BY <1>0, <1>4, LoginWithGoogleDoes, OldPasswordsKept, CreatingBecomes DEF stores,
    PasswordSessionsKept, Alive
<1>5. ASSUME NEW q \in Requests, NEW p \in Passwords, Register(q, p)
      PROVE  OldPasswordsAreLate'
  BY <1>0, <1>5, RegisterDoes, OldPasswordsKept, CreatingBecomes DEF stores, PasswordSessionsKept,
    Alive
<1>6. ASSUME NEW q \in Requests, ResendVerification(q)
      PROVE  OldPasswordsAreLate'
  BY <1>0, <1>6, ResendVerificationDoes, OldPasswordsKept, CreatingBecomes DEF stores,
    PasswordSessionsKept, Alive
<1>7. ASSUME NEW q \in Requests, RequestPasswordReset(q)
      PROVE  OldPasswordsAreLate'
  BY <1>0, <1>7, RequestPasswordResetDoes, OldPasswordsKept, CreatingBecomes DEF stores,
    PasswordSessionsKept, Alive
<1>8. ASSUME NEW q \in Requests, NEW l \in Links, VerifyEmail(q, l)
      PROVE  OldPasswordsAreLate'
  BY <1>0, <1>8, VerifyEmailDoes, OldPasswordsKept, CreatingBecomes DEF PasswordSessionsKept, Alive
<1>9. ASSUME NEW q \in Requests, NEW l \in Links, NEW p \in Passwords, ResetPassword(q, l, p)
      PROVE  OldPasswordsAreLate'
  BY <1>0, <1>9, ResetPasswordDoes, OldPasswordsKept, CreatingBecomes DEF PasswordSessionsKept,
    Alive
<1>10. ASSUME NEW q \in Requests, Deactivate(q)
      PROVE  OldPasswordsAreLate'
  BY <1>0, <1>10, DeactivateDoes, OldPasswordsKept, CreatingBecomes DEF stores,
    PasswordSessionsKept, Alive
<1>11. ASSUME NEW q \in Requests, CreateSession(q)
      PROVE  OldPasswordsAreLate'
  <2>1. PICK s \in Sessions :
          /\ Becomes(q, "validate", request[q].op, request[q].what, {s}, request[q].late)
          /\ sessions'[s] = [state |-> "written", by |-> request[q].what, late |-> LateOf(q)]
          /\ \A t \in Sessions \ {s} : sessions'[t] = sessions[t]
    BY <1>0, <1>11, CreateSessionDoes
  <2>2. CreatingKept
    BY <2>1, CreatingBecomes
  <2>3. \A r \in Requests : Creating(r)' /\ request'[r].what # account'.password => request'[r].late
    BY <1>0, <1>11, <2>2, CreateSessionDoes DEF OldPasswordsAreLate, CreatingKept, Creating
  <2>4. request[q].what \in Passwords => Creating(q)
    BY <1>0, <1>11, CreateSessionDoes, ProofsAreDistinct DEF Staged, Stands, Creating, At, Google
  <2>5. \A t \in Sessions : Alive(t)' /\ sessions'[t].by \in Passwords /\ sessions'[t].by # account'.password
                            => Outlives(t)'
    <3>1. UNCHANGED account
      BY <1>0, <1>11, CreateSessionDoes
    <3>2. sessions'[s].by = request[q].what /\ sessions'[s].late = LateOf(q)
      BY <2>1
    <3> QED BY <1>0, <2>1, <2>4, <3>1, <3>2 DEF OldPasswordsAreLate, Alive, Creating, Outlives, LateOf
  <2> QED BY <2>3, <2>5 DEF OldPasswordsAreLate, Creating
<1>12. ASSUME NEW q \in Requests, ValidateSession(q)
      PROVE  OldPasswordsAreLate'
  <2>1. CreatingKept
    BY <1>0, <1>12, ValidateSessionDoes, CreatingAnswered
  <2>2. PasswordSessionsKept /\ UNCHANGED account
    BY <1>0, <1>12, ValidateSessionDoes DEF PasswordSessionsKept, Alive
  <2> QED BY <1>0, <2>1, <2>2, OldPasswordsKept
<1>13. ASSUME NEW q \in Requests, CommitLoginOtp(q)
      PROVE  OldPasswordsAreLate'
  BY <1>0, <1>13, CommitLoginOtpDoes, OldPasswordsKept, CreatingAnswered DEF PasswordSessionsKept,
    Alive
<1>14. ASSUME NEW q \in Requests, WrongCode(q)
      PROVE  OldPasswordsAreLate'
  BY <1>0, <1>14, WrongCodeDoes, OldPasswordsKept, CreatingBecomes, CreatingAnswered DEF
    PasswordSessionsKept, Alive
<1>15. ASSUME NEW q \in Requests, TooManyTries(q)
      PROVE  OldPasswordsAreLate'
  BY <1>0, <1>15, TooManyTriesDoes, OldPasswordsKept, CreatingAnswered DEF PasswordSessionsKept,
    Alive
<1>16. ASSUME NEW q \in Requests, RightCode(q)
      PROVE  OldPasswordsAreLate'
  BY <1>0, <1>16, RightCodeDoes, OldPasswordsKept, CreatingBecomes, CreatingAnswered DEF
    PasswordSessionsKept, Alive
<1>17. ASSUME NEW q \in Requests, MarkVerified(q)
      PROVE  OldPasswordsAreLate'
  BY <1>0, <1>17, MarkVerifiedDoes, OldPasswordsKept, CreatingBecomes DEF Verifies,
    PasswordSessionsKept, Alive, Staged, Stands
<1>18. ASSUME NEW q \in Requests, MakeUser(q)
      PROVE  OldPasswordsAreLate'
  <2>1. CASE Answered(q) /\ UNCHANGED account
    BY <1>0, <1>18, <2>1, MakeUserDoes, OldPasswordsKept, CreatingAnswered DEF PasswordSessionsKept, Alive
  <2>2. CASE ~Exists /\ Becomes(q, "link", request[q].op, request[q].what, request[q].seen, request[q].late)
    <3>1. CreatingKept /\ UNCHANGED sessions
      BY <1>0, <1>18, <2>2, MakeUserDoes, CreatingBecomes
    <3> QED BY <1>0, <2>2, <3>1, NewAccount
  <2> QED BY <1>0, <1>18, <2>1, <2>2, MakeUserDoes
<1>19. ASSUME NEW q \in Requests, RevokeForClaim(q)
      PROVE  OldPasswordsAreLate'
  BY <1>0, <1>19, RevokeForClaimDoes, OldPasswordsKept, CreatingBecomes DEF stores,
    PasswordSessionsKept, Alive
<1>20. ASSUME NEW q \in Requests, CommitClaim(q)
      PROVE  OldPasswordsAreLate'
  <2>1. request[q].op = "google"
    BY <1>0, <1>20, CommitClaimDoes DEF Staged, Stands
  <2> QED BY <1>0, <1>20, <2>1, CommitClaimDoes, ClaimLeavesMissed DEF IsIdle
<1>21. ASSUME NEW q \in Requests, LinkGoogle(q)
      PROVE  OldPasswordsAreLate'
  BY <1>0, <1>21, LinkGoogleDoes, OldPasswordsKept, CreatingBecomes DEF PasswordSessionsKept, Alive,
    Staged, Stands
<1>22. ASSUME NEW q \in Requests, CreateAccount(q)
      PROVE  OldPasswordsAreLate'
  <2>1. CreatingKept /\ UNCHANGED sessions
    BY <1>0, <1>22, CreateAccountDoes, CreatingAnswered
  <2>2. CASE UNCHANGED account
    BY <1>0, <2>1, <2>2, OldPasswordsKept DEF PasswordSessionsKept, Alive
  <2>3. CASE ~Exists
    BY <1>0, <2>1, <2>3, NewAccount
  <2> QED BY <1>0, <1>22, <2>2, <2>3, CreateAccountDoes
<1>23. ASSUME NEW q \in Requests, CommitToken(q)
      PROVE  OldPasswordsAreLate'
  BY <1>0, <1>23, CommitTokenDoes, OldPasswordsKept, CreatingAnswered DEF PasswordSessionsKept,
    Alive
<1>24. ASSUME NEW q \in Requests, SetVerified(q)
      PROVE  OldPasswordsAreLate'
  BY <1>0, <1>24, SetVerifiedDoes, OldPasswordsKept, CreatingAnswered DEF Verifies,
    PasswordSessionsKept, Alive
<1>25. ASSUME NEW q \in Requests, WritePassword(q)
      PROVE  OldPasswordsAreLate'
  BY <1>0, <1>25, WritePasswordDoes, OldPasswordsKept, CreatingBecomes DEF stores,
    PasswordSessionsKept, Alive
<1>26. ASSUME NEW q \in Requests, CommitReset(q)
      PROVE  OldPasswordsAreLate'
  BY <1>0, <1>26, CommitResetDoes, ResetLeavesUnanswered DEF IsIdle, At
<1>27. ASSUME NEW q \in Requests, CommitDeactivate(q)
      PROVE  OldPasswordsAreLate'
  BY <1>0, <1>27, CommitDeactivateDoes, OldPasswordsKept, CreatingAnswered, SessionsReplaced
<1>28. ASSUME NEW q \in Requests, Die(q)
      PROVE  OldPasswordsAreLate'
  BY <1>0, <1>28, DieDoes, OldPasswordsKept, CreatingAnswered DEF stores, PasswordSessionsKept,
    Alive
<1>29. ASSUME NEW s \in Sessions, Logout(s)
      PROVE  OldPasswordsAreLate'
  BY <1>0, <1>29, LogoutDoes, OldPasswordsKept DEF CreatingKept, Creating, At, NoSession,
    PasswordSessionsKept, Alive
<1>30. ASSUME NEW s \in Sessions, SessionExpires(s)
      PROVE  OldPasswordsAreLate'
  BY <1>0, <1>30, SessionExpiresDoes, OldPasswordsKept DEF CreatingKept, Creating, At, NoSession,
    PasswordSessionsKept, Alive
<1>31. ASSUME NEW c \in Codes, CodeExpires(c)
      PROVE  OldPasswordsAreLate'
  BY <1>0, <1>31, CodeExpiresDoes, OldPasswordsKept DEF CreatingKept, Creating, At,
    PasswordSessionsKept, Alive
<1>32. ASSUME NEW l \in Links, LinkExpires(l)
      PROVE  OldPasswordsAreLate'
  BY <1>0, <1>32, LinkExpiresDoes, OldPasswordsKept DEF CreatingKept, Creating, At,
    PasswordSessionsKept, Alive
<1>33. ASSUME Activate
      PROVE  OldPasswordsAreLate'
  BY <1>0, <1>33, ActivateDoes, OldPasswordsKept DEF CreatingKept, Creating, At,
    PasswordSessionsKept, Alive
<1>34. ASSUME UNCHANGED vars
      PROVE  OldPasswordsAreLate'
  BY <1>0, <1>34 DEF vars, OldPasswordsAreLate, Alive, At, Outlives
<1> QED
  BY <1>1, <1>2, <1>3, <1>4, <1>5, <1>6, <1>7, <1>8, <1>9, <1>10, <1>11, <1>12, <1>13, <1>14,
    <1>15, <1>16, <1>17, <1>18, <1>19, <1>20, <1>21, <1>22, <1>23, <1>24, <1>25, <1>26, <1>27,
    <1>28, <1>29, <1>30, <1>31, <1>32, <1>33, <1>34
     DEF Start, EmailStep, PasswordStep, OtpStep, CreateAccountForm, VerifyEmailPanel, ResendVerificationButton,
          ForgotPasswordForm, ResetPasswordForm, Step, Next

-----------------------------------------------------------------------------
LEMMA Invariance == Spec => []IInv
<1>1. ASSUME IInv, [Next]_vars
      PROVE  IInv'
  BY <1>1, TypeNext, StagedNext, NothingBeforeNext, CodesNext, ExhaustedNext, MailNext, LinkNext,
     RowNext, DisabledNext, OldPasswordsNext DEF IInv
<1> QED BY <1>1, Initially, PTL DEF Spec

(* Every row and every request keeps its type, whatever AuthService and    *)
(* SessionService do at once.                                              *)
THEOREM AccountTypes == Spec => []TypeOK
<1>1. IInv => TypeOK
  BY DEF IInv
<1> QED BY <1>1, Invariance, PTL

(* loginWithOtp: however many requests bring one code, one consumes it and *)
(* opens a session.                                                        *)
THEOREM CodeOpensOneSession == Spec => []OneSessionPerCode
<1>1. IInv => OneSessionPerCode
  BY DEF IInv, CodesAreOwned
<1> QED BY <1>1, Invariance, PTL

(* loginWithOtp: wrong tries are all counted, and while a code stays open   *)
(* after its last one a request is still about to close it, or that very   *)
(* request died.  A right guess in between is not ruled out.               *)
THEOREM WrongTriesClose == Spec => []ExhaustedCodeCloses
<1>1. IInv => ExhaustedCodeCloses
  BY DEF IInv
<1> QED BY <1>1, Invariance, PTL

(* issueSession after loginWithOtp and loginWithGoogle: the address is     *)
(* verified before there is a session.                                     *)
THEOREM MailSignInVerifies == Spec => []SignedInByMailIsVerified
<1>1. IInv => SignedInByMailIsVerified
  BY DEF IInv, MailVerifies
<1> QED BY <1>1, Invariance, PTL

(* verifyEmail and resetPassword: a link that was accepted ends in a       *)
(* verified address unless a request dies.                                 *)
THEOREM AcceptedLinksVerify == Spec => []AcceptedLinkVerifies
<1>1. IInv => AcceptedLinkVerifies
  BY DEF IInv
<1> QED BY <1>1, Invariance, PTL

(* AdminUsersService.deactivate: no session outlives it, because the write *)
(* of lastLoginAt waits for the row it holds (OneHoldsTheRow).             *)
THEOREM DeactivationSignsOut == Spec => []DisabledIsSignedOut
<1>1. IInv => DisabledIsSignedOut
  BY DEF IInv
<1> QED BY <1>1, Invariance, PTL

(* resetPassword and the claim for Google: a session that is held although  *)
(* its password was replaced comes from a sign-in that was still under way, *)
(* or from one answered after a claim looked for sessions and before it    *)
(* took the password; the next reset ends the latter.                      *)
THEOREM ReplacedPasswordsAreOut == Spec => []OldPasswordsAreOut
<1>1. IInv => OldPasswordsAreOut
  BY DEF IInv, OldPasswordsAreLate, OldPasswordsAreOut, Outlives, Alive
<1> QED BY <1>1, Invariance, PTL

=============================================================================

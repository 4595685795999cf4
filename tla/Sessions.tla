------------------------------ MODULE Sessions ------------------------------
(***************************************************************************)
(* AuthService for one user: refresh tokens in families, a family growing   *)
(* from one login by rotation, and the count of failed logins.  Rotations   *)
(* and revocations lock the user row first; a login locks nothing.  Under   *)
(* READ COMMITTED an UPDATE changes the rows its own snapshot shows it.     *)
(* Access tokens and the second factor are left out.                        *)
(***************************************************************************)
EXTENDS Requests

CONSTANTS NumTokens,     \* bound: refresh tokens ever issued
          Threshold      \* AUTH_FAILED_LOGIN_BACKOFF_THRESHOLD

ASSUME SessionConstants == NumTokens \in Nat /\ Threshold \in Nat

VARIABLES token,     \* refresh_token_sessions in the order of their insertion
          ended,     \* history: families a committed revocation has ended
          attempt    \* auth_login_attempts: the row of the user's email

sessionVars == <<token, ended, attempt>>
TokenStatus == {"ACTIVE", "ROTATED", "REVOKED", "COMPROMISED"}   \* EXPIRED is never set
Token  == DOMAIN token
Family == {token[t].family : t \in Token}

(* History, since the row was last deleted or its window ran out: failed    *)
(* counts the logins found wrong, refused those of them whose INSERT met    *)
(* the row of another (unique email_hash) and which answer with an error.   *)
NoAttempt          == [n |-> 0, locked |-> FALSE, failed |-> 0, refused |-> 0]
Failed(n, f, lost) == [n |-> n, locked |-> n >= Threshold, failed |-> f, refused |-> lost]

SessionsTypeOK ==
  /\ token \in Seq([family : 1..NumTokens, st : TokenStatus])
  /\ ended \subseteq 1..NumTokens
  /\ attempt \in [n : Nat, locked : BOOLEAN, failed : Nat, refused : Nat]

SessionsInit == token = <<>> /\ ended = {} /\ attempt = NoAttempt

Active(F)     == {t \in Token : token[t].family \in F /\ token[t].st = "ACTIVE"}
Issue(f)      == [family |-> f, st |-> "ACTIVE"]
Marked(S, st) == [t \in Token |-> IF t \in S THEN [token[t] EXCEPT !.st = st] ELSE token[t]]

(* Row locks, held to the end of the transaction.                           *)
Within(op, pc)  == \E c \in Client : At(c, op, pc)
UserFree        == ~Within("refresh", "rotate") /\ ~Within("revoke", "update")
TokensFree(S)   == \A c \in Client : At(c, "refresh", "rotate") => reqs[c].token \notin S
AttemptFree     == ~\E c \in Client : At(c, "login", "count") /\ reqs[c].saw > 0

-----------------------------------------------------------------------------
(* login: the back-off is looked up, then the password is verified; time may *)
(* run out the lock between any two steps.                                  *)
BeginLogin(c) ==
  /\ Begin(c, [op |-> "login", pc |-> "verify"])
  /\ UNCHANGED <<token, ended>>
  /\ \/ ~attempt.locked /\ UNCHANGED attempt
     \/ attempt.locked /\ attempt' = [attempt EXCEPT !.locked = FALSE]

PasswordMatches(c) ==
  /\ At(c, "login", "verify") /\ AttemptFree
  /\ attempt' = NoAttempt                              \* clearFailedLoginAttempts
  /\ Advance(c, [op |-> "login", pc |-> "session"])
  /\ UNCHANGED <<token, ended>>

CreateRefreshSession(c) ==
  /\ At(c, "login", "session") /\ Len(token) < NumTokens
  /\ token' = Append(token, Issue(Len(token) + 1))
  /\ Finish(c)
  /\ UNCHANGED <<ended, attempt>>

(* recordFailedLoginAttempt: FOR UPDATE locks no row that is not there yet. *)
(* (Variant: the row is read without FOR UPDATE.)                           *)
ReadAttemptUnlocked(c) ==
  /\ At(c, "login", "verify")
  /\ Advance(c, [op |-> "login", pc |-> "count", saw |-> attempt.n])
  /\ UNCHANGED sessionVars

ReadAttempt(c) ==
  /\ At(c, "login", "verify") /\ (attempt.n > 0 => AttemptFree)
  /\ Advance(c, [op |-> "login", pc |-> "count", saw |-> attempt.n])
  /\ UNCHANGED sessionVars

(* The count starts again when the last failure is too old.                 *)
WriteAttempt(c) ==
  /\ At(c, "login", "count")
  /\ \/ /\ reqs[c].saw = 0 /\ attempt.n > 0                        \* unique email_hash
        /\ attempt' = [attempt EXCEPT !.failed = @ + 1, !.refused = @ + 1]
     \/ /\ ~(reqs[c].saw = 0 /\ attempt.n > 0)
        /\ attempt' = Failed(reqs[c].saw + 1, attempt.failed + 1, attempt.refused)
     \/ reqs[c].saw > 0 /\ attempt' = Failed(1, 1, 0)
  /\ Finish(c)
  /\ UNCHANGED <<token, ended>>

-----------------------------------------------------------------------------
(* refresh, by whoever holds a token ever issued.  (Variant: the session is *)
(* read before the user row is locked.)                                     *)
BeginRefresh(c) ==
  /\ \E t \in Token : Begin(c, [op |-> "refresh", pc |-> "lock", token |-> t, saw |-> token[t].st])
  /\ UNCHANGED sessionVars

LockAndReadEarlier(c) ==
  /\ At(c, "refresh", "lock") /\ UserFree /\ TokensFree({reqs[c].token})
  /\ Advance(c, [reqs[c] EXCEPT !.pc = "rotate"])
  /\ UNCHANGED sessionVars

LockAndRead(c) ==
  /\ At(c, "refresh", "lock") /\ UserFree /\ TokensFree({reqs[c].token})
  /\ Advance(c, [reqs[c] EXCEPT !.pc = "rotate", !.saw = token[reqs[c].token].st])
  /\ UNCHANGED sessionVars

Rotate(c) ==
  LET t == reqs[c].token IN
  /\ At(c, "refresh", "rotate") /\ reqs[c].saw = "ACTIVE" /\ Len(token) < NumTokens
  /\ token' = Append(Marked({t}, "ROTATED"), Issue(token[t].family))
  /\ Finish(c)
  /\ UNCHANGED <<ended, attempt>>

(* A token used again, or past its time.                                    *)
Compromise(c) ==
  LET f == token[reqs[c].token].family IN
  /\ At(c, "refresh", "rotate")
  /\ token' = Marked({t \in Token : token[t].family = f}, "COMPROMISED")
  /\ ended' = ended \cup {f}
  /\ Finish(c)
  /\ UNCHANGED attempt

-----------------------------------------------------------------------------
(* Revocations: a logout ends one family; a logout everywhere, a new        *)
(* password, a change of the second factor or of a role ends all of them.   *)
BeginRevoke(c) ==
  /\ \E F \in {{f} : f \in Family} \cup {Family} :
       Begin(c, [op |-> "revoke", pc |-> "lock", families |-> F, all |-> F = Family])
  /\ UNCHANGED sessionVars

(* (Variant: the user row is not locked.)                                   *)
LockUserNot(c) == At(c, "revoke", "lock")
LockUser(c)    == At(c, "revoke", "lock") /\ UserFree

FindActive(c) ==
  LET F == IF reqs[c].all THEN Family ELSE reqs[c].families IN
  /\ LockUser(c)
  /\ Advance(c, [op |-> "revoke", pc |-> "update", families |-> F, found |-> Active(F)])
  /\ UNCHANGED sessionVars

Revoke(c) ==
  /\ At(c, "revoke", "update") /\ TokensFree(reqs[c].found)
  /\ token' = Marked({t \in reqs[c].found : token[t].st = "ACTIVE"}, "REVOKED")
  /\ ended' = ended \cup reqs[c].families
  /\ Finish(c)
  /\ UNCHANGED attempt

SessionsStep ==
  \E c \in Client :
    \/ BeginLogin(c) \/ PasswordMatches(c) \/ CreateRefreshSession(c) \/ ReadAttempt(c) \/ WriteAttempt(c)
    \/ BeginRefresh(c) \/ LockAndRead(c) \/ Rotate(c) \/ Compromise(c)
    \/ BeginRevoke(c) \/ FindActive(c) \/ Revoke(c)

SessionsNext == SessionsStep \/ \E c \in Client : Abort(c) /\ UNCHANGED sessionVars
SessionsSpec == ReqInit /\ SessionsInit /\ [][SessionsNext]_<<reqVars, sessionVars>>

-----------------------------------------------------------------------------
(* However rotations race each other, a family has one usable token.        *)
OneActivePerFamily == \A f \in Family : Cardinality(Active({f})) <= 1

(* "A logout racing a rotation must revoke the successor": of a family that *)
(* a revocation has ended, or a reuse has compromised, nothing is usable    *)
(* ever after.                                                              *)
EndedStaysEnded == Active(ended) = {}

(* Of logins that fail at once each one that finds the row is counted: a    *)
(* failure goes uncounted only where its own INSERT met the row of another. *)
FailuresCounted == attempt.n + attempt.refused = attempt.failed
=============================================================================

----------------------------- MODULE OfficeProofs -----------------------------
(* The services beside the floor, for any number of requests: sessions and  *)
(* failed logins, invoices and their lines, device commands.                *)
EXTENDS MCServices, ServicesProofs, FiniteSetTheorems, TLAPS

-----------------------------------------------------------------------------
(* Sessions.  The lock on the user row makes rotations and revocations take *)
(* turns, and that alone keeps a family to one usable token and an ended    *)
(* one unusable.                                                            *)
TokenRow == [family : Nat, st : TokenStatus]

(* Who holds the row of the user, and who is between reading and writing    *)
(* the row of failed logins.                                                *)
HoldsUser(r) == \/ r.op = "refresh" /\ r.pc = "rotate"
                \/ r.op = "revoke" /\ r.pc = "update"
Counting(r)  == r.op = "login" /\ r.pc = "count"

(* What a request has read: a rotation that saw its token active is right,  *)
(* and a revocation has found whatever is active in its families.           *)
Read(r) ==
  /\ r.op = "refresh" => r.token \in Token
  /\ r.op = "refresh" /\ r.pc = "rotate" /\ r.saw = "ACTIVE" => token[r.token].st = "ACTIVE"
  /\ r.op = "revoke" => r.families \subseteq 1..Len(token)
  /\ r.op = "revoke" /\ r.pc = "update"
       => \A t \in Token : token[t].st = "ACTIVE" /\ token[t].family \in r.families => t \in r.found

Tokens ==
  /\ reqs = [c \in Client |-> reqs[c]]
  /\ token \in Seq(TokenRow)
  /\ \A t \in Token : token[t].family \in 1..Len(token)
  /\ ended \subseteq 1..Len(token)

(* The two properties, token by token.                                      *)
Usable ==
  /\ \A t \in Token : token[t].st = "ACTIVE" => token[t].family \notin ended
  /\ \A t, u \in Token : token[t].st = "ACTIVE" /\ token[u].st = "ACTIVE"
                         /\ token[t].family = token[u].family => t = u

Turns ==
  /\ \A c \in Client : Read(reqs[c])
  /\ \A c, d \in Client : HoldsUser(reqs[c]) /\ HoldsUser(reqs[d]) => c = d

TInv == Tokens /\ Usable /\ Turns

(* The count, with the failures that met the row of another.                *)
Tally ==
  /\ attempt = [n |-> attempt.n, locked |-> attempt.locked, failed |-> attempt.failed, refused |-> attempt.refused]
  /\ attempt.n \in Nat /\ attempt.failed \in Nat /\ attempt.refused \in Nat
  /\ attempt.failed = attempt.n + attempt.refused
  /\ attempt.n = 0 => attempt.refused = 0

(* A login that found the row holds it until it has counted, and no other   *)
(* login has found it.                                                      *)
FInv ==
  /\ reqs = [c \in Client |-> reqs[c]]
  /\ Tally
  /\ \A c \in Client : Counting(reqs[c]) =>
       /\ reqs[c].saw \in Nat
       /\ reqs[c].saw > 0 => /\ reqs[c].saw = attempt.n
                             /\ \A d \in Client : Counting(reqs[d]) /\ reqs[d].saw > 0 => d = c
-----------------------------------------------------------------------------
(* What a new token does to the table, index by index.                      *)
LEMMA TokenIssued ==
  ASSUME NEW m \in Seq(TokenRow), NEW x \in TokenRow, token' = Append(m, x)
  PROVE  /\ token' \in Seq(TokenRow) /\ Len(token') = Len(m) + 1
         /\ DOMAIN m = 1..Len(m) /\ DOMAIN token' = DOMAIN m \cup {Len(m) + 1}
         /\ \A i \in DOMAIN m : token'[i] = m[i]
         /\ token'[Len(m) + 1] = x
OBVIOUS

(* Marking keeps the families.                                              *)
LEMMA MarkedRows ==
  ASSUME TInv, NEW S \in SUBSET Token, NEW st \in TokenStatus
  PROVE  /\ Marked(S, st) \in Seq(TokenRow) /\ Len(Marked(S, st)) = Len(token)
         /\ DOMAIN Marked(S, st) = Token
         /\ \A t \in Token : /\ Marked(S, st)[t].family = token[t].family
                              /\ Marked(S, st)[t].st = IF t \in S THEN st ELSE token[t].st
<1>1. Token = 1..Len(token) /\ Len(token) \in Nat /\ \A t \in Token : token[t] \in TokenRow
  BY DEF TInv, Tokens, Token
<1>2. QED
  BY <1>1 DEF Marked, TokenRow, TokenStatus

(* One active token in a family is what the property counts.                *)
LEMMA UsableSuffices == TInv => OneActivePerFamily /\ EndedStaysEnded
<1> SUFFICES ASSUME TInv PROVE OneActivePerFamily /\ EndedStaysEnded
  OBVIOUS
<1>1. EndedStaysEnded
  BY DEF EndedStaysEnded, Active, TInv, Usable
<1>2. ASSUME NEW f \in Family PROVE Cardinality(Active({f})) <= 1
  <2>1. CASE Active({f}) = {}
    BY <2>1, FS_EmptySet
  <2>2. CASE Active({f}) # {}
    <3>1. PICK t : t \in Active({f})
      BY <2>2
    <3>2. \A u \in Active({f}) : u = t
      BY <3>1 DEF Active, TInv, Usable
    <3>3. Active({f}) = {t}
      BY <3>1, <3>2
    <3>4. QED
      BY <3>3, FS_Singleton
  <2>3. QED
    BY <2>1, <2>2
<1>3. QED
  BY <1>1, <1>2 DEF OneActivePerFamily

(* A request that reads and writes nothing of the tokens.                   *)
LEMMA TokensStay ==
  ASSUME TInv, token' = token, ended' = ended, NEW c \in Client, NEW r,
         reqs' = [reqs EXCEPT ![c] = r], Read(r),
         HoldsUser(r) => \A d \in Client : HoldsUser(reqs[d]) => d = c
  PROVE  TInv'
<1>1. Tokens' /\ Usable'
  BY DEF TInv, Tokens, Usable, Token
<1>2. \A d \in Client : reqs'[d] = IF d = c THEN r ELSE reqs[d]
  BY DEF TInv, Tokens
<1>3. Turns'
  BY <1>2 DEF TInv, Turns, Read, HoldsUser, Token
<1>4. QED
  BY <1>1, <1>3 DEF TInv

(* A new token at the end: of a new family, or of one that has no usable    *)
(* token and is not ended.                                                  *)
LEMMA TokenAppended ==
  ASSUME TInv, NEW S \in SUBSET Token, NEW f \in 1..(Len(token) + 1), NEW c \in Client,
         NEW m, m = Marked(S, "ROTATED"), token' = Append(m, Issue(f)), ended' = ended,
         reqs' = [reqs EXCEPT ![c] = NoReq],
         f \notin ended,
         \A t \in Token \ S : token[t].family = f => token[t].st # "ACTIVE",
         \A d \in Client : HoldsUser(reqs[d]) => d = c \/ (f \notin 1..Len(token) /\ S = {})
  PROVE  TInv'
<1> DEFINE n == Len(token) + 1
<1>1. Token = 1..Len(token) /\ Len(token) \in Nat /\ \A t \in Token : token[t] \in TokenRow
  BY DEF TInv, Tokens, Token
<1>2. /\ m \in Seq(TokenRow) /\ Len(m) = Len(token) /\ DOMAIN m = Token
      /\ \A t \in Token : m[t].family = token[t].family
      /\ \A t \in Token : m[t].st = IF t \in S THEN "ROTATED" ELSE token[t].st
  BY MarkedRows DEF TokenStatus
<1>3. Issue(f) \in TokenRow
  BY <1>1 DEF Issue, TokenRow, TokenStatus
<1>4. /\ token' \in Seq(TokenRow) /\ Token' = Token \cup {n} /\ Len(token') = n /\ n \notin Token
      /\ \A t \in Token : token'[t] = m[t]
      /\ token'[n] = Issue(f)
  BY <1>1, <1>2, <1>3, TokenIssued DEF Token
<1>5. /\ \A t \in Token : /\ token'[t].family = token[t].family
                          /\ token'[t].st = IF t \in S THEN "ROTATED" ELSE token[t].st
      /\ token'[n].family = f /\ token'[n].st = "ACTIVE"
  BY <1>2, <1>4 DEF Issue
<1>6. Tokens'
  BY <1>1, <1>4, <1>5 DEF TInv, Tokens
<1> HIDE DEF n
<1>7. Usable'
  <2>0. Usable
    BY DEF TInv
  <2>a. ASSUME NEW t \in Token, token'[t].st = "ACTIVE"
        PROVE  /\ t \notin S /\ token[t].st = "ACTIVE" /\ token'[t].family = token[t].family
               /\ token[t].family # f
    <3>1. t \notin S /\ token[t].st = "ACTIVE" /\ token'[t].family = token[t].family
      BY <1>5, <2>a
    <3>2. QED
      BY <3>1
  <2>1. ASSUME NEW t \in Token', token'[t].st = "ACTIVE" PROVE token'[t].family \notin ended'
    <3>1. CASE t \in Token
      BY <2>0, <2>1, <2>a, <3>1 DEF Usable
    <3>2. CASE t = n
      BY <1>5, <3>2
    <3>3. QED
      BY <1>4, <3>1, <3>2
  <2>2. ASSUME NEW t \in Token', NEW u \in Token', token'[t].st = "ACTIVE", token'[u].st = "ACTIVE",
               token'[t].family = token'[u].family
        PROVE  t = u
    <3>1. CASE t \in Token /\ u \in Token
      BY <2>0, <2>2, <2>a, <3>1 DEF Usable
    <3>2. ASSUME t = n, u \in Token PROVE FALSE
      BY <1>5, <2>2, <2>a, <3>2
    <3>3. ASSUME u = n, t \in Token PROVE FALSE
      BY <1>5, <2>2, <2>a, <3>3
    <3>4. QED
      BY <1>4, <3>1, <3>2, <3>3
  <2>3. QED
    BY <2>1, <2>2 DEF Usable
<1>8. \A d \in Client : reqs'[d] = IF d = c THEN NoReq ELSE reqs[d]
  BY DEF TInv, Tokens
<1>9. ASSUME NEW d \in Client PROVE Read(reqs[d])'
  <2>1. CASE d = c
    BY <1>8, <2>1 DEF Read, NoReq
  <2>2. CASE d # c
    <3>1. Read(reqs[d]) /\ reqs'[d] = reqs[d]
      BY <1>8, <2>2 DEF TInv, Turns
    <3>2. HoldsUser(reqs[d]) => S = {} /\ f \notin 1..Len(token)
      BY <2>2
    <3>3. QED
      BY <1>1, <1>4, <1>5, <3>1, <3>2 DEF Read, HoldsUser, n
  <2>3. QED
    BY <2>1, <2>2
<1>10. \A d, e \in Client : HoldsUser(reqs'[d]) /\ HoldsUser(reqs'[e]) => d = e
  BY <1>8 DEF TInv, Turns, HoldsUser, NoReq
<1>11. QED
  BY <1>6, <1>7, <1>9, <1>10 DEF TInv, Turns, HoldsUser

(* Tokens leave ACTIVE for good; the families that end have none left.      *)
LEMMA TokensMarked ==
  ASSUME TInv, NEW S \in SUBSET Token, NEW st \in TokenStatus \ {"ACTIVE"}, NEW c \in Client,
         NEW F \in SUBSET (1..Len(token)),
         token' = Marked(S, st), ended' = ended \cup F,
         reqs' = [reqs EXCEPT ![c] = NoReq], HoldsUser(reqs[c]),
         \A t \in Token : token[t].st = "ACTIVE" /\ token[t].family \in F => t \in S
  PROVE  TInv'
<1>1. Token = 1..Len(token) /\ Len(token) \in Nat
  BY DEF TInv, Tokens, Token
<1>2. token' \in Seq(TokenRow) /\ Len(token') = Len(token) /\ Token' = Token
  BY MarkedRows DEF Token
<1>3. \A t \in Token : /\ token'[t].family = token[t].family
                       /\ token'[t].st = IF t \in S THEN st ELSE token[t].st
  BY MarkedRows
<1>4. Tokens'
  BY <1>1, <1>2, <1>3 DEF TInv, Tokens
<1>5. Usable'
  BY <1>2, <1>3 DEF TInv, Usable
<1>6. \A d \in Client : reqs'[d] = IF d = c THEN NoReq ELSE reqs[d]
  BY DEF TInv, Tokens
<1>7. ASSUME NEW d \in Client PROVE Read(reqs[d])'
  <2>1. CASE d = c
    BY <1>6, <2>1 DEF Read, NoReq
  <2>2. CASE d # c
    <3>1. Read(reqs[d]) /\ reqs'[d] = reqs[d] /\ ~HoldsUser(reqs[d])
      BY <1>6, <2>2 DEF TInv, Turns
    <3>2. QED
      BY <1>2, <3>1 DEF Read, HoldsUser
  <2>3. QED
    BY <2>1, <2>2
<1>8. \A d, e \in Client : HoldsUser(reqs'[d]) /\ HoldsUser(reqs'[e]) => d = e
  BY <1>6 DEF TInv, Turns, HoldsUser, NoReq
<1>9. QED
  BY <1>4, <1>5, <1>7, <1>8 DEF TInv, Turns, HoldsUser

-----------------------------------------------------------------------------
(* Logins, rotations and revocations keep the tokens as they must be.       *)
LEMMA SessionsKeep == TInv /\ [SessionsNext]_<<reqVars, sessionVars>> => TInv'
<1> SUFFICES ASSUME TInv, [SessionsNext]_<<reqVars, sessionVars>> PROVE TInv'
  OBVIOUS
<1>a. /\ Token = 1..Len(token) /\ Len(token) \in Nat /\ \A t \in Token : token[t] \in TokenRow
      /\ \A c \in Client : Read(reqs[c])
  BY DEF TInv, Tokens, Turns, Token
<1>1. ASSUME NEW c \in Client, BeginLogin(c) PROVE TInv'
  BY <1>1, TokensStay DEF BeginLogin, Begin, Read, HoldsUser
<1>2. ASSUME NEW c \in Client, PasswordMatches(c) PROVE TInv'
  BY <1>2, TokensStay DEF PasswordMatches, Advance, Read, HoldsUser
<1>3. ASSUME NEW c \in Client, CreateRefreshSession(c) PROVE TInv'
  <2> DEFINE f == Len(token) + 1
             m == Marked({}, "ROTATED")
  <2>1. f \in 1..(Len(token) + 1) /\ f \notin 1..Len(token) /\ f \notin ended
    BY <1>a DEF TInv, Tokens
  <2>2. m = token
    BY <1>a DEF Marked, TInv, Tokens
  <2>3. token' = Append(m, Issue(f)) /\ ended' = ended /\ reqs' = [reqs EXCEPT ![c] = NoReq]
    BY <1>3, <2>2 DEF CreateRefreshSession, Finish, Advance
  <2>4. \A t \in Token : token[t].family # f
    BY <2>1 DEF TInv, Tokens
  <2> HIDE DEF m, f
  <2>5. QED
    BY <2>1, <2>3, <2>4, TokenAppended DEF m
<1>4. ASSUME NEW c \in Client, ReadAttempt(c) PROVE TInv'
  BY <1>4, TokensStay DEF ReadAttempt, Advance, Read, HoldsUser, sessionVars
<1>5. ASSUME NEW c \in Client, WriteAttempt(c) PROVE TInv'
  BY <1>5, TokensStay DEF WriteAttempt, Finish, Advance, Read, HoldsUser, NoReq
<1>6. ASSUME NEW c \in Client, BeginRefresh(c) PROVE TInv'
  <2>1. PICK t \in Token : Begin(c, [op |-> "refresh", pc |-> "lock", token |-> t, saw |-> token[t].st])
    BY <1>6 DEF BeginRefresh
  <2>2. QED
    BY <1>6, <2>1, TokensStay DEF BeginRefresh, Begin, Read, HoldsUser, sessionVars
<1>7. ASSUME NEW c \in Client, LockAndRead(c) PROVE TInv'
  <2> DEFINE r == [reqs[c] EXCEPT !.pc = "rotate", !.saw = token[reqs[c].token].st]
  <2>1. reqs' = [reqs EXCEPT ![c] = r] /\ token' = token /\ ended' = ended
    BY <1>7 DEF LockAndRead, Advance, sessionVars
  <2>2. Read(r)
    <3>1. r.op = "refresh"
      BY <1>7 DEF LockAndRead, At
    <3>2. r.token = reqs[c].token /\ reqs[c].token \in Token
      BY <1>7, <1>a DEF LockAndRead, At, Read
    <3>3. r.saw = "ACTIVE" /\ r.pc = "rotate" => token[r.token].st = "ACTIVE"
      BY <3>2
    <3>4. QED
      BY <3>1, <3>2, <3>3 DEF Read
  <2>3. \A d \in Client : ~HoldsUser(reqs[d])
    BY <1>7 DEF LockAndRead, UserFree, Within, At, HoldsUser
  <2> HIDE DEF r
  <2>4. QED
    BY <2>1, <2>2, <2>3, TokensStay
<1>8. ASSUME NEW c \in Client, Rotate(c) PROVE TInv'
  <2> DEFINE t == reqs[c].token
             f == token[t].family
             m == Marked({t}, "ROTATED")
  <2>1. t \in Token /\ token[t].st = "ACTIVE"
    BY <1>8, <1>a DEF Rotate, At, Read
  <2>2. token' = Append(m, Issue(f)) /\ ended' = ended /\ reqs' = [reqs EXCEPT ![c] = NoReq]
    BY <1>8 DEF Rotate, Finish, Advance
  <2>3. f \in 1..(Len(token) + 1) /\ f \notin ended
    BY <1>a, <2>1 DEF TInv, Tokens, Usable
  <2>4. \A u \in Token \ {t} : token[u].family = f => token[u].st # "ACTIVE"
    BY <2>1 DEF TInv, Usable
  <2>5. \A d \in Client : HoldsUser(reqs[d]) => d = c
    BY <1>8 DEF Rotate, At, HoldsUser, TInv, Turns
  <2>6. {t} \in SUBSET Token
    BY <2>1
  <2> HIDE DEF m, f, t
  <2>7. QED
    BY <2>2, <2>3, <2>4, <2>5, <2>6, TokenAppended DEF m
<1>9. ASSUME NEW c \in Client, Compromise(c) PROVE TInv'
  <2> DEFINE f == token[reqs[c].token].family
             S == {t \in Token : token[t].family = f}
  <2>1. reqs[c].token \in Token /\ HoldsUser(reqs[c])
    BY <1>9, <1>a DEF Compromise, At, Read, HoldsUser
  <2>2. {f} \in SUBSET (1..Len(token)) /\ S \in SUBSET Token
    BY <2>1 DEF TInv, Tokens
  <2>3. /\ token' = Marked(S, "COMPROMISED") /\ ended' = ended \cup {f}
        /\ reqs' = [reqs EXCEPT ![c] = NoReq]
    BY <1>9 DEF Compromise, Finish, Advance
  <2>4. \A t \in Token : token[t].st = "ACTIVE" /\ token[t].family \in {f} => t \in S
    OBVIOUS
  <2>5. "COMPROMISED" \in TokenStatus \ {"ACTIVE"}
    BY DEF TokenStatus
  <2> HIDE DEF S, f
  <2>6. QED
    BY <2>1, <2>2, <2>3, <2>4, <2>5, TokensMarked
<1>10. ASSUME NEW c \in Client, BeginRevoke(c) PROVE TInv'
  <2>1. PICK F \in {{f} : f \in Family} \cup {Family} :
          Begin(c, [op |-> "revoke", pc |-> "lock", families |-> F, all |-> F = Family])
    BY <1>10 DEF BeginRevoke
  <2>2. F \subseteq 1..Len(token)
    BY <2>1 DEF Family, TInv, Tokens
  <2>3. QED
    BY <1>10, <2>1, <2>2, TokensStay DEF BeginRevoke, Begin, Read, HoldsUser, sessionVars
<1>11. ASSUME NEW c \in Client, FindActive(c) PROVE TInv'
  <2> DEFINE F == IF reqs[c].all THEN Family ELSE reqs[c].families
             r == [op |-> "revoke", pc |-> "update", families |-> F, found |-> Active(F)]
  <2>1. reqs' = [reqs EXCEPT ![c] = r] /\ token' = token /\ ended' = ended
    BY <1>11 DEF FindActive, Advance, sessionVars
  <2>2. F \subseteq 1..Len(token)
    BY <1>11, <1>a DEF FindActive, LockUser, At, Read, Family, TInv, Tokens
  <2>3. Read(r)
    BY <2>2 DEF Read, Active
  <2>4. \A d \in Client : ~HoldsUser(reqs[d])
    BY <1>11 DEF FindActive, LockUser, UserFree, Within, At, HoldsUser
  <2> HIDE DEF r
  <2>5. QED
    BY <2>1, <2>3, <2>4, TokensStay
<1>12. ASSUME NEW c \in Client, Revoke(c) PROVE TInv'
  <2> DEFINE F == reqs[c].families
             U == {t \in reqs[c].found : token[t].st = "ACTIVE"}
             S == U \cap Token
  <2>1. HoldsUser(reqs[c]) /\ F \in SUBSET (1..Len(token))
    BY <1>12, <1>a DEF Revoke, At, Read, HoldsUser
  <2>2. \A t \in Token : token[t].st = "ACTIVE" /\ token[t].family \in F => t \in S
    BY <1>12, <1>a DEF Revoke, At, Read
  <2>3. /\ token' = Marked(U, "REVOKED") /\ ended' = ended \cup F
        /\ reqs' = [reqs EXCEPT ![c] = NoReq]
    BY <1>12 DEF Revoke, Finish, Advance
  <2>4. "REVOKED" \in TokenStatus \ {"ACTIVE"}
    BY DEF TokenStatus
  <2>5. Marked(U, "REVOKED") = Marked(S, "REVOKED") /\ S \in SUBSET Token
    BY DEF Marked
  <2> HIDE DEF U, S, F
  <2>6. QED
    BY <2>1, <2>2, <2>3, <2>4, <2>5, TokensMarked
<1>13. ASSUME NEW c \in Client, Abort(c), UNCHANGED sessionVars PROVE TInv'
  BY <1>13, TokensStay DEF Abort, Finish, Advance, Read, HoldsUser, NoReq, sessionVars
<1>14. CASE UNCHANGED <<reqVars, sessionVars>>
  BY <1>14 DEF TInv, Tokens, Usable, Turns, Read, HoldsUser, Token, reqVars, sessionVars
<1>15. QED
  BY <1>1, <1>2, <1>3, <1>4, <1>5, <1>6, <1>7, <1>8, <1>9, <1>10, <1>11, <1>12, <1>13, <1>14
     DEF SessionsNext, SessionsStep

(* Failed logins are counted one by one.                                    *)
LEMMA CountKeeps == FInv /\ [SessionsNext]_<<reqVars, sessionVars>> => FInv'
<1> SUFFICES ASSUME FInv, [SessionsNext]_<<reqVars, sessionVars>> PROVE FInv'
  OBVIOUS
<1>1. ASSUME Tally', attempt'.n = attempt.n,
             NEW c \in Client, NEW r, reqs' = [reqs EXCEPT ![c] = r], ~Counting(r)
      PROVE  FInv'
  <2>1. \A d \in Client : reqs'[d] = IF d = c THEN r ELSE reqs[d]
    BY <1>1 DEF FInv
  <2>2. QED
    BY <1>1, <2>1 DEF FInv, Counting
<1>2. ASSUME NEW c \in Client, BeginLogin(c) PROVE FInv'
  <2> DEFINE r == [op |-> "login", pc |-> "verify"]
  <2>1. reqs' = [reqs EXCEPT ![c] = r] /\ ~Counting(r)
    BY <1>2 DEF BeginLogin, Begin, Counting
  <2>2. Tally' /\ attempt'.n = attempt.n
    BY <1>2 DEF BeginLogin, FInv, Tally
  <2> HIDE DEF r
  <2>3. QED
    BY <1>1, <2>1, <2>2
<1>3. ASSUME NEW c \in Client, PasswordMatches(c) PROVE FInv'
  <2> DEFINE r == [op |-> "login", pc |-> "session"]
  <2>1. reqs' = [reqs EXCEPT ![c] = r] /\ attempt' = NoAttempt
    BY <1>3 DEF PasswordMatches, Advance
  <2>2. \A d \in Client : reqs'[d] = IF d = c THEN r ELSE reqs[d]
    BY <2>1 DEF FInv
  <2>3. \A d \in Client : Counting(reqs'[d]) => Counting(reqs[d]) /\ reqs'[d] = reqs[d]
    BY <2>2 DEF Counting
  <2>4. \A d \in Client : Counting(reqs'[d]) => reqs'[d].saw = 0
    BY <1>3, <2>3 DEF PasswordMatches, AttemptFree, At, Counting, FInv
  <2>5. Tally'
    BY <2>1 DEF Tally, NoAttempt
  <2> HIDE DEF r
  <2>6. QED
    BY <2>1, <2>4, <2>5 DEF FInv
<1>4. ASSUME NEW c \in Client, ReadAttempt(c) PROVE FInv'
  <2> DEFINE r == [op |-> "login", pc |-> "count", saw |-> attempt.n]
  <2>1. reqs' = [reqs EXCEPT ![c] = r] /\ attempt' = attempt
    BY <1>4 DEF ReadAttempt, Advance, sessionVars
  <2>2. attempt.n > 0 => \A d \in Client : Counting(reqs[d]) => reqs[d].saw = 0
    BY <1>4 DEF ReadAttempt, AttemptFree, At, Counting, FInv
  <2>3. \A d \in Client : reqs'[d] = IF d = c THEN r ELSE reqs[d]
    BY <2>1 DEF FInv
  <2>4. Tally' /\ attempt.n \in Nat
    BY <2>1 DEF Tally, FInv
  <2>5. \A d \in Client : Counting(reqs'[d]) =>
          /\ reqs'[d].saw \in Nat
          /\ reqs'[d].saw > 0 => /\ reqs'[d].saw = attempt.n
                                 /\ \A e \in Client : Counting(reqs'[e]) /\ reqs'[e].saw > 0 => e = d
    BY <2>2, <2>3, <2>4 DEF FInv, Counting
  <2>6. QED
    BY <2>1, <2>4, <2>5 DEF FInv
<1>5. ASSUME NEW c \in Client, WriteAttempt(c) PROVE FInv'
  <2>1. Counting(reqs[c]) /\ reqs[c].saw \in Nat
    BY <1>5 DEF WriteAttempt, At, Counting, FInv
  <2>2. reqs' = [reqs EXCEPT ![c] = NoReq]
    BY <1>5 DEF WriteAttempt, Finish, Advance
  <2>3. \A d \in Client : reqs'[d] = IF d = c THEN NoReq ELSE reqs[d]
    BY <2>2 DEF FInv
  <2>4. CASE attempt' = [attempt EXCEPT !.failed = @ + 1, !.refused = @ + 1] /\ attempt.n > 0
    <3> DEFINE n == attempt.n
               locked == attempt.locked
               failed == attempt.failed
               lost == attempt.refused
    <3>1. attempt = [n |-> n, locked |-> locked, failed |-> failed, refused |-> lost]
      BY DEF FInv, Tally
    <3>2. n \in Nat /\ lost \in Nat /\ failed = n + lost /\ n > 0
      BY <2>4 DEF FInv, Tally
    <3> HIDE DEF n, locked, failed, lost
    <3>3. attempt' = [n |-> n, locked |-> locked, failed |-> failed + 1, refused |-> lost + 1]
      BY <2>4, <3>1
    <3>4. Tally' /\ attempt'.n = attempt.n
      BY <3>1, <3>2, <3>3 DEF Tally
    <3>5. QED
      BY <1>1, <2>2, <3>4 DEF NoReq, Counting
  <2>5. ASSUME NEW n \in Nat \ {0}, NEW k \in Nat, attempt' = Failed(n, n + k, k),
               \A d \in Client \ {c} : Counting(reqs[d]) => reqs[d].saw = 0
        PROVE  FInv'
    <3>1. Tally'
      BY <2>5 DEF Failed, Tally
    <3>2. \A d \in Client : Counting(reqs'[d]) => d # c /\ reqs'[d].saw = 0
      BY <2>3, <2>5 DEF NoReq, Counting
    <3>3. QED
      BY <2>2, <3>1, <3>2 DEF FInv
  <2>6. reqs[c].saw > 0 => \A d \in Client \ {c} : Counting(reqs[d]) => reqs[d].saw = 0
    BY <2>1 DEF FInv
  <2>7. CASE attempt' = Failed(reqs[c].saw + 1, attempt.failed + 1, attempt.refused)
             /\ ~(reqs[c].saw = 0 /\ attempt.n > 0)
    <3>1. reqs[c].saw = attempt.n /\ attempt.n \in Nat
      BY <2>1, <2>7 DEF FInv, Tally
    <3>2. attempt.failed + 1 = (reqs[c].saw + 1) + attempt.refused /\ attempt.refused \in Nat
      BY <3>1 DEF FInv, Tally
    <3>3. \A d \in Client \ {c} : Counting(reqs[d]) => reqs[d].saw = 0
      BY <2>6, <3>1 DEF FInv
    <3> DEFINE n == reqs[c].saw + 1
               k == attempt.refused
    <3>4. attempt' = Failed(n, n + k, k)
      BY <2>7, <3>2
    <3>5. n \in Nat \ {0} /\ k \in Nat
      BY <2>1, <3>2
    <3> HIDE DEF n, k
    <3>6. QED
      BY <2>5, <3>3, <3>4, <3>5
  <2>8. CASE attempt' = Failed(1, 1, 0) /\ reqs[c].saw > 0
    BY <2>5, <2>6, <2>8
  <2>9. QED
    BY <1>5, <2>4, <2>7, <2>8 DEF WriteAttempt
<1>6. ASSUME NEW c \in Client, attempt' = attempt,
             \/ CreateRefreshSession(c) \/ BeginRefresh(c) \/ LockAndRead(c) \/ Rotate(c) \/ Compromise(c)
             \/ BeginRevoke(c) \/ FindActive(c) \/ Revoke(c) \/ Abort(c)
      PROVE  FInv'
  <2>1. \E r : reqs' = [reqs EXCEPT ![c] = r] /\ ~Counting(r)
    <3>1. CASE CreateRefreshSession(c) \/ Rotate(c) \/ Compromise(c) \/ Revoke(c) \/ Abort(c)
      BY <3>1 DEF CreateRefreshSession, Rotate, Compromise, Revoke, Abort, Finish, Advance, NoReq, Counting
    <3>2. CASE BeginRefresh(c)
      <4>1. PICK t \in Token :
              Begin(c, [op |-> "refresh", pc |-> "lock", token |-> t, saw |-> token[t].st])
        BY <3>2 DEF BeginRefresh
      <4> DEFINE r == [op |-> "refresh", pc |-> "lock", token |-> t, saw |-> token[t].st]
      <4>2. reqs' = [reqs EXCEPT ![c] = r] /\ r.op # "login"
        BY <4>1 DEF Begin
      <4> HIDE DEF r
      <4>3. QED
        BY <4>2 DEF Counting
    <3>3. CASE LockAndRead(c)
      <4> DEFINE r == [reqs[c] EXCEPT !.pc = "rotate", !.saw = token[reqs[c].token].st]
      <4>1. reqs' = [reqs EXCEPT ![c] = r] /\ r.op # "login"
        BY <3>3 DEF LockAndRead, Advance, At
      <4> HIDE DEF r
      <4>2. QED
        BY <4>1 DEF Counting
    <3>4. CASE BeginRevoke(c)
      <4>1. PICK F : Begin(c, [op |-> "revoke", pc |-> "lock", families |-> F, all |-> F = Family])
        BY <3>4 DEF BeginRevoke
      <4> DEFINE r == [op |-> "revoke", pc |-> "lock", families |-> F, all |-> F = Family]
      <4>2. reqs' = [reqs EXCEPT ![c] = r] /\ r.op # "login"
        BY <4>1 DEF Begin
      <4> HIDE DEF r
      <4>3. QED
        BY <4>2 DEF Counting
    <3>5. CASE FindActive(c)
      <4> DEFINE F == IF reqs[c].all THEN Family ELSE reqs[c].families
                 r == [op |-> "revoke", pc |-> "update", families |-> F, found |-> Active(F)]
      <4>1. reqs' = [reqs EXCEPT ![c] = r] /\ r.op # "login"
        BY <3>5 DEF FindActive, Advance
      <4> HIDE DEF r
      <4>2. QED
        BY <4>1 DEF Counting
    <3>6. QED
      BY <1>6, <3>1, <3>2, <3>3, <3>4, <3>5
  <2>2. QED
    BY <1>1, <1>6, <2>1 DEF FInv, Tally
<1>7. CASE UNCHANGED <<reqVars, sessionVars>>
  BY <1>7 DEF FInv, Tally, Counting, reqVars, sessionVars
<1>8. CASE SessionsStep
  <2>1. PICK c \in Client :
          \/ BeginLogin(c) \/ PasswordMatches(c) \/ ReadAttempt(c) \/ WriteAttempt(c)
          \/ /\ attempt' = attempt
             /\ \/ CreateRefreshSession(c) \/ BeginRefresh(c) \/ LockAndRead(c) \/ Rotate(c)
                \/ Compromise(c) \/ BeginRevoke(c) \/ FindActive(c) \/ Revoke(c)
    BY <1>8 DEF SessionsStep, CreateRefreshSession, BeginRefresh, LockAndRead, Rotate, Compromise,
                BeginRevoke, FindActive, Revoke, sessionVars
  <2>2. QED
    BY <1>2, <1>3, <1>4, <1>5, <1>6, <2>1
<1>9. CASE \E c \in Client : Abort(c) /\ UNCHANGED sessionVars
  BY <1>6, <1>9 DEF sessionVars
<1>10. QED
  BY <1>7, <1>8, <1>9 DEF SessionsNext

(* However rotations, reuses and revocations race, a family of tokens has   *)
(* at most one that can be used.                                            *)
THEOREM OneUsableToken == SessionsSpec => []OneActivePerFamily
<1>1. ReqInit /\ SessionsInit => TInv
  BY DEF ReqInit, NoReq, SessionsInit, TInv, Tokens, Usable, Turns, Read, HoldsUser, Token
<1>2. QED
  BY <1>1, SessionsKeep, UsableSuffices, PTL DEF SessionsSpec

(* A family that a logout or the reuse of a token has ended stays ended: no *)
(* rotation under way brings a usable token back.                           *)
THEOREM LogoutIsFinal == SessionsSpec => []EndedStaysEnded
<1>1. ReqInit /\ SessionsInit => TInv
  BY DEF ReqInit, NoReq, SessionsInit, TInv, Tokens, Usable, Turns, Read, HoldsUser, Token
<1>2. QED
  BY <1>1, SessionsKeep, UsableSuffices, PTL DEF SessionsSpec

(* The count the back-off looks at holds every failed login since it was    *)
(* last cleared, but for those that found no row and whose own row was then *)
(* refused: once the row is there none is lost, whatever logins overlap.    *)
THEOREM EveryFailureCounts == SessionsSpec => []FailuresCounted
<1>1. ReqInit /\ SessionsInit => FInv
  BY DEF ReqInit, NoReq, SessionsInit, NoAttempt, FInv, Tally, Counting
<1>2. FInv => FailuresCounted
  BY DEF FInv, Tally, FailuresCounted
<1>3. QED
  BY <1>1, <1>2, CountKeeps, PTL DEF SessionsSpec

(* Tokens never outnumber the bound, families are numbers of tokens.        *)
STyped == Len(token) <= NumTokens /\ attempt.locked \in BOOLEAN

(* The rows and the users it speaks of are those the types allow.           *)
LEMMA SessionsTyped == TInv /\ FInv /\ STyped => SessionsTypeOK
<1> SUFFICES ASSUME TInv, FInv, STyped PROVE SessionsTypeOK
  OBVIOUS
<1>1. PICK rows \in Seq(TokenRow) : rows = token
  BY DEF TInv, Tokens
<1>2. Len(rows) \in Nat /\ DOMAIN rows = 1..Len(rows) /\ Len(rows) <= NumTokens
  BY <1>1, LenProperties DEF STyped
<1>3. ASSUME NEW t \in DOMAIN rows PROVE rows[t] \in [family : 1..NumTokens, st : TokenStatus]
  <2>1. rows[t] \in TokenRow
    BY <1>2, ElementOfSeq
  <2>2. rows[t].family \in 1..Len(rows)
    BY <1>1 DEF TInv, Tokens, Token
  <2>3. rows[t].family \in 1..NumTokens
    BY <1>2, <2>2, SessionConstants
  <2>4. QED
    BY <2>1, <2>3 DEF TokenRow
<1>4. rows = [t \in 1..Len(rows) |-> rows[t]]
  BY <1>2
<1>5. rows \in [1..Len(rows) -> [family : 1..NumTokens, st : TokenStatus]]
  BY <1>2, <1>3, <1>4
<1>6. rows \in Seq([family : 1..NumTokens, st : TokenStatus])
  <2>1. PICK R : R = [family : 1..NumTokens, st : TokenStatus]
    OBVIOUS
  <2>2. rows \in [1..Len(rows) -> R]
    BY <1>5, <2>1
  <2>3. rows \in Seq(R)
    BY <1>2, <2>2
  <2>4. QED
    BY <2>1, <2>3
<1>7. ended \subseteq 1..NumTokens
  BY <1>1, <1>2, SessionConstants DEF TInv, Tokens
<1>8. attempt \in [n : Nat, locked : BOOLEAN, failed : Nat, refused : Nat]
  BY DEF FInv, Tally, STyped
<1>9. QED
  BY <1>1, <1>6, <1>7, <1>8 DEF SessionsTypeOK

(* Only a login and a rotation add a token, below the bound.                *)
LEMMA SessionTypesKept ==
  TInv /\ FInv /\ STyped /\ [SessionsNext]_<<reqVars, sessionVars>> => STyped'
<1> SUFFICES ASSUME TInv, FInv, STyped, [SessionsNext]_<<reqVars, sessionVars>> PROVE STyped'
  OBVIOUS
<1>a. TInv'
  BY SessionsKeep
<1>b. PICK m, n : m = token /\ n = token' /\ m \in Seq(TokenRow) /\ n \in Seq(TokenRow)
  BY <1>a DEF TInv, Tokens
<1>c. Len(m) \in Nat /\ Len(n) \in Nat /\ DOMAIN m = 1..Len(m) /\ DOMAIN n = 1..Len(n) /\ Len(m) <= NumTokens
  BY <1>b, LenProperties DEF STyped
<1>1. Len(token') <= NumTokens
  <2>1. ASSUME DOMAIN token' = DOMAIN token PROVE Len(token') <= NumTokens
    <3>1. DOMAIN m = DOMAIN n
      BY <1>b, <2>1
    <3>2. 1..Len(m) = 1..Len(n)
      BY <1>c, <3>1, Zenon
    <3>3. ASSUME NEW i \in Nat, NEW j \in Nat, 1..i = 1..j PROVE i = j
      BY <3>3
    <3>4. Len(m) = Len(n)
      BY <1>c, <3>2, <3>3, Zenon
    <3>5. QED
      BY <1>b, <1>c, <3>4
  <2>2. ASSUME Len(token) < NumTokens, NEW p \in Seq(TokenRow), Len(p) = Len(token), NEW x \in TokenRow,
               token' = Append(p, x)
        PROVE  Len(token') <= NumTokens
    <3>1. Len(token') = Len(p) + 1
      BY <2>2, AppendProperties
    <3>2. QED
      BY <1>b, <1>c, <2>2, <3>1, SessionConstants
  <2>3. ASSUME NEW c \in Client, CreateRefreshSession(c) PROVE Len(token') <= NumTokens
    <3>1. Issue(Len(m) + 1) \in TokenRow
      BY <1>c DEF Issue, TokenRow, TokenStatus
    <3>2. token' = Append(m, Issue(Len(m) + 1)) /\ Len(token) < NumTokens
      BY <1>b, <2>3 DEF CreateRefreshSession
    <3>3. QED
      BY <1>b, <2>2, <3>1, <3>2
  <2>4. ASSUME NEW c \in Client, Rotate(c) PROVE Len(token') <= NumTokens
    <3>1. PICK t : t = reqs[c].token
      OBVIOUS
    <3>2. t \in Token
      BY <2>4, <3>1 DEF Rotate, At, TInv, Turns, Read
    <3>3. PICK p : p = Marked({t}, "ROTATED")
      OBVIOUS
    <3>4. p \in Seq(TokenRow) /\ Len(p) = Len(token)
      BY <3>2, <3>3, MarkedRows DEF TokenStatus
    <3>5. PICK f \in Nat : f = token[t].family
      BY <1>b, <1>c, <3>2 DEF TInv, Tokens
    <3>6. Issue(f) \in TokenRow
      BY DEF Issue, TokenRow, TokenStatus
    <3>7. token' = Append(p, Issue(f)) /\ Len(token) < NumTokens
      BY <2>4, <3>1, <3>3, <3>5 DEF Rotate
    <3>8. QED
      BY <2>2, <3>4, <3>6, <3>7
  <2>5. ASSUME NEW c \in Client, Compromise(c) \/ Revoke(c) PROVE Len(token') <= NumTokens
    <3>1. PICK S, st : token' = Marked(S, st)
      BY <2>5 DEF Compromise, Revoke
    <3>2. DOMAIN token' = DOMAIN token
      BY <3>1 DEF Marked, Token
    <3>3. QED
      BY <2>1, <3>2
  <2>6. ASSUME UNCHANGED token PROVE Len(token') <= NumTokens
    BY <2>6 DEF STyped
  <2>7. QED
    BY <2>3, <2>4, <2>5, <2>6, Zenon
       DEF SessionsNext, SessionsStep, BeginLogin, PasswordMatches, ReadAttempt, WriteAttempt, BeginRefresh,
           LockAndRead, BeginRevoke, FindActive, sessionVars
<1>2. attempt'.locked \in BOOLEAN
  <2>1. ASSUME NEW c \in Client, BeginLogin(c) PROVE attempt'.locked \in BOOLEAN
    BY <2>1 DEF BeginLogin, FInv, Tally, STyped
  <2>2. ASSUME NEW c \in Client, PasswordMatches(c) PROVE attempt'.locked \in BOOLEAN
    BY <2>2 DEF PasswordMatches, NoAttempt
  <2>3. ASSUME NEW c \in Client, WriteAttempt(c) PROVE attempt'.locked \in BOOLEAN
    <3>1. \/ attempt' = [attempt EXCEPT !.failed = @ + 1, !.refused = @ + 1]
          \/ \E k, f, j : attempt' = Failed(k, f, j)
      BY <2>3, Zenon DEF WriteAttempt
    <3>2. ASSUME NEW k, NEW f, NEW j, attempt' = Failed(k, f, j) PROVE attempt'.locked \in BOOLEAN
      <4>1. attempt'.locked = (k >= Threshold)
        BY <3>2 DEF Failed
      <4>2. (k >= Threshold) \in BOOLEAN
        OBVIOUS
      <4>3. QED
        BY <4>1, <4>2
    <3>3. CASE attempt' = [attempt EXCEPT !.failed = @ + 1, !.refused = @ + 1]
      BY <3>3 DEF FInv, Tally, STyped
    <3>4. QED
      BY <3>1, <3>2, <3>3
  <2>4. ASSUME UNCHANGED attempt PROVE attempt'.locked \in BOOLEAN
    BY <2>4 DEF STyped
  <2>5. QED
    BY <2>1, <2>2, <2>3, <2>4, Zenon
       DEF SessionsNext, SessionsStep, CreateRefreshSession, ReadAttempt, BeginRefresh, LockAndRead, Rotate,
           Compromise, BeginRevoke, FindActive, Revoke, sessionVars
<1>3. QED
  BY <1>1, <1>2 DEF STyped

(* No token, no failure.                                                    *)
LEMMA SessionsFirst == ReqInit /\ SessionsInit => TInv /\ FInv /\ STyped
<1> SUFFICES ASSUME ReqInit, SessionsInit PROVE TInv /\ FInv /\ STyped
  OBVIOUS
<1>1. TInv
  BY DEF ReqInit, NoReq, SessionsInit, TInv, Tokens, Usable, Turns, Read, HoldsUser, Token
<1>2. FInv
  BY DEF ReqInit, NoReq, SessionsInit, NoAttempt, FInv, Tally, Counting
<1>3. STyped
  BY SessionConstants DEF SessionsInit, STyped, NoAttempt
<1>4. QED
  BY <1>1, <1>2, <1>3

(* Tokens, ended families and the row of failed logins are well formed.     *)
THEOREM SessionsTypeCorrect == SessionsSpec => []SessionsTypeOK
  BY SessionsFirst, SessionsKeep, CountKeeps, SessionTypesKept, SessionsTyped, PTL DEF SessionsSpec

-----------------------------------------------------------------------------
(* Billing.  The unique index on the lines is enough to charge an event     *)
(* once, although no operation locks what it has read.                      *)
InvoiceRow == [st : InvoiceStatus, no : Nat, billed : SUBSET BillingEvent,
               links : SUBSET BillingEvent, revived : BOOLEAN, credited : SUBSET BillingEvent]

(* What a request in progress has read: an invoice it names is there, and a *)
(* credit note was begun on one that is no draft any more.                  *)
Held(r) ==
  /\ r.op = "voidEvent" => r.event \in BillingEvent
  /\ r.op = "invoice" => r.events \subseteq BillingEvent /\ r.final \in BOOLEAN
  /\ r.op = "invoice" /\ r.pc = "commit" => r.saw \in Nat /\ r.asked \in Nat
  /\ r.op \in {"invoiceFinal", "invoiceVoid"} => r.events \subseteq BillingEvent /\ r.invoice \in Invoice
  /\ r.op = "creditNote" => /\ r.events \subseteq BillingEvent
                            /\ r.invoice \in Invoice /\ invoice[r.invoice].st # "DRAFT"

Rows ==
  /\ reqs = [c \in Client |-> reqs[c]]
  /\ bevent \in [BillingEvent -> BeventStatus \cup {"NONE"}]
  /\ nextNo \in Nat
  /\ invoice \in Seq(InvoiceRow)

(* The strengthening: an invoice that was never voided still holds its      *)
(* lines, and no event has lines on two invoices.                           *)
Lines ==
  /\ \A i \in Invoice : /\ invoice[i].links \subseteq invoice[i].billed
                        /\ ~invoice[i].revived /\ invoice[i].st # "VOIDED"
                             => invoice[i].links = invoice[i].billed
                        /\ invoice[i].credited # {} => invoice[i].st # "DRAFT"
  /\ \A i, j \in Invoice : i # j => invoice[i].links \cap invoice[j].links = {}

BInv == Rows /\ Lines /\ \A c \in Client : Held(reqs[c])
-----------------------------------------------------------------------------
(* The strengthening says what the two properties say.                      *)
LEMMA StrengtheningSuffices == BInv => BillingTypeOK /\ BilledOnce
<1> SUFFICES ASSUME BInv PROVE BillingTypeOK /\ BilledOnce
  OBVIOUS
<1>1. BillingTypeOK
  <2>1. \A i \in Invoice : invoice[i] \in InvoiceRow
    BY DEF BInv, Rows, Invoice
  <2>2. QED
    BY <2>1 DEF BInv, Rows, Lines, BillingTypeOK, InvoiceRow
<1>2. BilledOnce
  BY DEF BInv, Lines, BilledOnce
<1>3. QED
  BY <1>1, <1>2

(* A row read by its id has the columns of an invoice.                      *)
LEMMA RowTyped ==
  ASSUME BInv, NEW i \in Invoice
  PROVE  invoice[i] \in InvoiceRow /\ invoice[i].links \subseteq BillingEvent
<1>1. invoice[i] \in InvoiceRow
  BY DEF BInv, Rows, Invoice
<1>2. QED
  BY <1>1 DEF InvoiceRow

(* Nothing is billed at first.                                              *)
LEMMA BillingStarts == ReqInit /\ BillingInit => BInv
<1> SUFFICES ASSUME ReqInit, BillingInit PROVE BInv
  OBVIOUS
<1>1. \A c \in Client : Held(reqs[c])
  BY DEF ReqInit, NoReq, Held
<1>2. QED
  BY <1>1 DEF ReqInit, BillingInit, BInv, Rows, Lines, Invoice

(* A request that changes no row keeps them all well formed.                *)
LEMMA RequestsStep ==
  ASSUME BInv, UNCHANGED billingVars, NEW c \in Client, NEW r, Held(r),
         reqs' = [reqs EXCEPT ![c] = r]
  PROVE  BInv'
<1>1. Rows' /\ Lines'
  BY DEF BInv, Rows, Lines, Invoice, billingVars
<1>2. \A d \in Client : Held(reqs[d])'
  BY DEF BInv, Rows, Held, Invoice, billingVars
<1>3. QED
  BY <1>1, <1>2 DEF BInv

(* Events change by type: whichever set gets whatever status.               *)
LEMMA SetEventsTyped ==
  ASSUME BInv, NEW S, NEW st \in BeventStatus
  PROVE  SetEvents(S, st) \in [BillingEvent -> BeventStatus \cup {"NONE"}]
BY DEF SetEvents, BInv, Rows

(* Existing invoices may change their status, lose lines and be credited;   *)
(* what is in progress still fits when no invoice turns into a draft.       *)
LEMMA HeldStays ==
  ASSUME BInv, NEW c \in Client, reqs' = [reqs EXCEPT ![c] = NoReq],
         Invoice \subseteq Invoice',
         \A i \in Invoice : invoice[i].st # "DRAFT" => invoice'[i].st # "DRAFT"
  PROVE  \A d \in Client : Held(reqs[d])'
<1> SUFFICES ASSUME NEW d \in Client PROVE Held(reqs[d])'
  OBVIOUS
<1>1. CASE d = c
  BY <1>1 DEF BInv, Rows, Held, NoReq
<1>2. CASE d # c
  <2>1. reqs'[d] = reqs[d] /\ Held(reqs[d])
    BY <1>2 DEF BInv, Rows
  <2>2. QED
    BY <2>1 DEF Held
<1>3. QED
  BY <1>1, <1>2

-----------------------------------------------------------------------------
(* The unique index: a new invoice takes no event that has a line already.  *)
LEMMA InsertKeeps ==
  ASSUME BInv, NEW c \in Client, InsertInvoice(c)
  PROVE  BInv'
<1> DEFINE r == reqs[c]
           n == Number(r)
           x == NewInvoice(r, n)
<1>1. r.events \subseteq BillingEvent /\ r.final \in BOOLEAN /\ n \in Nat
  BY DEF InsertInvoice, At, BInv, Held, Number
<1>2. x \in InvoiceRow
  BY <1>1 DEF NewInvoice, InvoiceRow, InvoiceStatus
<1>3. invoice' = Append(invoice, x) /\ r.events \cap Linked = {}
  BY DEF InsertInvoice, LineFree
<1>4. /\ invoice' \in Seq(InvoiceRow) /\ Invoice' = Invoice \cup {Len(invoice) + 1}
      /\ Len(invoice) + 1 \notin Invoice
      /\ \A i \in Invoice : invoice'[i] = invoice[i]
      /\ invoice'[Len(invoice) + 1] = x
  <2> DEFINE s == invoice
  <2> HIDE DEF x
  <2>1. s \in Seq(InvoiceRow)
    BY DEF BInv, Rows
  <2>2. QED
    BY <1>2, <1>3, <2>1 DEF Invoice
<1>5. Rows'
  <2>1. bevent' \in [BillingEvent -> BeventStatus \cup {"NONE"}]
    BY SetEventsTyped DEF InsertInvoice, BInv, Rows, BeventStatus
  <2>2. nextNo' \in Nat
    BY DEF InsertInvoice, BInv, Rows
  <2>3. reqs' = [d \in Client |-> reqs'[d]]
    BY DEF InsertInvoice, Finish, Advance, BInv, Rows
  <2>4. QED
    BY <1>4, <2>1, <2>2, <2>3 DEF Rows
<1>6. x.links = r.events /\ x.billed = r.events /\ x.credited = {}
  BY DEF NewInvoice
<1>7. Lines'
  <2> HIDE DEF x, r
  <2>1. \A i \in Invoice : invoice[i].links \cap x.links = {}
    BY <1>3, <1>6 DEF Linked
  <2>2. QED
    BY <1>4, <1>6, <2>1 DEF Lines, BInv
<1>8. \A d \in Client : Held(reqs[d])'
  BY <1>4, HeldStays DEF InsertInvoice, Finish, Advance
<1>9. QED
  BY <1>5, <1>7, <1>8 DEF BInv

(* A write to one invoice by its id that adds no line.                      *)
LEMMA UpdateKeeps ==
  ASSUME BInv, NEW c \in Client, reqs' = [reqs EXCEPT ![c] = NoReq],
         NEW i \in Invoice, NEW y \in InvoiceRow, invoice' = [invoice EXCEPT ![i] = y],
         bevent' \in [BillingEvent -> BeventStatus \cup {"NONE"}], nextNo' = nextNo,
         y.links \subseteq invoice[i].links, y.links \subseteq y.billed,
         ~y.revived /\ y.st # "VOIDED" => y.links = y.billed,
         y.credited # {} \/ invoice[i].st # "DRAFT" => y.st # "DRAFT"
  PROVE  BInv'
<1>1. /\ invoice' \in Seq(InvoiceRow) /\ Invoice' = Invoice
      /\ \A j \in Invoice : invoice'[j] = IF j = i THEN y ELSE invoice[j]
  <2>1. invoice \in Seq(InvoiceRow) /\ i \in 1..Len(invoice)
    BY DEF BInv, Rows, Invoice
  <2>2. QED
    BY <2>1 DEF Invoice
<1>2. Rows'
  BY <1>1 DEF BInv, Rows
<1>3. Lines'
  BY <1>1 DEF BInv, Lines
<1>4. \A d \in Client : Held(reqs[d])'
  BY <1>1, HeldStays
<1>5. QED
  BY <1>2, <1>3, <1>4 DEF BInv

-----------------------------------------------------------------------------
(* Every operation of the service keeps the strengthening.                  *)
LEMMA BillingKeeps == BInv /\ [BillingNext]_<<reqVars, billingVars>> => BInv'
<1> SUFFICES ASSUME BInv, [BillingNext]_<<reqVars, billingVars>> PROVE BInv'
  OBVIOUS
<1>1. ASSUME UpsertEvents PROVE BInv'
  <2>1. bevent' \in [BillingEvent -> BeventStatus \cup {"NONE"}]
    <3>1. CASE \E e \in BillingEvent, st \in BeventStatus : bevent' = SetEvents({e}, st)
      BY <3>1, SetEventsTyped
    <3>2. CASE \E S \in SUBSET BillingEvent : bevent' = SetEvents(S, "BILLABLE")
      BY <3>2, SetEventsTyped DEF BeventStatus
    <3>3. CASE \E S \in SUBSET BillingEvent :
                 bevent' = SetEvents({e \in S : bevent[e] = "NONE"}, "PENDING")
      <4>1. PICK S \in SUBSET BillingEvent :
               bevent' = SetEvents({e \in S : bevent[e] = "NONE"}, "PENDING")
        BY <3>3
      <4> DEFINE U == {e \in S : bevent[e] = "NONE"}
      <4>2. bevent' = SetEvents(U, "PENDING") /\ "PENDING" \in BeventStatus
        BY <4>1 DEF BeventStatus
      <4> HIDE DEF U
      <4>3. QED
        BY <4>2, SetEventsTyped
    <3>4. QED
      BY <1>1, <3>1, <3>2, <3>3 DEF UpsertEvents
  <2>2. reqs' = reqs /\ invoice' = invoice /\ nextNo' = nextNo
    BY <1>1 DEF UpsertEvents, Once
  <2>3. QED
    BY <2>1, <2>2 DEF BInv, Rows, Lines, Held, Invoice
<1>2. ASSUME NEW c \in Client, BeginVoidEvent(c) PROVE BInv'
  <2>1. PICK e \in BillingEvent : Begin(c, [op |-> "voidEvent", pc |-> "commit", event |-> e])
    BY <1>2 DEF BeginVoidEvent
  <2>2. QED
    BY <1>2, <2>1, RequestsStep DEF BeginVoidEvent, Begin, Held
<1>3. ASSUME NEW c \in Client, VoidEvent(c) PROVE BInv'
  <2>1. bevent' \in [BillingEvent -> BeventStatus \cup {"NONE"}]
    BY <1>3, SetEventsTyped DEF VoidEvent, BeventStatus
  <2>2. reqs' = [reqs EXCEPT ![c] = NoReq] /\ invoice' = invoice /\ nextNo' = nextNo
    BY <1>3 DEF VoidEvent, Finish, Advance
  <2>3. \A d \in Client : Held(reqs[d])'
    BY <2>2, HeldStays DEF Invoice
  <2>4. QED
    BY <2>1, <2>2, <2>3 DEF BInv, Rows, Lines, Invoice
<1>4. ASSUME NEW c \in Client, BeginInvoice(c) PROVE BInv'
  <2>1. PICK S \in SUBSET (BillingEvent \ Linked), final \in BOOLEAN :
          Begin(c, [op |-> "invoice", pc |-> "number", events |-> S, final |-> final])
    BY <1>4 DEF BeginInvoice
  <2>2. QED
    BY <1>4, <2>1, RequestsStep DEF BeginInvoice, Begin, Held
<1>5. ASSUME NEW c \in Client, ReadSequence(c) PROVE BInv'
  <2>1. PICK asked \in Nat :
          Advance(c, [op |-> "invoice", pc |-> "commit", events |-> reqs[c].events,
                      final |-> reqs[c].final, asked |-> asked, saw |-> nextNo])
    BY <1>5 DEF ReadSequence
  <2> DEFINE r == [op |-> "invoice", pc |-> "commit", events |-> reqs[c].events,
                   final |-> reqs[c].final, asked |-> asked, saw |-> nextNo]
  <2>2. Held(r)
    BY <1>5 DEF ReadSequence, At, BInv, Rows, Held
  <2>3. QED
    BY <1>5, <2>1, <2>2, RequestsStep DEF ReadSequence, Advance
<1>6. ASSUME NEW c \in Client, InsertInvoice(c) PROVE BInv'
  BY <1>6, InsertKeeps
<1>7. ASSUME NEW c \in Client, BeginFinalize(c) PROVE BInv'
  <2>1. PICK i \in Invoice : Begin(c, [op |-> "invoiceFinal", pc |-> "commit", invoice |-> i,
                                       events |-> invoice[i].links])
    BY <1>7 DEF BeginFinalize
  <2>2. invoice[i].links \subseteq BillingEvent
    BY RowTyped
  <2>3. QED
    BY <1>7, <2>1, <2>2, RequestsStep DEF BeginFinalize, Begin, Held
<1>8. ASSUME NEW c \in Client, Finalize(c) PROVE BInv'
  <2> DEFINE i == reqs[c].invoice
             y == [invoice[i] EXCEPT !.st = "FINALIZED", !.revived = @ \/ invoice[i].st = "VOIDED"]
  <2>1. i \in Invoice /\ reqs[c].events \subseteq BillingEvent
    BY <1>8 DEF Finalize, At, BInv, Held
  <2>2. invoice[i] \in InvoiceRow
    BY <2>1, RowTyped
  <2>3. y \in InvoiceRow
    BY <2>2 DEF InvoiceRow, InvoiceStatus
  <2>4. invoice' = [invoice EXCEPT ![i] = y]
    BY <1>8, <2>1, <2>2 DEF Finalize, InvoiceRow
  <2>5. bevent' \in [BillingEvent -> BeventStatus \cup {"NONE"}] /\ nextNo' = nextNo
    BY <1>8, SetEventsTyped DEF Finalize, BeventStatus
  <2>6. /\ y.links = invoice[i].links /\ y.billed = invoice[i].billed /\ y.st = "FINALIZED"
        /\ ~y.revived => ~invoice[i].revived /\ invoice[i].st # "VOIDED"
    BY <2>2 DEF InvoiceRow
  <2>7. /\ y.links \subseteq y.billed
        /\ ~y.revived => y.links = y.billed
    BY <2>1, <2>6 DEF BInv, Lines
  <2>8. reqs' = [reqs EXCEPT ![c] = NoReq]
    BY <1>8 DEF Finalize, Finish, Advance
  <2> HIDE DEF i, y
  <2>9. QED
    BY <2>1, <2>3, <2>4, <2>5, <2>6, <2>7, <2>8, UpdateKeeps
<1>9. ASSUME NEW c \in Client, BeginVoidInvoice(c) PROVE BInv'
  <2>1. PICK i \in Invoice : Begin(c, [op |-> "invoiceVoid", pc |-> "commit", invoice |-> i,
                                       events |-> invoice[i].links])
    BY <1>9 DEF BeginVoidInvoice
  <2>2. invoice[i].links \subseteq BillingEvent
    BY RowTyped
  <2>3. QED
    BY <1>9, <2>1, <2>2, RequestsStep DEF BeginVoidInvoice, Begin, Held
<1>10. ASSUME NEW c \in Client, VoidInvoice(c) PROVE BInv'
  <2> DEFINE i == reqs[c].invoice
             y == [invoice[i] EXCEPT !.st = "VOIDED", !.links = @ \ reqs[c].events]
  <2>1. i \in Invoice /\ reqs[c].events \subseteq BillingEvent
    BY <1>10 DEF VoidInvoice, At, BInv, Held
  <2>2. invoice[i] \in InvoiceRow
    BY <2>1, RowTyped
  <2>3. y \in InvoiceRow
    BY <2>2 DEF InvoiceRow, InvoiceStatus
  <2>4. invoice' = [invoice EXCEPT ![i] = y]
    BY <1>10, <2>1, <2>2 DEF VoidInvoice, InvoiceRow
  <2>5. bevent' \in [BillingEvent -> BeventStatus \cup {"NONE"}] /\ nextNo' = nextNo
    BY <1>10, SetEventsTyped DEF VoidInvoice, BeventStatus
  <2>6. y.links \subseteq invoice[i].links /\ y.billed = invoice[i].billed /\ y.st = "VOIDED"
    BY <2>2 DEF InvoiceRow
  <2>7. y.links \subseteq y.billed
    BY <2>1, <2>6 DEF BInv, Lines
  <2>8. reqs' = [reqs EXCEPT ![c] = NoReq]
    BY <1>10 DEF VoidInvoice, Finish, Advance
  <2> HIDE DEF i, y
  <2>9. QED
    BY <2>1, <2>3, <2>4, <2>5, <2>6, <2>7, <2>8, UpdateKeeps
<1>11. ASSUME NEW c \in Client, BeginCredit(c) PROVE BInv'
  <2>1. PICK i \in Invoice, S \in SUBSET BillingEvent :
          /\ invoice[i].st = "FINALIZED" /\ S \subseteq invoice[i].billed
          /\ Begin(c, [op |-> "creditNote", pc |-> "commit", invoice |-> i, events |-> S])
    BY <1>11 DEF BeginCredit
  <2>2. QED
    BY <1>11, <2>1, RequestsStep DEF BeginCredit, Begin, Held
<1>12. ASSUME NEW c \in Client, CreateCreditNote(c) PROVE BInv'
  <2> DEFINE i == reqs[c].invoice
             y == [invoice[i] EXCEPT !.credited = @ \cup reqs[c].events]
  <2>1. i \in Invoice /\ reqs[c].events \subseteq BillingEvent /\ invoice[i].st # "DRAFT"
    BY <1>12 DEF CreateCreditNote, At, BInv, Held
  <2>2. invoice[i] \in InvoiceRow
    BY <2>1, RowTyped
  <2>3. y \in InvoiceRow
    BY <2>1, <2>2 DEF InvoiceRow
  <2>4. invoice' = [invoice EXCEPT ![i] = y]
    BY <1>12, <2>1, <2>2 DEF CreateCreditNote, InvoiceRow
  <2>5. /\ y.links = invoice[i].links /\ y.billed = invoice[i].billed
        /\ y.st = invoice[i].st /\ y.revived = invoice[i].revived
    BY <2>2 DEF InvoiceRow
  <2>6. /\ y.links \subseteq y.billed
        /\ ~y.revived /\ y.st # "VOIDED" => y.links = y.billed
    BY <2>1, <2>5 DEF BInv, Lines
  <2>7. /\ reqs' = [reqs EXCEPT ![c] = NoReq] /\ nextNo' = nextNo
        /\ bevent' \in [BillingEvent -> BeventStatus \cup {"NONE"}]
    BY <1>12 DEF CreateCreditNote, Finish, Advance, BInv, Rows
  <2> HIDE DEF i, y
  <2>8. QED
    BY <2>1, <2>3, <2>4, <2>5, <2>6, <2>7, UpdateKeeps
<1>13. ASSUME NEW c \in Client, Abort(c), UNCHANGED billingVars PROVE BInv'
  BY <1>13, RequestsStep DEF Abort, Finish, Advance, Held, NoReq
<1>14. CASE UNCHANGED <<reqVars, billingVars>>
  BY <1>14 DEF BInv, Rows, Lines, Held, Invoice, reqVars, billingVars
<1>15. QED
  BY <1>1, <1>2, <1>3, <1>4, <1>5, <1>6, <1>7, <1>8, <1>9, <1>10, <1>11, <1>12, <1>13, <1>14
     DEF BillingNext, BillingStep

(* Billing keeps its types.                                                 *)
THEOREM BillingTypeCorrect == BillingSpec => []BillingTypeOK
<1>1. BillingSpec => []BInv
  BY BillingStarts, BillingKeeps, PTL DEF BillingSpec
<1>2. QED
  BY <1>1, StrengtheningSuffices, PTL

(* Two final invoices charge one event only if a finalization revived one   *)
(* of them: it was under way while the invoice was voided, and neither      *)
(* looked again.  Whatever else overlaps, an event is charged once.         *)
THEOREM ChargedOnce == BillingSpec => []BilledOnce
<1>1. BillingSpec => []BInv
  BY BillingStarts, BillingKeeps, PTL DEF BillingSpec
<1>2. QED
  BY <1>1, StrengtheningSuffices, PTL

-----------------------------------------------------------------------------
(* Device commands.  However answers overtake claims and each other, a      *)
(* command is handed out once more only for every failure reported.         *)
CommandRow == [st : CommandStatus \cup {"NONE"}, attempts : Nat, failures : Nat]

(* The strengthening: a command that may be claimed has a failure for every *)
(* claim so far, and an answer in progress is for a command.                *)
CInv ==
  /\ reqs = [c \in Client |-> reqs[c]]
  /\ command \in [Command -> CommandRow]
  /\ \A c \in Client : reqs[c].op = "answer" => reqs[c].command \in Command
  /\ \A c \in Client : reqs[c].op = "answer" => reqs[c].to \in {"COMPLETED", "FAILED"}
  /\ ClaimsFollowFailures
  /\ \A m \in Command : command[m].st \in {"NONE", "QUEUED", "FAILED"}
                           => command[m].attempts <= command[m].failures
-----------------------------------------------------------------------------
(* A step that leaves commands alone may begin, move on or end a request.   *)
LEMMA OtherRequests ==
  ASSUME CInv, command' = command, NEW c \in Client, NEW r, reqs' = [reqs EXCEPT ![c] = r],
         r.op = "answer" => r.command \in Command /\ r.to \in {"COMPLETED", "FAILED"}
  PROVE  CInv'
BY DEF CInv, ClaimsFollowFailures

(* A write to one command by its id.                                        *)
LEMMA CommandWritten ==
  ASSUME CInv, NEW m \in Command, NEW y \in CommandRow, command' = [command EXCEPT ![m] = y],
         y.attempts <= y.failures + 1,
         y.st \in {"NONE", "QUEUED", "FAILED"} => y.attempts <= y.failures,
         \/ reqs' = reqs
         \/ \E c \in Client : reqs' = [reqs EXCEPT ![c] = NoReq]
  PROVE  CInv'
<1>1. command' \in [Command -> CommandRow]
  BY DEF CInv
<1>2. ClaimsFollowFailures' /\ \A k \in Command : command'[k].st \in {"NONE", "QUEUED", "FAILED"}
                                   => command'[k].attempts <= command'[k].failures
  BY DEF CInv, ClaimsFollowFailures
<1>3. /\ reqs' = [c \in Client |-> reqs'[c]]
      /\ \A c \in Client : reqs'[c].op = "answer"
                             => reqs'[c].command \in Command /\ reqs'[c].to \in {"COMPLETED", "FAILED"}
  BY DEF CInv, NoReq
<1>4. QED
  BY <1>1, <1>2, <1>3 DEF CInv

(* The five operations on commands, and the rest of the service.            *)
LEMMA EnterpriseKeeps == CInv /\ [EnterpriseNext]_<<reqVars, enterpriseVars>> => CInv'
<1> SUFFICES ASSUME CInv, [EnterpriseNext]_<<reqVars, enterpriseVars>> PROVE CInv'
  OBVIOUS
<1>1. ASSUME EnqueueCommand PROVE CInv'
  <2>1. PICK m \in Command : command' = [command EXCEPT ![m] = Requeued(command[m])]
    BY <1>1 DEF EnqueueCommand
  <2> DEFINE y == Requeued(command[m])
  <2>2. command[m] \in CommandRow
    BY DEF CInv
  <2>3. /\ y \in CommandRow /\ y.attempts = command[m].attempts /\ y.failures = command[m].failures
        /\ y.st \in {"NONE", "QUEUED", "FAILED"} => command[m].st \in {"NONE", "QUEUED", "FAILED"}
    BY <2>2 DEF Requeued, CommandRow, CommandStatus
  <2>4. reqs' = reqs
    BY <1>1 DEF EnqueueCommand, Once
  <2> HIDE DEF y
  <2>5. QED
    BY <2>1, <2>3, <2>4, CommandWritten DEF CInv, ClaimsFollowFailures, y
<1>2. ASSUME ClaimNext PROVE CInv'
  <2>1. PICK m \in Command :
          /\ command[m].st \in {"QUEUED", "FAILED"}
          /\ command' = [command EXCEPT ![m].st = "CLAIMED", ![m].attempts = @ + 1]
    BY <1>2 DEF ClaimNext
  <2> DEFINE y == [st |-> "CLAIMED", attempts |-> command[m].attempts + 1,
                   failures |-> command[m].failures]
  <2>2. command[m] \in CommandRow
    BY DEF CInv
  <2>3. /\ y \in CommandRow /\ y.st = "CLAIMED"
        /\ y.attempts = command[m].attempts + 1 /\ y.failures = command[m].failures
    BY <2>2 DEF CommandRow, CommandStatus
  <2>4. command' = [command EXCEPT ![m] = y] /\ reqs' = reqs
    BY <1>2, <2>1, <2>2 DEF CommandRow, ClaimNext, Once
  <2>5. command[m].attempts <= command[m].failures /\ command[m].attempts \in Nat /\ command[m].failures \in Nat
    BY <2>1, <2>2 DEF CInv, CommandRow
  <2>6. y.attempts <= y.failures + 1
    BY <2>3, <2>5
  <2> HIDE DEF y
  <2>7. QED
    BY <2>3, <2>4, <2>6, CommandWritten
<1>3. ASSUME NEW c \in Client, BeginAnswer(c) PROVE CInv'
  <2>1. PICK m \in Command, to \in {"COMPLETED", "FAILED"} :
          Begin(c, [op |-> "answer", pc |-> "commit", command |-> m, to |-> to])
    BY <1>3 DEF BeginAnswer
  <2>2. QED
    BY <1>3, <2>1, OtherRequests DEF BeginAnswer, Begin, enterpriseVars
<1>4. ASSUME NEW c \in Client, CompleteCommand(c) PROVE CInv'
  <2> DEFINE m == reqs[c].command
             y == Answered(command[m], reqs[c].to)
  <2>1. m \in Command /\ reqs[c].to \in {"COMPLETED", "FAILED"}
    BY <1>4 DEF CompleteCommand, At, CInv
  <2>2. command[m] \in CommandRow
    BY <2>1 DEF CInv
  <2>3. /\ y \in CommandRow /\ y.st = reqs[c].to /\ y.attempts = command[m].attempts
        /\ y.failures = IF reqs[c].to = "FAILED" THEN command[m].failures + 1 ELSE command[m].failures
    BY <2>1, <2>2 DEF Answered, CommandRow, CommandStatus
  <2>4. command' = [command EXCEPT ![m] = y] /\ reqs' = [reqs EXCEPT ![c] = NoReq]
    BY <1>4 DEF CompleteCommand, Finish, Advance
  <2>5. /\ command[m].attempts <= command[m].failures + 1
        /\ command[m].attempts \in Nat /\ command[m].failures \in Nat
    BY <2>1, <2>2 DEF CInv, ClaimsFollowFailures, CommandRow
  <2>6. /\ y.attempts <= y.failures + 1
        /\ y.st \in {"NONE", "QUEUED", "FAILED"} => y.attempts <= y.failures
    BY <2>1, <2>3, <2>5
  <2> HIDE DEF m, y
  <2>7. QED
    BY <2>1, <2>3, <2>4, <2>6, CommandWritten
<1>5. ASSUME NEW c \in Client, BeginReplay(c) PROVE CInv'
  <2>1. PICK k \in DOMAIN delivery :
          Begin(c, [op |-> "replay", pc |-> "commit", key |-> k, saw |-> delivery[k]])
    BY <1>5 DEF BeginReplay
  <2>2. QED
    BY <1>5, <2>1, OtherRequests DEF BeginReplay, Begin, enterpriseVars
<1>6. ASSUME NEW c \in Client, Replay(c) PROVE CInv'
  <2>1. reqs' = [reqs EXCEPT ![c] = NoReq] /\ command' = command
    BY <1>6 DEF Replay, Finish, Advance
  <2>2. QED
    BY <2>1, OtherRequests DEF NoReq
<1>7. ASSUME NEW c \in Client, Abort(c), UNCHANGED enterpriseVars PROVE CInv'
  <2>1. reqs' = [reqs EXCEPT ![c] = NoReq] /\ command' = command
    BY <1>7 DEF Abort, Finish, Advance, enterpriseVars
  <2>2. QED
    BY <2>1, OtherRequests DEF NoReq
<1>8. ASSUME reqs' = reqs, command' = command PROVE CInv'
  BY <1>8 DEF CInv, ClaimsFollowFailures
<1>9. CASE EnterpriseStep
  <2>1. CASE \/ SetSubscription \/ CreateJob \/ FinishJob \/ ScheduleAppointment
             \/ CheckInTrailer \/ AssignDockDoor
    BY <1>8, <2>1 DEF SetSubscription, CreateJob, FinishJob, ScheduleAppointment,
                      CheckInTrailer, AssignDockDoor, Once
  <2>2. QED
    BY <1>1, <1>2, <1>3, <1>4, <1>5, <1>6, <1>9, <2>1 DEF EnterpriseStep
<1>10. QED
  BY <1>7, <1>8, <1>9 DEF EnterpriseNext, reqVars, enterpriseVars

(* A command is claimed again only after an answer that it failed, for any  *)
(* number of devices that answer late, twice or in any order.               *)
THEOREM ReclaimedForFailures == EnterpriseSpec => []ClaimsFollowFailures
<1>1. ReqInit /\ EnterpriseInit => CInv
  BY DEF ReqInit, NoReq, EnterpriseInit, NoCommand, CInv, CommandRow, ClaimsFollowFailures
<1>2. CInv => ClaimsFollowFailures
  BY DEF CInv
<1>3. QED
  BY <1>1, <1>2, EnterpriseKeeps, PTL DEF EnterpriseSpec

-----------------------------------------------------------------------------
(* Deliveries, jobs and the yard.                                           *)
VisitRow   == [st : {"NONE", "SCHEDULED", "CHECKED_IN", "DOCK_ASSIGNED"},
               door : Door \cup {NoDoor}, trailer : Trailer \cup {NoTrailer}]
TrailerRow == [st : {"NONE", "CHECKED_IN", "DOCKED"}, door : Door \cup {NoDoor}]

Delivered == DOMAIN delivery \subseteq EventKey /\ \A k \in DOMAIN delivery : delivery[k] \in Nat

ETyped ==
  /\ Delivered /\ subscribed \in BOOLEAN
  /\ job \in [Job -> {"NONE", "OPEN", "DONE"}]
  /\ visit \in [Visit -> VisitRow] /\ trailer \in [Trailer -> TrailerRow]
  /\ \A c \in Client : reqs[c].op = "replay" => reqs[c].saw \in Nat

(* The rows it speaks of are those the types allow.                         *)
LEMMA EnterpriseTyped == CInv /\ ETyped => EnterpriseTypeOK
  BY DEF CInv, ETyped, Delivered, EnterpriseTypeOK, CommandRow, VisitRow, TrailerRow

(* An event that is recorded has a key of its resource.                     *)
LEMMA Recorded ==
  ASSUME Delivered, NEW x \in Command \cup Job \cup Visit \cup Trailer,
         NEW kind \in {"queued", "completed", "failed", "created", "scheduled", "checked_in"}, Record(x, kind)
  PROVE  Delivered'
<1>1. PICK k \in EventKey : k = <<x, kind>>
  BY DEF EventKey
<1>2. PICK n \in Nat : n = EnqueueFirst(KnownAttempt(k))
  <2>1. KnownAttempt(k) \in Nat
    BY DEF KnownAttempt, Delivered
  <2>2. QED
    BY <2>1 DEF EnqueueFirst
<1>3. delivery' = [j \in DOMAIN delivery \cup {k} |-> IF j = k THEN n ELSE delivery[j]]
  BY <1>1, <1>2 DEF Record
<1>4. QED
  BY <1>3 DEF Delivered

(* Each operation writes rows of its tables, and records an event of them.  *)
LEMMA EnterpriseTypesKept ==
  CInv /\ ETyped /\ [EnterpriseNext]_<<reqVars, enterpriseVars>> => ETyped'
<1> SUFFICES ASSUME CInv, ETyped, [EnterpriseNext]_<<reqVars, enterpriseVars>> PROVE ETyped'
  OBVIOUS
<1>1. Delivered'
  <2>0. Delivered
    BY DEF ETyped
  <2>1. ASSUME NEW m \in Command, NEW kind \in {"queued", "completed", "failed"}, Record(m, kind) PROVE Delivered'
    BY <2>0, <2>1, Recorded
  <2>2. ASSUME EnqueueCommand PROVE Delivered'
    BY <2>1, <2>2 DEF EnqueueCommand
  <2>3. ASSUME NEW c \in Client, CompleteCommand(c) PROVE Delivered'
    <3>1. reqs[c].command \in Command
      BY <2>3 DEF CompleteCommand, At, CInv
    <3>2. PICK kind \in {"failed", "completed"} : Record(reqs[c].command, kind)
      BY <2>3 DEF CompleteCommand
    <3>3. QED
      BY <2>1, <3>1, <3>2
  <2>4. ASSUME CreateJob \/ FinishJob PROVE Delivered'
    <3>1. PICK j \in Job, kind \in {"created", "completed"} : Record(j, kind)
      BY <2>4 DEF CreateJob, FinishJob
    <3>2. QED
      BY <2>0, <3>1, Recorded
  <2>5. ASSUME ScheduleAppointment PROVE Delivered'
    <3>1. PICK v \in Visit : Record(v, "scheduled")
      BY <2>5 DEF ScheduleAppointment
    <3>2. QED
      BY <2>0, <3>1, Recorded
  <2>6. ASSUME CheckInTrailer PROVE Delivered'
    <3>1. PICK t \in Trailer : Record(t, "checked_in")
      BY <2>6 DEF CheckInTrailer
    <3>2. QED
      BY <2>0, <3>1, Recorded
  <2>7. ASSUME NEW c \in Client, Replay(c) PROVE Delivered'
    <3>1. PICK k : k = reqs[c].key
      OBVIOUS
    <3>2. PICK n \in Nat : n = reqs[c].saw
      BY <2>7 DEF Replay, At, ETyped
    <3>3. delivery' = [delivery EXCEPT ![k] = Max({@, n + 1})]
      BY <2>7, <3>1, <3>2 DEF Replay
    <3>4. DOMAIN delivery' = DOMAIN delivery
      BY <3>3
    <3>5. ASSUME NEW j \in DOMAIN delivery PROVE delivery'[j] \in Nat
      <4>1. CASE j = k
        <5>1. PICK a \in Nat : a = delivery[k]
          BY <2>0, <4>1 DEF Delivered
        <5>2. delivery'[j] = Max({a, n + 1})
          BY <3>3, <4>1, <5>1
        <5>3. Max({a, n + 1}) \in {a, n + 1}
          <6>1. \E x \in {a, n + 1} : \A y \in {a, n + 1} : x >= y
            BY DEF Max
          <6>2. QED
            BY <6>1 DEF Max
        <5>4. QED
          BY <5>2, <5>3
      <4>2. CASE j # k
        BY <2>0, <3>3, <4>2 DEF Delivered
      <4>3. QED
        BY <4>1, <4>2
    <3>6. QED
      BY <2>0, <3>4, <3>5 DEF Delivered
  <2>8. ASSUME UNCHANGED delivery PROVE Delivered'
    BY <2>0, <2>8 DEF Delivered
  <2>9. QED
    BY <2>2, <2>3, <2>4, <2>5, <2>6, <2>7, <2>8, Zenon
       DEF EnterpriseNext, EnterpriseStep, SetSubscription, ClaimNext, AssignDockDoor, BeginReplay, BeginAnswer,
           enterpriseVars
<1>2. subscribed' \in BOOLEAN
  <2>1. ASSUME SetSubscription PROVE subscribed' \in BOOLEAN
    BY <2>1 DEF SetSubscription
  <2>2. ASSUME UNCHANGED subscribed PROVE subscribed' \in BOOLEAN
    BY <2>2 DEF ETyped
  <2>3. QED
    BY <2>1, <2>2, Zenon
       DEF EnterpriseNext, EnterpriseStep, EnqueueCommand, ClaimNext, CreateJob, FinishJob, ScheduleAppointment,
           CheckInTrailer, AssignDockDoor, BeginReplay, Replay, BeginAnswer, CompleteCommand, enterpriseVars
<1>3. job' \in [Job -> {"NONE", "OPEN", "DONE"}]
  <2>1. ASSUME CreateJob \/ FinishJob PROVE job' \in [Job -> {"NONE", "OPEN", "DONE"}]
    BY <2>1 DEF CreateJob, FinishJob, ETyped
  <2>2. ASSUME UNCHANGED job PROVE job' \in [Job -> {"NONE", "OPEN", "DONE"}]
    BY <2>2 DEF ETyped
  <2>3. QED
    BY <2>1, <2>2, Zenon
       DEF EnterpriseNext, EnterpriseStep, SetSubscription, EnqueueCommand, ClaimNext, ScheduleAppointment,
           CheckInTrailer, AssignDockDoor, BeginReplay, Replay, BeginAnswer, CompleteCommand, enterpriseVars
<1>4. visit' \in [Visit -> VisitRow]
  <2>0. visit \in [Visit -> VisitRow]
    BY DEF ETyped
  <2>1. ASSUME ScheduleAppointment PROVE visit' \in [Visit -> VisitRow]
    <3>1. PICK v \in Visit, d \in Door \cup {NoDoor} :
            visit' = [visit EXCEPT ![v].st = IF @ = "NONE" THEN "SCHEDULED" ELSE @, ![v].door = d]
      BY <2>1 DEF ScheduleAppointment
    <3>2. PICK row \in VisitRow : row = visit[v]
      BY <2>0
    <3>3. PICK st : st = IF row.st = "NONE" THEN "SCHEDULED" ELSE row.st
      OBVIOUS
    <3>4. PICK new : new = [st |-> st, door |-> d, trailer |-> row.trailer]
      OBVIOUS
    <3>5. new \in VisitRow
      BY <3>2, <3>3, <3>4 DEF VisitRow
    <3>6. visit' = [visit EXCEPT ![v] = new]
      <4>0. PICK a, b, x : row = [st |-> a, door |-> b, trailer |-> x]
        BY <3>2 DEF VisitRow
      <4>1. [row EXCEPT !.st = st, !.door = d] = new
        <5>1. PICK mid : mid = [row EXCEPT !.st = st]
          OBVIOUS
        <5>2. mid = [st |-> st, door |-> b, trailer |-> x]
          BY <4>0, <5>1
        <5>3. [mid EXCEPT !.door = d] = new
          BY <3>4, <4>0, <5>2
        <5>4. QED
          BY <5>1, <5>3
      <4>2. visit' = [visit EXCEPT ![v] = [row EXCEPT !.st = st, !.door = d]]
        BY <2>0, <3>1, <3>2, <3>3
      <4>3. QED
        BY <4>1, <4>2
    <3>7. QED
      BY <2>0, <3>5, <3>6
  <2>2. ASSUME CheckInTrailer PROVE visit' \in [Visit -> VisitRow]
    <3>1. PICK t \in Trailer, d \in Door \cup {NoDoor}, V \in {{}} \cup {{v} : v \in Visit} :
            visit' = [v \in Visit |->
               IF v \in V THEN [st |-> "CHECKED_IN", trailer |-> t,
                                door |-> IF visit[v].door = NoDoor THEN d ELSE visit[v].door]
               ELSE visit[v]]
      BY <2>2 DEF CheckInTrailer
    <3>2. ASSUME NEW v \in Visit PROVE visit'[v] \in VisitRow
      <4>1. PICK row \in VisitRow : row = visit[v]
        BY <2>0
      <4>2. PICK door \in Door \cup {NoDoor} : door = IF row.door = NoDoor THEN d ELSE row.door
        BY DEF VisitRow
      <4>3. visit'[v] = row \/ visit'[v] = [st |-> "CHECKED_IN", trailer |-> t, door |-> door]
        BY <3>1, <4>1, <4>2
      <4>4. QED
        BY <4>3 DEF VisitRow
    <3>3. QED
      BY <3>1, <3>2
  <2>3. ASSUME AssignDockDoor PROVE visit' \in [Visit -> VisitRow]
    <3>1. PICK v \in Visit, d \in Door, T \in {{}} \cup {{t} : t \in Trailer} :
            visit' = [visit EXCEPT ![v].st = "DOCK_ASSIGNED", ![v].door = d,
                                   ![v].trailer = IF T = {} THEN @ ELSE CHOOSE t \in T : TRUE]
      BY <2>3, Zenon DEF AssignDockDoor
    <3>2. PICK row \in VisitRow : row = visit[v]
      BY <2>0
    <3>3. PICK x : x = IF T = {} THEN row.trailer ELSE CHOOSE t \in T : TRUE
      OBVIOUS
    <3>4. x \in Trailer \cup {NoTrailer}
      <4>1. CASE T = {}
        BY <3>3, <4>1 DEF VisitRow
      <4>2. CASE T # {}
        <5>1. x \in T /\ T \subseteq Trailer
          BY <3>3, <4>2
        <5>2. QED
          BY <5>1
      <4>3. QED
        BY <4>1, <4>2
    <3>5. PICK new : new = [st |-> "DOCK_ASSIGNED", door |-> d, trailer |-> x]
      OBVIOUS
    <3>6. new \in VisitRow
      BY <3>4, <3>5 DEF VisitRow
    <3>7. visit' = [visit EXCEPT ![v] = new]
      <4>1. PICK mid : mid = [row EXCEPT !.st = "DOCK_ASSIGNED", !.door = d]
        OBVIOUS
      <4>2. mid.trailer = row.trailer /\ [mid EXCEPT !.trailer = x] = new
        <5>1. PICK a, b, y : row = [st |-> a, door |-> b, trailer |-> y]
          BY <3>2 DEF VisitRow
        <5>2. mid = [st |-> "DOCK_ASSIGNED", door |-> d, trailer |-> y]
          BY <4>1, <5>1
        <5>3. QED
          BY <3>5, <5>1, <5>2
      <4>3. visit' = [visit EXCEPT ![v] = [mid EXCEPT !.trailer = IF T = {} THEN @ ELSE CHOOSE t \in T : TRUE]]
        BY <2>0, <3>1, <3>2, <4>1
      <4>4. QED
        BY <3>3, <4>2, <4>3
    <3>8. QED
      BY <2>0, <3>6, <3>7
  <2>4. ASSUME UNCHANGED visit PROVE visit' \in [Visit -> VisitRow]
    BY <2>0, <2>4
  <2>5. QED
    BY <2>1, <2>2, <2>3, <2>4, Zenon
       DEF EnterpriseNext, EnterpriseStep, SetSubscription, EnqueueCommand, ClaimNext, CreateJob, FinishJob,
           BeginReplay, Replay, BeginAnswer, CompleteCommand, enterpriseVars
<1>5. trailer' \in [Trailer -> TrailerRow]
  <2>0. trailer \in [Trailer -> TrailerRow]
    BY DEF ETyped
  <2>1. ASSUME CheckInTrailer PROVE trailer' \in [Trailer -> TrailerRow]
    <3>1. PICK t \in Trailer, d \in Door \cup {NoDoor} :
            trailer' = [trailer EXCEPT ![t].st = "CHECKED_IN", ![t].door = IF d = NoDoor THEN @ ELSE d]
      BY <2>1 DEF CheckInTrailer
    <3>2. PICK row \in TrailerRow : row = trailer[t]
      BY <2>0
    <3>3. PICK door \in Door \cup {NoDoor} : door = IF d = NoDoor THEN row.door ELSE d
      BY DEF TrailerRow
    <3>4. PICK new : new = [st |-> "CHECKED_IN", door |-> door]
      OBVIOUS
    <3>5. new \in TrailerRow
      BY <3>4 DEF TrailerRow
    <3>6. trailer' = [trailer EXCEPT ![t] = new]
      <4>1. PICK mid : mid = [row EXCEPT !.st = "CHECKED_IN"]
        OBVIOUS
      <4>2. mid.door = row.door /\ [mid EXCEPT !.door = door] = new
        <5>1. PICK a, y : row = [st |-> a, door |-> y]
          BY <3>2 DEF TrailerRow
        <5>2. mid = [st |-> "CHECKED_IN", door |-> y]
          BY <4>1, <5>1
        <5>3. QED
          BY <3>4, <5>1, <5>2
      <4>3. trailer' = [trailer EXCEPT ![t] = [mid EXCEPT !.door = IF d = NoDoor THEN @ ELSE d]]
        BY <2>0, <3>1, <3>2, <4>1
      <4>4. QED
        BY <3>3, <4>2, <4>3
    <3>7. QED
      BY <2>0, <3>5, <3>6
  <2>2. ASSUME AssignDockDoor PROVE trailer' \in [Trailer -> TrailerRow]
    <3>1. PICK d \in Door, T \in {{}} \cup {{t} : t \in Trailer} :
            trailer' = [t \in Trailer |-> IF t \in T THEN [st |-> "DOCKED", door |-> d] ELSE trailer[t]]
      BY <2>2 DEF AssignDockDoor
    <3>2. QED
      BY <2>0, <3>1 DEF TrailerRow
  <2>3. ASSUME UNCHANGED trailer PROVE trailer' \in [Trailer -> TrailerRow]
    BY <2>0, <2>3
  <2>4. QED
    BY <2>1, <2>2, <2>3, Zenon
       DEF EnterpriseNext, EnterpriseStep, SetSubscription, EnqueueCommand, ClaimNext, CreateJob, FinishJob,
           ScheduleAppointment, BeginReplay, Replay, BeginAnswer, CompleteCommand, enterpriseVars
<1>6. ASSUME NEW d \in Client, reqs'[d].op = "replay" PROVE reqs'[d].saw \in Nat
  <2>1. ASSUME NEW c \in Client, NEW r, reqs' = [reqs EXCEPT ![c] = r], r.op = "replay" => r.saw \in Nat
        PROVE  reqs'[d].saw \in Nat
    BY <1>6, <2>1 DEF CInv, ETyped
  <2>2. ASSUME NEW c \in Client, BeginReplay(c) PROVE reqs'[d].saw \in Nat
    <3>1. PICK k \in DOMAIN delivery : Begin(c, [op |-> "replay", pc |-> "commit", key |-> k, saw |-> delivery[k]])
      BY <2>2 DEF BeginReplay
    <3>2. PICK n \in Nat : n = delivery[k]
      BY DEF ETyped, Delivered
    <3>3. PICK r : r = [op |-> "replay", pc |-> "commit", key |-> k, saw |-> n]
      OBVIOUS
    <3>4. reqs' = [reqs EXCEPT ![c] = r] /\ r.saw = n
      BY <3>1, <3>2, <3>3 DEF Begin
    <3>5. QED
      BY <2>1, <3>4
  <2>3. ASSUME NEW c \in Client, BeginAnswer(c) PROVE reqs'[d].saw \in Nat
    <3>1. PICK m, to : Begin(c, [op |-> "answer", pc |-> "commit", command |-> m, to |-> to])
      BY <2>3 DEF BeginAnswer
    <3>2. QED
      BY <2>1, <3>1 DEF Begin
  <2>4. ASSUME NEW c \in Client, Finish(c) PROVE reqs'[d].saw \in Nat
    BY <2>1, <2>4 DEF Finish, Advance, NoReq
  <2>5. ASSUME UNCHANGED reqs PROVE reqs'[d].saw \in Nat
    BY <1>6, <2>5 DEF ETyped
  <2>6. QED
    BY <2>2, <2>3, <2>4, <2>5, Zenon
       DEF EnterpriseNext, EnterpriseStep, SetSubscription, EnqueueCommand, ClaimNext, CreateJob, FinishJob,
           ScheduleAppointment, CheckInTrailer, AssignDockDoor, Replay, CompleteCommand, Abort, Once, reqVars
<1>7. QED
  BY <1>1, <1>2, <1>3, <1>4, <1>5, <1>6 DEF ETyped

(* No event, no job, an empty yard.                                         *)
LEMMA EnterpriseFirst == ReqInit /\ EnterpriseInit => CInv /\ ETyped
<1> SUFFICES ASSUME ReqInit, EnterpriseInit PROVE CInv /\ ETyped
  OBVIOUS
<1>1. CInv
  BY DEF ReqInit, NoReq, EnterpriseInit, NoCommand, CInv, CommandRow, ClaimsFollowFailures
<1>2. ETyped
  BY DEF ReqInit, NoReq, EnterpriseInit, ETyped, Delivered, VisitRow, TrailerRow
<1>3. QED
  BY <1>1, <1>2

(* Commands, deliveries, jobs and the yard are well formed, and an event is *)
(* recorded under a key of its own resource.                                *)
THEOREM EnterpriseTypeCorrect == EnterpriseSpec => []EnterpriseTypeOK
  BY EnterpriseFirst, EnterpriseKeeps, EnterpriseTypesKept, EnterpriseTyped, PTL DEF EnterpriseSpec
-----------------------------------------------------------------------------
(* All services in one database.  They share no rows, only the table of the *)
(* requests in progress: what a service promises must survive the requests  *)
(* of the others.                                                           *)
WaveOps       == {"pack", "stage", "ship", "void", "wave", "release", "complete"}
WorderOps     == {"wrelease", "wcomplete", "wcancel", "wstart"}
ReturnOps     == {"receive", "inspect", "refreshReturn"}
SessionOps    == {"login", "refresh", "revoke"}
BillingOps    == {"voidEvent", "invoice", "invoiceFinal", "invoiceVoid", "creditNote"}
SerialOps     == {"serialReceive", "serialPick", "serialPack"}
AnswerOps  == {"replay", "answer"}

(* A step writes the request of one client at most, one of these or none.   *)
Touches(Ops) ==
  \/ UNCHANGED reqs
  \/ \E c \in Client : \E r : reqs' = [reqs EXCEPT ![c] = r] /\ r.op \in Ops \cup {"none"}

WavesSound      == PInv /\ VTyped
WorderSound     == WInv /\ WTyped
ReturnsSound    == RInv /\ RTyped
SessionsSound   == TInv /\ FInv /\ STyped
SerialsSound    == SInv /\ scanned \subseteq SerialOrder
EnterpriseSound == CInv /\ ETyped

ServicesInv == /\ WavesSound /\ WorderSound /\ ReturnsSound /\ SessionsSound
               /\ BInv /\ SerialsSound /\ EnterpriseSound

(* What the requests of the others leave of each invariant.                 *)
LEMMA WavesApart ==
  ASSUME WavesSound, UNCHANGED <<shipVars, waveVars>>, NEW Ops, Touches(Ops), Ops \cap WaveOps = {}
  PROVE  WavesSound'
<1>1. UNCHANGED <<order, picked, ship, pack, label, wave, task, active>>
  BY DEF shipVars, waveVars
<1>2. ASSUME NEW c \in Client, NEW r, reqs' = [reqs EXCEPT ![c] = r], r.op \notin WaveOps PROVE WavesSound'
  <2>1. PInv'
    BY <1>1, <1>2, RequestSmall DEF WavesSound, WaveOps, Shape
  <2>2. ASSUME NEW d \in Client PROVE Gathers(reqs[d])'
    <3>1. reqs'[d] = r \/ reqs'[d] = reqs[d]
      BY <1>2 DEF WavesSound, PInv, ShipTypes
    <3>2. Gathers(reqs[d])
      BY DEF WavesSound, VTyped
    <3>3. QED
      BY <1>1, <1>2, <3>1, <3>2 DEF Gathers, WaveOps
  <2>3. VTyped'
    BY <1>1, <2>2 DEF WavesSound, VTyped, Labels, Tasks, WavesLinked
  <2>4. QED
    BY <2>1, <2>3 DEF WavesSound
<1>3. ASSUME UNCHANGED reqs PROVE WavesSound'
  <2>1. PInv'
    <3>1. \A o \in Order, l \in Line : picked[o][l] \in Nat
      BY ShippingConstants DEF WavesSound, PInv, ShipTypes
    <3>2. order \in [Order -> OrderStatus] /\ picked \in [Order -> [Line -> 0..Ordered]] /\ ship \in Seq(ShipRow)
      BY DEF WavesSound, PInv, ShipTypes
    <3>3. \A o \in Order, l \in Line : picked[o][l] <= picked'[o][l]
      BY <1>1, <3>1
    <3>4. QED
      BY <1>1, <1>3, <3>2, <3>3, ShippingStatement DEF WavesSound
  <2>2. VTyped'
    BY <1>1, <1>3 DEF WavesSound, VTyped, Labels, Tasks, WavesLinked, Gathers
  <2>3. QED
    BY <2>1, <2>2 DEF WavesSound
<1>4. \A r : r.op \in Ops \cup {"none"} => r.op \notin WaveOps
  BY DEF WaveOps
<1>5. QED
  BY <1>2, <1>3, <1>4 DEF Touches

(* As above, of the warehouse orders.                                       *)
LEMMA WorderApart ==
  ASSUME WorderSound, UNCHANGED worderVars, NEW Ops, Touches(Ops), Ops \cap WorderOps = {}
  PROVE  WorderSound'
<1>1. worder' = worder /\ WTyped'
  BY DEF worderVars, WorderSound, WTyped
<1>2. ASSUME NEW c \in Client, NEW r, reqs' = [reqs EXCEPT ![c] = r], r.op \notin WorderOps PROVE WInv'
  BY <1>1, <1>2, WorderStays DEF WorderSound, WorderOps, Transition
<1>3. ASSUME UNCHANGED reqs PROVE WInv'
  BY <1>1, <1>3 DEF WorderSound, WInv, ClosedOrderClosedLines
<1>4. \A r : r.op \in Ops \cup {"none"} => r.op \notin WorderOps
  BY DEF WorderOps
<1>5. QED
  BY <1>1, <1>2, <1>3, <1>4 DEF Touches, WorderSound

(* As above, of the returns.                                                *)
LEMMA ReturnsApart ==
  ASSUME ReturnsSound, UNCHANGED returnVars, NEW Ops, Touches(Ops), Ops \cap ReturnOps = {}
  PROVE  ReturnsSound'
<1>1. UNCHANGED <<rma, rline, restock>> /\ RInv /\ RTyped
  BY DEF returnVars, ReturnsSound
<1>2. ASSUME NEW c \in Client, NEW r, reqs' = [reqs EXCEPT ![c] = r], r.op \notin ReturnOps PROVE ReturnsSound'
  <2>1. RInv'
    BY <1>1, <1>2, LinesStay DEF ReturnOps
  <2>2. Brings(r) /\ rma' \in RmaStatus
    BY <1>1, <1>2 DEF Brings, ReturnOps, RTyped
  <2>3. RTyped'
    BY <1>1, <1>2, <2>2, StockStays DEF ReturnOps
  <2>4. QED
    BY <2>1, <2>3 DEF ReturnsSound
<1>3. ASSUME UNCHANGED reqs PROVE ReturnsSound'
  <2>1. RInv'
    BY <1>1, <1>3 DEF RInv, Inspecting, ReturnWithinExpected
  <2>2. \A i : Moving(i)' = Moving(i) /\ Owed(i)' = Owed(i)
    BY <1>3 DEF Moving, Carried, Owed
  <2>3. RTyped'
    BY <1>1, <1>3, <2>2 DEF RTyped, Brings
  <2>4. QED
    BY <2>1, <2>3 DEF ReturnsSound
<1>4. \A r : r.op \in Ops \cup {"none"} => r.op \notin ReturnOps
  BY DEF ReturnOps
<1>5. QED
  BY <1>2, <1>3, <1>4 DEF Touches

(* As above, of the sessions.                                               *)
LEMMA SessionsApart ==
  ASSUME SessionsSound, UNCHANGED sessionVars, NEW Ops, Touches(Ops), Ops \cap SessionOps = {}
  PROVE  SessionsSound'
<1>1. UNCHANGED <<token, ended, attempt>> /\ STyped' /\ TInv /\ FInv
  BY DEF sessionVars, SessionsSound, STyped
<1>2. ASSUME NEW c \in Client, NEW r, reqs' = [reqs EXCEPT ![c] = r], r.op \notin SessionOps PROVE TInv' /\ FInv'
  <2>1. Read(r) /\ ~HoldsUser(r) /\ ~Counting(r)
    BY <1>2 DEF Read, HoldsUser, Counting, SessionOps
  <2>2. TInv'
    BY <1>1, <1>2, <2>1, TokensStay
  <2>3. \A d \in Client : reqs'[d] = r \/ reqs'[d] = reqs[d]
    BY <1>1, <1>2 DEF FInv
  <2>4. \A d \in Client : Counting(reqs'[d]) => reqs'[d] = reqs[d]
    BY <2>1, <2>3
  <2>5. reqs' = [d \in Client |-> reqs'[d]]
    BY <1>1, <1>2 DEF FInv
  <2>6. FInv'
    BY <1>1, <2>4, <2>5 DEF FInv, Tally, Counting
  <2>7. QED
    BY <2>2, <2>6
<1>3. ASSUME UNCHANGED reqs PROVE TInv' /\ FInv'
  <2>1. TInv'
    BY <1>1, <1>3 DEF TInv, Tokens, Usable, Turns, Read, HoldsUser, Token
  <2>2. FInv'
    BY <1>1, <1>3 DEF FInv, Tally, Counting
  <2>3. QED
    BY <2>1, <2>2
<1>4. \A r : r.op \in Ops \cup {"none"} => r.op \notin SessionOps
  BY DEF SessionOps
<1>5. QED
  BY <1>1, <1>2, <1>3, <1>4 DEF Touches, SessionsSound

(* As above, of the invoices.                                               *)
LEMMA BillingApart ==
  ASSUME BInv, UNCHANGED billingVars, NEW Ops, Touches(Ops), Ops \cap BillingOps = {}
  PROVE  BInv'
<1>1. ASSUME NEW c \in Client, NEW r, reqs' = [reqs EXCEPT ![c] = r], r.op \notin BillingOps PROVE BInv'
  <2>1. Held(r)
    BY <1>1 DEF Held, BillingOps
  <2>2. QED
    BY <1>1, <2>1, RequestsStep
<1>2. ASSUME UNCHANGED reqs PROVE BInv'
  BY <1>2 DEF BInv, Rows, Lines, Held, Invoice, billingVars
<1>3. \A r : r.op \in Ops \cup {"none"} => r.op \notin BillingOps
  BY DEF BillingOps
<1>4. QED
  BY <1>1, <1>2, <1>3 DEF Touches

(* As above, of the serial numbers.                                         *)
LEMMA SerialsApart ==
  ASSUME SerialsSound, UNCHANGED serialVars, NEW Ops, Touches(Ops), Ops \cap SerialOps = {}
  PROVE  SerialsSound'
<1>1. UNCHANGED <<serial, pickst, taken, scanned, misnamed>> /\ SInv /\ (scanned \subseteq SerialOrder)'
  BY DEF serialVars, SerialsSound
<1>2. ASSUME NEW c \in Client, NEW r, reqs' = [reqs EXCEPT ![c] = r], r.op \notin SerialOps PROVE SInv'
  <2>1. Knows(r)'
    BY <1>2 DEF Knows, SerialOps
  <2>2. misnamed' \in BOOLEAN /\ (misnamed => misnamed')
    BY <1>1 DEF SInv, SerialTypes
  <2>3. r.op \notin {"serialPick", "serialPack", "serialReceive"}
    BY <1>2 DEF SerialOps
  <2>4. QED
    BY <1>1, <1>2, <2>1, <2>2, <2>3, SerialRequest
<1>3. ASSUME UNCHANGED reqs PROVE SInv'
  <2>1. SerialTypes' /\ SerialLocks'
    BY <1>1, <1>3 DEF SInv, SerialTypes, SerialLocks
  <2>2. \A c \in Client : Knows(reqs[c])'
    BY <1>1, <1>3 DEF SInv, Knows, PickKnows, PackKnows, ReceiveKnows, Serialled
  <2>3. \A o : Gone(o)' = Gone(o) /\ \A st : Serialled(o, st)' = Serialled(o, st)
    BY <1>1 DEF Gone, Serialled
  <2>4. QED
    BY <1>1, <2>1, <2>2, <2>3 DEF SInv
<1>4. \A r : r.op \in Ops \cup {"none"} => r.op \notin SerialOps
  BY DEF SerialOps
<1>5. QED
  BY <1>1, <1>2, <1>3, <1>4 DEF Touches, SerialsSound

(* As above, of the commands, the deliveries and the yard.                  *)
LEMMA EnterpriseApart ==
  ASSUME EnterpriseSound, UNCHANGED enterpriseVars, NEW Ops, Touches(Ops), Ops \cap AnswerOps = {}
  PROVE  EnterpriseSound'
<1>1. UNCHANGED <<command, delivery, subscribed, job, visit, trailer>> /\ CInv /\ ETyped
  BY DEF enterpriseVars, EnterpriseSound
<1>2. ASSUME NEW c \in Client, NEW r, reqs' = [reqs EXCEPT ![c] = r], r.op \notin AnswerOps
      PROVE  EnterpriseSound'
  <2>1. CInv'
    BY <1>1, <1>2, OtherRequests DEF AnswerOps
  <2>2. \A d \in Client : reqs'[d] = r \/ reqs'[d] = reqs[d]
    BY <1>1, <1>2 DEF CInv
  <2>3. ETyped'
    BY <1>1, <1>2, <2>2 DEF ETyped, Delivered, AnswerOps
  <2>4. QED
    BY <2>1, <2>3 DEF EnterpriseSound
<1>3. ASSUME UNCHANGED reqs PROVE EnterpriseSound'
  BY <1>1, <1>3 DEF EnterpriseSound, CInv, ETyped, Delivered, ClaimsFollowFailures
<1>4. \A r : r.op \in Ops \cup {"none"} => r.op \notin AnswerOps
  BY DEF AnswerOps
<1>5. QED
  BY <1>2, <1>3, <1>4 DEF Touches
-----------------------------------------------------------------------------
(* A transaction that ends leaves no request.                               *)
LEMMA Ended == ASSUME NEW c \in Client, Finish(c), NEW Ops PROVE Touches(Ops)
<1>1. NoReq.op = "none"
  BY DEF NoReq
<1>2. PICK r : r = NoReq
  OBVIOUS
<1>3. reqs' = [reqs EXCEPT ![c] = r]
  BY <1>2 DEF Finish, Advance
<1>4. QED
  BY <1>1, <1>2, <1>3 DEF Touches

(* One that begins or moves on.                                             *)
LEMMA Written ==
  ASSUME NEW c \in Client, NEW r, Begin(c, r) \/ Advance(c, r), NEW Ops, r.op \in Ops
  PROVE  Touches(Ops)
  BY DEF Begin, Advance, Touches

(* The requests that a step of shipping and waves can write.                *)
LEMMA WavesTouch == PInv /\ (ShippingStep \/ WavesStep) => Touches(WaveOps)
<1> SUFFICES ASSUME PInv, ShippingStep \/ WavesStep PROVE Touches(WaveOps)
  OBVIOUS
<1>0. \A c \in Client : Shape(reqs[c])
  BY DEF PInv, Planned
<1>1. ASSUME UNCHANGED reqs PROVE Touches(WaveOps)
  BY <1>1 DEF Touches
<1>2. ASSUME NEW c \in Client, Finish(c) PROVE Touches(WaveOps)
  BY <1>2, Ended
<1>3. ASSUME NEW c \in Client, NEW s, BeginPack(c, s) \/ BeginStage(c, s) \/ BeginShip(c, s) PROVE Touches(WaveOps)
  BY <1>3, Written DEF BeginPack, BeginStage, BeginShip, WaveOps
<1>4. ASSUME NEW c \in Client, LockAndPlan(c) PROVE Touches(WaveOps)
  BY <1>4, Written DEF LockAndPlan, WaveOps
<1>5. ASSUME NEW c \in Client, Check(c) PROVE Touches(WaveOps)
  <2>1. PICK r : r = reqs[c] /\ reqs' = [reqs EXCEPT ![c] = [r EXCEPT !.pc = "commit"]]
    BY <1>5 DEF Check, Advance
  <2>2. r.op \in {"stage", "ship"} /\ r = [op |-> r.op, pc |-> r.pc, ship |-> r.ship]
    BY <1>0, <1>5, <2>1 DEF Check, At, Shape
  <2>3. [r EXCEPT !.pc = "commit"].op = r.op
    BY <2>2
  <2>4. QED
    BY <2>1, <2>2, <2>3 DEF Touches, WaveOps
<1>6. ASSUME NEW c \in Client, NEW b, BeginVoid(c, b) PROVE Touches(WaveOps)
  BY <1>6, Written DEF BeginVoid, WaveOps
<1>7. ASSUME NEW c \in Client, BeginWave(c) PROVE Touches(WaveOps)
  BY <1>7, Written DEF BeginWave, WaveOps
<1>8. ASSUME NEW c \in Client, NEW w, BeginRelease(c, w) \/ BeginComplete(c, w) PROVE Touches(WaveOps)
  BY <1>8, Written DEF BeginRelease, BeginComplete, WaveOps
<1>9. ASSUME NEW c \in Client, ReadTasks(c) \/ UpdateOrder(c) PROVE Touches(WaveOps)
  <2>1. PICK r : r = reqs[c]
    OBVIOUS
  <2>2. r.op = "release" /\ Shape(r)
    BY <1>0, <1>9, <2>1, Zenon DEF ReadTasks, UpdateOrder, At
  <2>3. \/ \E f, n : reqs' = [reqs EXCEPT ![c] = [r EXCEPT !.pc = "update", !.found = f, !.new = n]]
        \/ \E d, k : reqs' = [reqs EXCEPT ![c] = [r EXCEPT !.pc = "read", !.done = d, !.locks = k]]
    BY <1>9, <2>1, Zenon DEF ReadTasks, UpdateOrder, Advance
  <2>4. ASSUME NEW q, reqs' = [reqs EXCEPT ![c] = q], q.op = "release" PROVE Touches(WaveOps)
    BY <2>4 DEF Touches, WaveOps
  <2>5. ASSUME NEW f, NEW n, reqs' = [reqs EXCEPT ![c] = [r EXCEPT !.pc = "update", !.found = f, !.new = n]]
        PROVE  Touches(WaveOps)
    <3>1. PICK q : q = [r EXCEPT !.pc = "update", !.found = f, !.new = n]
      OBVIOUS
    <3>2. q.op = "release" /\ reqs' = [reqs EXCEPT ![c] = q]
      BY <2>2, <2>5, <3>1
    <3>3. QED
      BY <2>4, <3>2
  <2>6. ASSUME NEW d, NEW k, reqs' = [reqs EXCEPT ![c] = [r EXCEPT !.pc = "read", !.done = d, !.locks = k]]
        PROVE  Touches(WaveOps)
    <3>1. PICK q : q = [r EXCEPT !.pc = "read", !.done = d, !.locks = k]
      OBVIOUS
    <3>2. q.op = "release" /\ reqs' = [reqs EXCEPT ![c] = q]
      BY <2>2, <2>6, <3>1
    <3>3. QED
      BY <2>4, <3>2
  <2>7. QED
    BY <2>3, <2>5, <2>6, Zenon
<1>10. QED
  BY <1>1, <1>2, <1>3, <1>4, <1>5, <1>6, <1>7, <1>8, <1>9, Zenon
     DEF ShippingStep, WavesStep, Pick, CreateShipment, CommitPack, CommitStage, CommitShip, CommitVoid,
         GenerateLabel, CreateLabel, NewLabel, TrackingCancels, InsertWave, CommitRelease, CommitComplete, EndTask, Once

(* Of the warehouse orders.                                                 *)
LEMMA WorderTouch == WorderStep => Touches(WorderOps)
<1> SUFFICES ASSUME WorderStep PROVE Touches(WorderOps)
  OBVIOUS
<1>1. ASSUME UNCHANGED reqs PROVE Touches(WorderOps)
  BY <1>1 DEF Touches
<1>2. ASSUME NEW c \in Client, Finish(c) PROVE Touches(WorderOps)
  BY <1>2, Ended
<1>3. ASSUME NEW c \in Client, NEW o, BeginTransition(c, o) PROVE Touches(WorderOps)
  BY <1>3, Written DEF BeginTransition, WorderOps
<1>4. ASSUME NEW c \in Client, NEW t, BeginStart(c, t) PROVE Touches(WorderOps)
  BY <1>4, Written DEF BeginStart, WorderOps
<1>5. QED
  BY <1>1, <1>2, <1>3, <1>4, Zenon
     DEF WorderStep, CreateOrder, ReleaseOrder, CompleteOrder, CancelOrder, StartTask, Once

(* Of the returns.                                                          *)
LEMMA ReturnsTouch == RInv /\ ReturnsStep => Touches(ReturnOps)
<1> SUFFICES ASSUME RInv, ReturnsStep PROVE Touches(ReturnOps)
  OBVIOUS
<1>1. ASSUME NEW c \in Client, Finish(c) PROVE Touches(ReturnOps)
  BY <1>1, Ended
<1>2. ASSUME NEW c \in Client, NEW i, BeginReceive(c, i) \/ BeginInspect(c, i) PROVE Touches(ReturnOps)
  <2>1. ASSUME BeginReceive(c, i) PROVE Touches(ReturnOps)
    <3>1. PICK k, m : Begin(c, [op |-> "receive", pc |-> "line", line |-> i, rec |-> k, st |-> m])
      BY <2>1, Zenon DEF BeginReceive
    <3>2. QED
      BY <3>1, Written DEF ReturnOps
  <2>2. ASSUME BeginInspect(c, i) PROVE Touches(ReturnOps)
    <3>1. PICK j, k, m, n : Begin(c, [op |-> "inspect", pc |-> j, line |-> i, n |-> k, key |-> m, ins |-> n])
      BY <2>2, Zenon DEF BeginInspect
    <3>2. QED
      BY <3>1, Written DEF ReturnOps
  <2>3. QED
    BY <1>2, <2>1, <2>2
<1>3. ASSUME NEW c \in Client, WriteReceived(c) \/ WriteInspected(c) \/ ReadLines(c) PROVE Touches(ReturnOps)
  <2>1. ASSUME WriteReceived(c) PROVE Touches(ReturnOps)
    BY <2>1, Written DEF WriteReceived, Refreshing, ReturnOps
  <2>2. ASSUME WriteInspected(c) PROVE Touches(ReturnOps)
    BY <2>2, Written DEF WriteInspected, Refreshing, ReturnOps
  <2>3. ASSUME ReadLines(c) PROVE Touches(ReturnOps)
    BY <2>3, Written DEF ReadLines, ReturnOps
  <2>4. QED
    BY <1>3, <2>1, <2>2, <2>3
<1>4. ASSUME NEW c \in Client, AddStock(c) \/ PostMovement(c) PROVE Touches(ReturnOps)
  <2>1. PICK r : r = reqs[c]
    OBVIOUS
  <2>2. r.op = "inspect" /\ Inspecting(r)
    BY <1>4, <2>1, Zenon DEF AddStock, PostMovement, At, RInv
  <2>3. PICK pc : reqs' = [reqs EXCEPT ![c] = [r EXCEPT !.pc = pc]]
    BY <1>4, <2>1 DEF AddStock, PostMovement, Advance
  <2>4. [r EXCEPT !.pc = pc].op = "inspect"
    BY <2>2 DEF Inspecting
  <2>5. QED
    BY <2>3, <2>4 DEF Touches, ReturnOps
<1>5. QED
  BY <1>1, <1>2, <1>3, <1>4, Zenon DEF ReturnsStep, WriteOrderStatus

(* Of the sessions.                                                         *)
LEMMA SessionsTouch == SessionsStep => Touches(SessionOps)
<1> SUFFICES ASSUME SessionsStep PROVE Touches(SessionOps)
  OBVIOUS
<1>1. ASSUME NEW c \in Client, Finish(c) PROVE Touches(SessionOps)
  BY <1>1, Ended
<1>2. ASSUME NEW c \in Client, BeginLogin(c) \/ PasswordMatches(c) \/ ReadAttempt(c) PROVE Touches(SessionOps)
  BY <1>2, Written DEF BeginLogin, PasswordMatches, ReadAttempt, SessionOps
<1>3. ASSUME NEW c \in Client, BeginRefresh(c) PROVE Touches(SessionOps)
  BY <1>3, Written DEF BeginRefresh, SessionOps
<1>4. ASSUME NEW c \in Client, LockAndRead(c) PROVE Touches(SessionOps)
  <2>1. reqs[c].op = "refresh" /\ reqs' = [reqs EXCEPT ![c] = [reqs[c] EXCEPT !.pc = "rotate", !.saw = token[reqs[c].token].st]]
    BY <1>4 DEF LockAndRead, Advance, At
  <2>2. [reqs[c] EXCEPT !.pc = "rotate", !.saw = token[reqs[c].token].st].op = "refresh"
    BY <2>1
  <2>3. QED
    BY <2>1, <2>2 DEF Touches, SessionOps
<1>5. ASSUME NEW c \in Client, BeginRevoke(c) \/ FindActive(c) PROVE Touches(SessionOps)
  <2>1. ASSUME BeginRevoke(c) PROVE Touches(SessionOps)
    <3>1. PICK k, m : Begin(c, [op |-> "revoke", pc |-> "lock", families |-> k, all |-> m])
      BY <2>1, Zenon DEF BeginRevoke
    <3>2. QED
      BY <3>1, Written DEF SessionOps
  <2>2. ASSUME FindActive(c) PROVE Touches(SessionOps)
    <3>1. PICK k, m : Advance(c, [op |-> "revoke", pc |-> "update", families |-> k, found |-> m])
      BY <2>2, Zenon DEF FindActive
    <3>2. QED
      BY <3>1, Written DEF SessionOps
  <2>3. QED
    BY <1>5, <2>1, <2>2
<1>6. QED
  BY <1>1, <1>2, <1>3, <1>4, <1>5, Zenon
     DEF SessionsStep, CreateRefreshSession, WriteAttempt, Rotate, Compromise, Revoke

(* Of the invoices.                                                         *)
LEMMA BillingTouch == BillingStep => Touches(BillingOps)
<1> SUFFICES ASSUME BillingStep PROVE Touches(BillingOps)
  OBVIOUS
<1>1. ASSUME UNCHANGED reqs PROVE Touches(BillingOps)
  BY <1>1 DEF Touches
<1>2. ASSUME NEW c \in Client, Finish(c) PROVE Touches(BillingOps)
  BY <1>2, Ended
<1>3. ASSUME NEW c \in Client, BeginVoidEvent(c) \/ BeginInvoice(c) \/ ReadSequence(c) PROVE Touches(BillingOps)
  <2>1. ASSUME BeginVoidEvent(c) PROVE Touches(BillingOps)
    <3>1. PICK k : Begin(c, [op |-> "voidEvent", pc |-> "commit", event |-> k])
      BY <2>1, Zenon DEF BeginVoidEvent
    <3>2. QED
      BY <3>1, Written DEF BillingOps
  <2>2. ASSUME BeginInvoice(c) PROVE Touches(BillingOps)
    <3>1. PICK k, m : Begin(c, [op |-> "invoice", pc |-> "number", events |-> k, final |-> m])
      BY <2>2, Zenon DEF BeginInvoice
    <3>2. QED
      BY <3>1, Written DEF BillingOps
  <2>3. ASSUME ReadSequence(c) PROVE Touches(BillingOps)
    <3>1. PICK j, k, m, n : Advance(c, [op |-> "invoice", pc |-> "commit", events |-> k, final |-> m,
                                        asked |-> j, saw |-> n])
      BY <2>3, Zenon DEF ReadSequence
    <3>2. QED
      BY <3>1, Written DEF BillingOps
  <2>4. QED
    BY <1>3, <2>1, <2>2, <2>3
<1>4. ASSUME NEW c \in Client, BeginFinalize(c) \/ BeginVoidInvoice(c) \/ BeginCredit(c) PROVE Touches(BillingOps)
  <2>1. ASSUME BeginFinalize(c) PROVE Touches(BillingOps)
    <3>1. PICK k, m : Begin(c, [op |-> "invoiceFinal", pc |-> "commit", invoice |-> k, events |-> m])
      BY <2>1, Zenon DEF BeginFinalize
    <3>2. QED
      BY <3>1, Written DEF BillingOps
  <2>2. ASSUME BeginVoidInvoice(c) PROVE Touches(BillingOps)
    <3>1. PICK k, m : Begin(c, [op |-> "invoiceVoid", pc |-> "commit", invoice |-> k, events |-> m])
      BY <2>2, Zenon DEF BeginVoidInvoice
    <3>2. QED
      BY <3>1, Written DEF BillingOps
  <2>3. ASSUME BeginCredit(c) PROVE Touches(BillingOps)
    <3>1. PICK k, m : Begin(c, [op |-> "creditNote", pc |-> "commit", invoice |-> k, events |-> m])
      BY <2>3, Zenon DEF BeginCredit
    <3>2. QED
      BY <3>1, Written DEF BillingOps
  <2>4. QED
    BY <1>4, <2>1, <2>2, <2>3
<1>5. QED
  BY <1>1, <1>2, <1>3, <1>4, Zenon
     DEF BillingStep, UpsertEvents, VoidEvent, InsertInvoice, Finalize, VoidInvoice, CreateCreditNote, Once

(* Of the serial numbers.                                                   *)
LEMMA SerialsTouch == SerialsStep => Touches(SerialOps)
<1> SUFFICES ASSUME SerialsStep PROVE Touches(SerialOps)
  OBVIOUS
<1>1. ASSUME UNCHANGED reqs PROVE Touches(SerialOps)
  BY <1>1 DEF Touches
<1>2. ASSUME NEW c \in Client, Finish(c) PROVE Touches(SerialOps)
  BY <1>2, Ended
<1>3. ASSUME NEW c \in Client, BeginSerialReceive(c) PROVE Touches(SerialOps)
  BY <1>3, Written DEF BeginSerialReceive, SerialOps
<1>4. ASSUME NEW c \in Client, BeginSerialPick(c) \/ BeginSerialTransition(c) PROVE Touches(SerialOps)
  <2>1. ASSUME BeginSerialPick(c) PROVE Touches(SerialOps)
    <3>1. PICK j, k, m, n : Begin(c, [op |-> "serialPick", pc |-> "commit", order |-> k, bin |-> m, serials |-> n, saw |-> j])
      BY <2>1, Zenon DEF BeginSerialPick
    <3>2. QED
      BY <3>1, Written DEF SerialOps
  <2>2. ASSUME BeginSerialTransition(c) PROVE Touches(SerialOps)
    <3>1. PICK k, m : Begin(c, [op |-> "serialPack", pc |-> "commit", order |-> k, serials |-> m])
      BY <2>2, Zenon DEF BeginSerialTransition
    <3>2. QED
      BY <3>1, Written DEF SerialOps
  <2>3. QED
    BY <1>4, <2>1, <2>2
<1>5. QED
  BY <1>1, <1>2, <1>3, <1>4, Zenon
     DEF SerialsStep, CreateSerial, UpdateSerial, ScannerPick, RecordReceiveSerials, CommitSerialPick,
         TransitionOrderSerials, Once

(* Of the commands, the deliveries and the yard.                            *)
LEMMA EnterpriseTouch == EnterpriseStep => Touches(AnswerOps)
<1> SUFFICES ASSUME EnterpriseStep PROVE Touches(AnswerOps)
  OBVIOUS
<1>1. ASSUME UNCHANGED reqs PROVE Touches(AnswerOps)
  BY <1>1 DEF Touches
<1>2. ASSUME NEW c \in Client, Finish(c) PROVE Touches(AnswerOps)
  BY <1>2, Ended
<1>3. ASSUME NEW c \in Client, BeginReplay(c) \/ BeginAnswer(c) PROVE Touches(AnswerOps)
  <2>1. ASSUME BeginReplay(c) PROVE Touches(AnswerOps)
    <3>1. PICK k, m : Begin(c, [op |-> "replay", pc |-> "commit", key |-> k, saw |-> m])
      BY <2>1, Zenon DEF BeginReplay
    <3>2. QED
      BY <3>1, Written DEF AnswerOps
  <2>2. ASSUME BeginAnswer(c) PROVE Touches(AnswerOps)
    <3>1. PICK k, m : Begin(c, [op |-> "answer", pc |-> "commit", command |-> k, to |-> m])
      BY <2>2, Zenon DEF BeginAnswer
    <3>2. QED
      BY <3>1, Written DEF AnswerOps
  <2>3. QED
    BY <1>3, <2>1, <2>2
<1>4. QED
  BY <1>1, <1>2, <1>3, Zenon
     DEF EnterpriseStep, SetSubscription, EnqueueCommand, ClaimNext, CreateJob, FinishJob, ScheduleAppointment,
         CheckInTrailer, AssignDockDoor, Replay, CompleteCommand, Once
-----------------------------------------------------------------------------
(* No two services have an operation in common.                             *)
LEMMA OpsApart ==
  /\ WaveOps \cap WorderOps = {} /\ WaveOps \cap ReturnOps = {} /\ WaveOps \cap SessionOps = {}
  /\ WaveOps \cap BillingOps = {} /\ WaveOps \cap SerialOps = {} /\ WaveOps \cap AnswerOps = {}
  /\ WorderOps \cap ReturnOps = {} /\ WorderOps \cap SessionOps = {} /\ WorderOps \cap BillingOps = {}
  /\ WorderOps \cap SerialOps = {} /\ WorderOps \cap AnswerOps = {}
  /\ ReturnOps \cap SessionOps = {} /\ ReturnOps \cap BillingOps = {} /\ ReturnOps \cap SerialOps = {}
  /\ ReturnOps \cap AnswerOps = {}
  /\ SessionOps \cap BillingOps = {} /\ SessionOps \cap SerialOps = {} /\ SessionOps \cap AnswerOps = {}
  /\ BillingOps \cap SerialOps = {} /\ BillingOps \cap AnswerOps = {}
  /\ SerialOps \cap AnswerOps = {}
  BY DEF WaveOps, WorderOps, ReturnOps, SessionOps, BillingOps, SerialOps, AnswerOps

(* A step of a service is one of its own specification, and keeps what that *)
(* one is known to keep.                                                    *)
LEMMA OwnStep ==
  /\ WavesSound /\ [WavesNext]_<<reqVars, shipVars, waveVars>> => WavesSound'
  /\ WorderSound /\ [WorderNext]_<<reqVars, worderVars>> => WorderSound'
  /\ ReturnsSound /\ [ReturnsNext]_<<reqVars, returnVars>> => ReturnsSound'
  /\ SessionsSound /\ [SessionsNext]_<<reqVars, sessionVars>> => SessionsSound'
  /\ BInv /\ [BillingNext]_<<reqVars, billingVars>> => BInv'
  /\ SerialsSound /\ [SerialsNext]_<<reqVars, serialVars>> => SerialsSound'
  /\ EnterpriseSound /\ [EnterpriseNext]_<<reqVars, enterpriseVars>> => EnterpriseSound'
<1>1. WavesSound /\ [WavesNext]_<<reqVars, shipVars, waveVars>> => WavesSound'
  BY ShippingInductive, WavesTypesKept DEF WavesSound
<1>2. WorderSound /\ [WorderNext]_<<reqVars, worderVars>> => WorderSound'
  BY WorderInductive, WorderTypesKept DEF WorderSound
<1>3. ReturnsSound /\ [ReturnsNext]_<<reqVars, returnVars>> => ReturnsSound'
  BY ReturnsInductive, ReturnTypesKept DEF ReturnsSound
<1>4. SessionsSound /\ [SessionsNext]_<<reqVars, sessionVars>> => SessionsSound'
  BY SessionsKeep, CountKeeps, SessionTypesKept DEF SessionsSound
<1>5. SerialsSound /\ [SerialsNext]_<<reqVars, serialVars>> => SerialsSound'
  BY SerialsInductive, ScannedKept DEF SerialsSound
<1>6. EnterpriseSound /\ [EnterpriseNext]_<<reqVars, enterpriseVars>> => EnterpriseSound'
  BY EnterpriseKeeps, EnterpriseTypesKept DEF EnterpriseSound
<1>7. QED
  BY <1>1, <1>2, <1>3, <1>4, <1>5, <1>6, BillingKeeps

(* Whichever service moves, every service keeps its invariant: its own step *)
(* is one of its specification, and to the others only requests are touched *)
(* that they do not know.                                                   *)
LEMMA ServicesInductive == ServicesInv /\ [ServicesNext]_servicesVars => ServicesInv'
<1> SUFFICES ASSUME ServicesInv, [ServicesNext]_servicesVars PROVE ServicesInv'
  OBVIOUS
<1>0. /\ WavesSound /\ WorderSound /\ ReturnsSound /\ SessionsSound /\ BInv /\ SerialsSound /\ EnterpriseSound
      /\ PInv /\ RInv
  BY DEF ServicesInv, WavesSound, ReturnsSound
<1>1. ASSUME \/ ShippingStep /\ UNCHANGED <<waveVars, worderVars, returnVars, officeVars>>
             \/ WavesStep    /\ UNCHANGED <<worderVars, returnVars, officeVars>>
      PROVE  ServicesInv'
  <2>1. [WavesNext]_<<reqVars, shipVars, waveVars>> /\ Touches(WaveOps)
    BY <1>0, <1>1, WavesTouch DEF WavesNext
  <2>2. UNCHANGED <<worderVars, returnVars, sessionVars, billingVars, serialVars, enterpriseVars>>
    BY <1>1, Zenon DEF officeVars
  <2>3. WavesSound'
    BY <1>0, <2>1, OwnStep
  <2>4. WorderSound' /\ ReturnsSound' /\ SessionsSound' /\ BInv' /\ SerialsSound' /\ EnterpriseSound'
    BY <1>0, <2>1, <2>2, OpsApart, WorderApart, ReturnsApart, SessionsApart, BillingApart, SerialsApart,
       EnterpriseApart, Zenon
  <2>5. QED
    BY <2>3, <2>4 DEF ServicesInv
<1>2. ASSUME WorderStep, UNCHANGED <<shipVars, waveVars, returnVars, officeVars>> PROVE ServicesInv'
  <2>1. [WorderNext]_<<reqVars, worderVars>> /\ Touches(WorderOps)
    BY <1>2, WorderTouch DEF WorderNext
  <2>2. UNCHANGED <<shipVars, waveVars, returnVars, sessionVars, billingVars, serialVars, enterpriseVars>>
    BY <1>2, Zenon DEF officeVars
  <2>3. WorderSound'
    BY <1>0, <2>1, OwnStep
  <2>4. WavesSound' /\ ReturnsSound' /\ SessionsSound' /\ BInv' /\ SerialsSound' /\ EnterpriseSound'
    BY <1>0, <2>1, <2>2, OpsApart, WavesApart, ReturnsApart, SessionsApart, BillingApart, SerialsApart,
       EnterpriseApart, Zenon
  <2>5. QED
    BY <2>3, <2>4 DEF ServicesInv
<1>3. ASSUME ReturnsStep, UNCHANGED <<shipVars, waveVars, worderVars, officeVars>> PROVE ServicesInv'
  <2>1. [ReturnsNext]_<<reqVars, returnVars>> /\ Touches(ReturnOps)
    BY <1>0, <1>3, ReturnsTouch DEF ReturnsNext
  <2>2. UNCHANGED <<shipVars, waveVars, worderVars, sessionVars, billingVars, serialVars, enterpriseVars>>
    BY <1>3, Zenon DEF officeVars
  <2>3. ReturnsSound'
    BY <1>0, <2>1, OwnStep
  <2>4. WavesSound' /\ WorderSound' /\ SessionsSound' /\ BInv' /\ SerialsSound' /\ EnterpriseSound'
    BY <1>0, <2>1, <2>2, OpsApart, WavesApart, WorderApart, SessionsApart, BillingApart, SerialsApart,
       EnterpriseApart, Zenon
  <2>5. QED
    BY <2>3, <2>4 DEF ServicesInv
<1>4. ASSUME SessionsStep, UNCHANGED <<floorVars, billingVars, serialVars, enterpriseVars>> PROVE ServicesInv'
  <2>1. [SessionsNext]_<<reqVars, sessionVars>> /\ Touches(SessionOps)
    BY <1>4, SessionsTouch DEF SessionsNext
  <2>2. UNCHANGED <<shipVars, waveVars, worderVars, returnVars, billingVars, serialVars, enterpriseVars>>
    BY <1>4, Zenon DEF floorVars
  <2>3. SessionsSound'
    BY <1>0, <2>1, OwnStep
  <2>4. WavesSound' /\ WorderSound' /\ ReturnsSound' /\ BInv' /\ SerialsSound' /\ EnterpriseSound'
    BY <1>0, <2>1, <2>2, OpsApart, WavesApart, WorderApart, ReturnsApart, BillingApart, SerialsApart,
       EnterpriseApart, Zenon
  <2>5. QED
    BY <2>3, <2>4 DEF ServicesInv
<1>5. ASSUME BillingStep, UNCHANGED <<floorVars, sessionVars, serialVars, enterpriseVars>> PROVE ServicesInv'
  <2>1. [BillingNext]_<<reqVars, billingVars>> /\ Touches(BillingOps)
    BY <1>5, BillingTouch DEF BillingNext
  <2>2. UNCHANGED <<shipVars, waveVars, worderVars, returnVars, sessionVars, serialVars, enterpriseVars>>
    BY <1>5, Zenon DEF floorVars
  <2>3. BInv'
    BY <1>0, <2>1, OwnStep
  <2>4. WavesSound' /\ WorderSound' /\ ReturnsSound' /\ SessionsSound' /\ SerialsSound' /\ EnterpriseSound'
    BY <1>0, <2>1, <2>2, OpsApart, WavesApart, WorderApart, ReturnsApart, SessionsApart, SerialsApart,
       EnterpriseApart, Zenon
  <2>5. QED
    BY <2>3, <2>4 DEF ServicesInv
<1>6. ASSUME SerialsStep, UNCHANGED <<floorVars, sessionVars, billingVars, enterpriseVars>> PROVE ServicesInv'
  <2>1. [SerialsNext]_<<reqVars, serialVars>> /\ Touches(SerialOps)
    BY <1>6, SerialsTouch DEF SerialsNext
  <2>2. UNCHANGED <<shipVars, waveVars, worderVars, returnVars, sessionVars, billingVars, enterpriseVars>>
    BY <1>6, Zenon DEF floorVars
  <2>3. SerialsSound'
    BY <1>0, <2>1, OwnStep
  <2>4. WavesSound' /\ WorderSound' /\ ReturnsSound' /\ SessionsSound' /\ BInv' /\ EnterpriseSound'
    BY <1>0, <2>1, <2>2, OpsApart, WavesApart, WorderApart, ReturnsApart, SessionsApart, BillingApart,
       EnterpriseApart, Zenon
  <2>5. QED
    BY <2>3, <2>4 DEF ServicesInv
<1>7. ASSUME EnterpriseStep, UNCHANGED <<floorVars, sessionVars, billingVars, serialVars>> PROVE ServicesInv'
  <2>1. [EnterpriseNext]_<<reqVars, enterpriseVars>> /\ Touches(AnswerOps)
    BY <1>7, EnterpriseTouch DEF EnterpriseNext
  <2>2. UNCHANGED <<shipVars, waveVars, worderVars, returnVars, sessionVars, billingVars, serialVars>>
    BY <1>7, Zenon DEF floorVars
  <2>3. EnterpriseSound'
    BY <1>0, <2>1, OwnStep
  <2>4. WavesSound' /\ WorderSound' /\ ReturnsSound' /\ SessionsSound' /\ BInv' /\ SerialsSound'
    BY <1>0, <2>1, <2>2, OpsApart, WavesApart, WorderApart, ReturnsApart, SessionsApart, BillingApart,
       SerialsApart, Zenon
  <2>5. QED
    BY <2>3, <2>4 DEF ServicesInv
<1>8. ASSUME \/ \E c \in Client : Abort(c) /\ UNCHANGED <<floorVars, officeVars>>
             \/ UNCHANGED servicesVars
      PROVE  ServicesInv'
  <2>1. /\ [WavesNext]_<<reqVars, shipVars, waveVars>> /\ [WorderNext]_<<reqVars, worderVars>>
        /\ [ReturnsNext]_<<reqVars, returnVars>> /\ [SessionsNext]_<<reqVars, sessionVars>>
        /\ [BillingNext]_<<reqVars, billingVars>> /\ [SerialsNext]_<<reqVars, serialVars>>
        /\ [EnterpriseNext]_<<reqVars, enterpriseVars>>
    BY <1>8
       DEF WavesNext, WorderNext, ReturnsNext, SessionsNext, BillingNext, SerialsNext, EnterpriseNext, floorVars,
           officeVars, servicesVars
  <2>2. QED
    BY <1>0, <2>1, OwnStep DEF ServicesInv
<1>9. QED
  BY <1>1, <1>2, <1>3, <1>4, <1>5, <1>6, <1>7, <1>8, Zenon DEF ServicesNext

(* Nothing has happened yet.                                                *)
LEMMA ServicesFirst == ServicesInit => ServicesInv
<1> SUFFICES ASSUME ServicesInit PROVE ServicesInv
  OBVIOUS
<1>1. /\ ReqInit /\ ShippingInit /\ WavesInit /\ WorderInit /\ ReturnsInit
      /\ SessionsInit /\ BillingInit /\ SerialsInit /\ EnterpriseInit
  BY DEF ServicesInit
<1>2. WavesSound
  BY <1>1, ShippingInitial, WavesTypedFirst DEF WavesSound
<1>3. WorderSound
  <2>1. WTyped
    BY <1>1 DEF WorderInit, WTyped
  <2>2. QED
    BY <1>1, <2>1, WorderInitial DEF WorderSound
<1>4. ReturnsSound
  BY <1>1, ReturnsInitial, ReturnsTypedFirst DEF ReturnsSound
<1>5. SessionsSound
  BY <1>1, SessionsFirst DEF SessionsSound
<1>6. SerialsSound
  <2>1. scanned \subseteq SerialOrder
    BY <1>1 DEF SerialsInit
  <2>2. QED
    BY <1>1, <2>1, SerialsInitial DEF SerialsSound
<1>7. EnterpriseSound
  BY <1>1, EnterpriseFirst DEF EnterpriseSound
<1>8. QED
  BY <1>1, <1>2, <1>3, <1>4, <1>5, <1>6, <1>7, BillingStarts DEF ServicesInv

(* What the parts' invariants say of the state they share.                  *)
LEMMA ServicesInvariant == ServicesSpec => []ServicesInv
  BY ServicesFirst, ServicesInductive, PTL DEF ServicesSpec

(* Every row of every service is well formed, in every mix of requests.     *)
THEOREM ServicesTypeCorrect == ServicesSpec => []ServicesTypeOK
<1>1. ServicesInv => ServicesTypeOK
  <2> SUFFICES ASSUME ServicesInv PROVE ServicesTypeOK
    OBVIOUS
  <2>1. ShippingTypeOK /\ WavesTypeOK
    BY WavesTyped DEF ServicesInv, WavesSound
  <2>2. WorderTypeOK /\ ReturnsTypeOK
    BY WorderTyped, ReturnsTyped DEF ServicesInv, WorderSound, ReturnsSound
  <2>3. SessionsTypeOK /\ BillingTypeOK
    BY SessionsTyped, StrengtheningSuffices DEF ServicesInv, SessionsSound
  <2>4. SerialsTypeOK /\ EnterpriseTypeOK
    BY SerialsTyped, EnterpriseTyped DEF ServicesInv, SerialsSound, EnterpriseSound
  <2>5. QED
    BY <2>1, <2>2, <2>3, <2>4 DEF ServicesTypeOK
<1>2. QED
  BY <1>1, ServicesInvariant, PTL

(* What each service promises holds of all of them together: the requests   *)
(* in progress are one table, and no service's request is taken for one of  *)
(* another's.                                                               *)
THEOREM ServicesSafe ==
  ServicesSpec => [](/\ PackedWithinPicked /\ OneShipmentShips /\ ClosedOrderClosedLines
                     /\ ReturnWithinExpected /\ OneActivePerFamily /\ EndedStaysEnded /\ FailuresCounted
                     /\ BilledOnce /\ OneSerialPerPiece /\ ClaimsFollowFailures)
<1>1. ServicesInv =>
        /\ PackedWithinPicked /\ OneShipmentShips /\ ClosedOrderClosedLines
        /\ ReturnWithinExpected /\ OneActivePerFamily /\ EndedStaysEnded /\ FailuresCounted
        /\ BilledOnce /\ OneSerialPerPiece /\ ClaimsFollowFailures
  <2> SUFFICES ASSUME ServicesInv
               PROVE  /\ PackedWithinPicked /\ OneShipmentShips /\ ClosedOrderClosedLines
                      /\ ReturnWithinExpected /\ OneActivePerFamily /\ EndedStaysEnded /\ FailuresCounted
                      /\ BilledOnce /\ OneSerialPerPiece /\ ClaimsFollowFailures
    OBVIOUS
  <2>1. PackedWithinPicked /\ OneShipmentShips
    BY ClearedSuffices DEF ServicesInv, WavesSound, PInv
  <2>2. ClosedOrderClosedLines /\ ReturnWithinExpected
    BY DEF ServicesInv, WorderSound, WInv, ReturnsSound, RInv
  <2>3. OneActivePerFamily /\ EndedStaysEnded /\ FailuresCounted
    BY UsableSuffices DEF ServicesInv, SessionsSound, FInv, Tally, FailuresCounted
  <2>4. BilledOnce
    BY StrengtheningSuffices DEF ServicesInv
  <2>5. OneSerialPerPiece
    BY GoneSuffices DEF ServicesInv, SerialsSound
  <2>6. ClaimsFollowFailures
    BY DEF ServicesInv, EnterpriseSound, CInv
  <2>7. QED
    BY <2>1, <2>2, <2>3, <2>4, <2>5, <2>6
<1>2. QED
  BY <1>1, ServicesInvariant, PTL

(* Nor does any of them take an order back that was packed or shipped.      *)
THEOREM ServicesNeverReopen == ServicesSpec => WaveNeverReopens
<1>1. ServicesInv /\ [ServicesNext]_servicesVars => [OrdersKept]_order
  <2> SUFFICES ASSUME ServicesInv, [ServicesNext]_servicesVars PROVE [OrdersKept]_order
    OBVIOUS
  <2>1. PInv
    BY DEF ServicesInv, WavesSound
  <2>2. [WavesNext]_<<reqVars, shipVars, waveVars>> \/ UNCHANGED shipVars
    BY Zenon DEF ServicesNext, WavesNext, servicesVars, officeVars, floorVars
  <2>3. QED
    BY <2>1, <2>2, ReleaseKeeps DEF shipVars
<1>2. QED
  BY <1>1, ServicesInvariant, PTL DEF ServicesSpec, WaveNeverReopens, OrdersKept
=============================================================================

--------------------------- MODULE BrowserSession ---------------------------
(***************************************************************************)
(* The session of one browser tab: the token pair in its sessionStorage     *)
(* (core/auth/session.ts), the requests of its pages, which share one       *)
(* refresh when they are refused (core/api/http.ts), the realtime stream    *)
(* (core/api/realtime.ts), and logout (core/api/auth.ts).  AuthService      *)
(* handles each call in one transaction, as Sessions shows it may.  An      *)
(* access token and the refresh token issued with it are one number; a 401  *)
(* may come at any time, the token being too old or the password asked for  *)
(* a wrong one.                                                             *)
(***************************************************************************)
EXTENDS Integers, Sequences, FiniteSets

CONSTANTS Asker,       \* requests a page has in progress at once
          Stream,      \* those of them that are a realtime stream
          NumGrants,   \* bound: token pairs ever issued
          Budget       \* bounds considered: logins, and faults (calls whose answer
                       \* is lost, reloads)

ASSUME BrowserConstants == Stream \subseteq Asker /\ NumGrants \in Nat

VARIABLES
  tab,       \* the stored token pair, or None
  flight,    \* refreshPromise: the pair it sent and the answer
  leaving,   \* the logout in progress
  ask,       \* the requests of the pages
  wire,      \* calls of /auth that the server has not handled
  grant,     \* refresh_token_sessions; login names the first of its family
  past       \* families left (out), revoked (ended) or cut off (lost); the rest of Budget

browserVars == <<tab, flight, leaving, ask, wire, grant, past>>

None    == 0        \* also the answer of a refusal
Waiting == -1
Grant   == DOMAIN grant

NoFlight == [sent |-> None, ans |-> None]
Stays    == [pc |-> "none", sent |-> None, ans |-> None]
Rest     == [pc |-> "rest", began |-> None, auth |-> None]

BrowserTypeOK ==
  /\ tab \in 0..NumGrants
  /\ flight \in [sent : 0..NumGrants, ans : -1..NumGrants]
  /\ leaving \in [pc : {"none", "revoke", "refresh", "again"}, sent : 0..NumGrants, ans : -1..NumGrants]
  /\ ask \in [Asker -> [pc : {"rest", "sent", "wait", "again"}, began : 0..NumGrants, auth : 0..NumGrants]]
  /\ wire \subseteq [by : {"flight", "logout", "nobody"}, do : {"refresh", "revoke"}, t : 1..NumGrants,
                     fresh : BOOLEAN]
  /\ grant \in Seq([login : 1..NumGrants, st : {"ACTIVE", "ROTATED", "REVOKED", "COMPROMISED"}])

BrowserInit ==
  /\ tab = None /\ flight = NoFlight /\ leaving = Stays /\ wire = {} /\ grant = <<>>
  /\ ask = [a \in Asker |-> Rest]
  /\ \E b \in Budget :
       past = [logins |-> b.logins, faults |-> b.faults, out |-> {}, ended |-> {}, lost |-> {}]

Login(t) == grant[t].login
Kin(t)   == {s \in Grant : Login(s) = Login(t)}
Send(by, do, t, fresh) == [by |-> by, do |-> do, t |-> t, fresh |-> fresh]

-----------------------------------------------------------------------------
(* The login page is shown when nothing is stored.                          *)
LogIn ==
  /\ tab = None /\ past.logins > 0 /\ Len(grant) < NumGrants
  /\ grant' = Append(grant, [login |-> Len(grant) + 1, st |-> "ACTIVE"])
  /\ tab' = Len(grant) + 1
  /\ past' = [past EXCEPT !.logins = @ - 1]
  /\ UNCHANGED <<flight, leaving, ask, wire>>

(* apiRequest, and an attempt of readRealtimeStream.                        *)
Request(a) ==
  /\ ask[a] = Rest /\ tab # None
  /\ ask' = [ask EXCEPT ![a] = [pc |-> "sent", began |-> tab, auth |-> tab]]
  /\ UNCHANGED <<tab, flight, leaving, wire, grant, past>>

(* Any answer but 401, or none in time.                                     *)
Settled(a) ==
  /\ ask[a].pc \in {"sent", "again"}
  /\ ask' = [ask EXCEPT ![a] = Rest]
  /\ UNCHANGED <<tab, flight, leaving, wire, grant, past>>

(* A page repeats its request with the new pair; an attempt of the stream   *)
(* ends, and the loop makes another.                                        *)
Repeats(a) == a \notin Stream

(* Refused the first time: another request has replaced the pair meanwhile, *)
(* or the refresh is joined, or begun, or there is nothing to refresh.      *)
(* (Variant: every refused request begins a refresh of its own.)            *)
JoinNone == FALSE
Join     == flight # NoFlight

Refused(a) ==
  /\ ask[a].pc = "sent"
  /\ \/ /\ Repeats(a) /\ tab \notin {ask[a].began, None}
        /\ ask' = [ask EXCEPT ![a].pc = "again", ![a].auth = tab]
        /\ UNCHANGED <<flight, wire>>
     \/ /\ ~Repeats(a) \/ tab \in {ask[a].began, None}
        /\ \/ Join /\ ask' = [ask EXCEPT ![a].pc = "wait"] /\ UNCHANGED <<flight, wire>>
           \/ /\ ~Join /\ tab # None
              /\ ask' = [ask EXCEPT ![a].pc = "wait"]
              /\ flight' = [sent |-> tab, ans |-> Waiting]
              /\ wire' = wire \cup {Send("flight", "refresh", tab, FALSE)}
           \/ ~Join /\ tab = None /\ ask' = [ask EXCEPT ![a] = Rest] /\ UNCHANGED <<flight, wire>>
  /\ UNCHANGED <<tab, leaving, grant, past>>

RefusedAgain(a) ==
  /\ ask[a].pc = "again"
  /\ ask' = [ask EXCEPT ![a] = Rest]
  /\ tab' = IF tab = ask[a].auth THEN None ELSE tab
  /\ UNCHANGED <<flight, leaving, wire, grant, past>>

-----------------------------------------------------------------------------
(* performAccessTokenRefresh has its answer, and everyone who awaits it goes *)
(* on before anything else happens in the tab.  (Variant: the answer is     *)
(* kept whatever is stored by now.)                                         *)
KeepsAlways == flight.ans # None
Keeps       == flight.ans # None /\ tab = flight.sent

RefreshEnds ==
  LET awaits == {a \in Asker : ask[a].pc = "wait"}
      stored == IF Keeps THEN flight.ans ELSE IF tab = flight.sent THEN None ELSE tab
  IN
  /\ flight # NoFlight /\ flight.ans # Waiting
  /\ tab' = IF ~Keeps /\ \E a \in awaits : Repeats(a) /\ ask[a].auth = stored THEN None ELSE stored
  /\ ask' = [a \in Asker |-> IF a \notin awaits THEN ask[a]
                             ELSE IF Keeps /\ Repeats(a)
                                  THEN [ask[a] EXCEPT !.pc = "again", !.auth = stored] ELSE Rest]
  /\ flight' = NoFlight
  /\ UNCHANGED <<leaving, wire, grant, past>>

(* logout: the pair is forgotten first.                                     *)
LogOut ==
  /\ tab # None /\ leaving = Stays
  /\ leaving' = [pc |-> "revoke", sent |-> tab, ans |-> Waiting]
  /\ wire' = wire \cup {Send("logout", "revoke", tab, FALSE)}
  /\ tab' = None
  /\ past' = [past EXCEPT !.out = @ \cup {Login(tab)}]
  /\ UNCHANGED <<flight, ask, grant>>

(* What follows an answer: a revocation refused, its access token being too *)
(* old, is tried again with the pair a refresh gives.  (Variant: it is not.) *)
NextCallNone == {}
NextCall ==
  CASE leaving.pc = "revoke" /\ leaving.ans = None  -> {Send("logout", "refresh", leaving.sent, FALSE)}
    [] leaving.pc = "refresh" /\ leaving.ans # None -> {Send("logout", "revoke", leaving.ans, TRUE)}
    [] OTHER                                        -> {}

LogOutGoesOn ==
  /\ leaving # Stays /\ leaving.ans # Waiting
  /\ wire' = wire \cup NextCall
  /\ IF NextCall = {}
     THEN leaving' = Stays /\ past' = [past EXCEPT !.ended = @ \cup {Login(leaving.sent)}]
     ELSE /\ \E w \in NextCall :
               leaving' = [pc |-> IF w.do = "refresh" THEN "refresh" ELSE "again", sent |-> w.t, ans |-> Waiting]
          /\ UNCHANGED past
  /\ UNCHANGED <<tab, flight, ask, grant>>

-----------------------------------------------------------------------------
(* The server.                                                              *)
Turned(S, st) == [t \in Grant |-> IF t \in S THEN [grant[t] EXCEPT !.st = st] ELSE grant[t]]
Reply(w, ans) ==
  /\ wire' = wire \ {w}
  /\ flight'  = IF w.by = "flight" THEN [flight EXCEPT !.ans = ans] ELSE flight
  /\ leaving' = IF w.by = "logout" THEN [leaving EXCEPT !.ans = ans] ELSE leaving
  /\ UNCHANGED <<tab, ask, past>>

Refresh(w) ==
  /\ w.do = "refresh"
  /\ \/ /\ grant[w.t].st = "ACTIVE" /\ Len(grant) < NumGrants
        /\ grant' = Append(Turned({w.t}, "ROTATED"), [login |-> Login(w.t), st |-> "ACTIVE"])
        /\ Reply(w, Len(grant) + 1)
     \/ /\ grant[w.t].st # "ACTIVE"
        /\ grant' = Turned(Kin(w.t), "COMPROMISED")
        /\ Reply(w, None)

RevokeRefreshToken(w) ==
  /\ w.do = "revoke"
  /\ \/ /\ grant' = Turned({t \in Kin(w.t) : grant[t].st = "ACTIVE"}, "REVOKED")
        /\ Reply(w, w.t)
     \/ ~w.fresh /\ UNCHANGED grant /\ Reply(w, None)     \* its access token is too old

-----------------------------------------------------------------------------
(* Faults.  A call the tab no longer waits for may still reach the server.  *)
Loses(n) == past.faults > 0 /\ past' = [n EXCEPT !.faults = past.faults - 1]
Orphaned(S) == {IF w.by \in S THEN [w EXCEPT !.by = "nobody"] ELSE w : w \in wire}

RefreshFails ==
  /\ flight # NoFlight
  /\ Loses([past EXCEPT !.lost = @ \cup {Login(flight.sent)}])
  /\ flight' = NoFlight /\ wire' = Orphaned({"flight"})
  /\ ask' = [a \in Asker |-> IF ask[a].pc = "wait" THEN Rest ELSE ask[a]]
  /\ UNCHANGED <<tab, leaving, grant>>

LogOutFails ==
  /\ leaving # Stays
  /\ Loses(past)
  /\ leaving' = Stays /\ wire' = Orphaned({"logout"})
  /\ UNCHANGED <<tab, flight, ask, grant>>

(* A reload keeps what sessionStorage holds and nothing else.               *)
Reload ==
  /\ Loses([past EXCEPT !.lost = @ \cup {Login(t) : t \in {flight.sent} \ {None}}])
  /\ flight' = NoFlight /\ leaving' = Stays /\ wire' = Orphaned({"flight", "logout"})
  /\ ask' = [a \in Asker |-> Rest]
  /\ UNCHANGED <<tab, grant>>

BrowserNext ==
  \/ LogIn \/ LogOut \/ LogOutGoesOn \/ RefreshEnds
  \/ \E a \in Asker : Request(a) \/ Settled(a) \/ Refused(a) \/ RefusedAgain(a)
  \/ \E w \in wire : Refresh(w) \/ RevokeRefreshToken(w)
  \/ RefreshFails \/ LogOutFails \/ Reload

BrowserSpec == BrowserInit /\ [][BrowserNext]_browserVars

-----------------------------------------------------------------------------
(* Unless the answer of a refresh was lost, the pair the tab holds is the   *)
(* usable one of its family, or the answer that replaces it is on its way:  *)
(* however many requests are refused at once, the tab never sends a token   *)
(* that it has already used.                                                *)
SessionSurvives ==
  tab # None /\ Login(tab) \notin past.lost =>
    \/ grant[tab].st = "ACTIVE"
    \/ flight.sent = tab /\ flight.ans \in Grant /\ grant[flight.ans].st = "ACTIVE"

(* "A completed refresh cannot resurrect a concurrent logout": the tab never *)
(* holds a pair of a session it has left, and when logout has run to its end *)
(* no token of that session is usable at the server.                        *)
LogoutIsFinal ==
  /\ tab # None => Login(tab) \notin past.out
  /\ \A t \in Grant : Login(t) \in past.ended => grant[t].st # "ACTIVE"
=============================================================================

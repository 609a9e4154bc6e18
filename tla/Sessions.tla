------------------------------ MODULE Sessions ------------------------------
(***************************************************************************)
(* The sessions of one account: login, refreshTokens, logout and           *)
(* changePassword of auth.service.ts, as concurrent requests over one      *)
(* PostgreSQL database, called by the tabs of a browser through apiClient  *)
(* of api-client.ts and the service of services/auth.service.ts.           *)
(*                                                                         *)
(* The server issues pairs of an access and a refresh token.  The tabs     *)
(* share the stored pair; each tab refreshes it for one call at a time,    *)
(* and its other refused calls wait for that.  Statements of the server    *)
(* commit one by one.  The network may lose any request or answer.         *)
(*                                                                         *)
(* Abstracted: a pair is a value, the expiry of its access token a step;   *)
(* refresh tokens do not reach the end of their seven days; the account is *)
(* active; "api" stands for every other call, which changes no token; a    *)
(* page that is being left starts nothing new; the router shows a tab the  *)
(* login page or another at any time, so whether it does is a choice where *)
(* the code asks.                                                          *)
(***************************************************************************)
EXTENDS Integers, FiniteSets

CONSTANTS
  Pairs,   \* the token pairs that may be issued
  None,    \* no pair
  Calls,   \* the calls of apiClient in progress at the same time
  Tabs     \* the tabs of the browser

ASSUME PairsAssumption ==
  IsFiniteSet(Pairs) /\ IsFiniteSet(Calls) /\ None \notin Pairs

VARIABLES
  row,        \* the RefreshToken row of each pair
  session,    \* history: the pair each issued pair was rotated from, at first
  expired,    \* pairs whose access token has expired
  stored,     \* the pair in localStorage
  refreshing, \* isRefreshing of each tab
  leaving,    \* tabs on their way to the login page
  call,       \* each call, as its tab sees it
  req,        \* each request, as the server sees it, and its answer
  ended,      \* history: sessions that were logged out of, or revoked
  outlived,   \* history: those a login, refresh or stale logout went beside
  lost,       \* history: the network lost a request or an answer
  clashed     \* history: sessions two refreshes of one pair were under way in

vars == <<row, session, expired, stored, refreshing, leaving, call, req,
          ended, outlived, lost, clashed>>
server == <<row, session, expired, ended, outlived>>
browser == <<stored, refreshing, leaving>>

Idle == [op |-> "idle"]
Kinds == {"login", "api", "me", "logout", "password"}

Issued == {p \in Pairs : row[p] # "free"}
Free == Pairs \ Issued
NewPair == CHOOSE p \in Pairs : row[p] = "free"

Answer(q, ok, new) == [op |-> q.op, stage |-> "answer", pair |-> q.pair,
                       body |-> q.body, retry |-> q.retry, ok |-> ok, new |-> new]
At(c, op, stage) == req[c].op = op /\ req[c].stage = stage
Serve(c, state) == req' = [req EXCEPT ![c] = state]
Reply(c, ok, new) == Serve(c, Answer(req[c], ok, new))

(* What a call sends: the stored access token, and the refresh token of a  *)
(* logout or a refresh.                                                    *)
Request(op, pair, body, retry) ==
  [op |-> op, stage |-> "sent", pair |-> pair, body |-> body, retry |-> retry]

(***************************************************************************)
(* The server                                                              *)
(***************************************************************************)
Authorized(q) == q.pair # None /\ q.pair \notin expired

(* refreshTokens: the row is looked up, revoked, and a new one created.    *)
FindRefresh(c) ==
  /\ At(c, "refresh", "sent")
  /\ IF row[req[c].body] = "live"
       THEN Serve(c, [req[c] EXCEPT !.stage = "revoke"])
       ELSE Reply(c, FALSE, None)
  /\ UNCHANGED server

RevokedNothing(p) == row   \* mutant: the old token stays valid
Revoked(p) == [row EXCEPT ![p] = "revoked"]

RevokeRefresh(c) ==
  /\ At(c, "refresh", "revoke")
  /\ row' = Revoked(req[c].body)
  /\ Serve(c, [req[c] EXCEPT !.stage = "create"])
  /\ UNCHANGED <<session, expired, ended, outlived>>

CreateRefresh(c) ==
  /\ At(c, "refresh", "create") /\ Free # {}
  /\ row' = [row EXCEPT ![NewPair] = "live"]
  /\ session' = [session EXCEPT ![NewPair] = session[req[c].body]]
  /\ Reply(c, TRUE, NewPair)
  /\ UNCHANGED <<expired, ended, outlived>>

(* login: the password is compared, then the pair is stored.               *)
ComparePassword(c) ==
  /\ At(c, "login", "sent")
  /\ \/ Serve(c, [req[c] EXCEPT !.stage = "create"])
     \/ Reply(c, FALSE, None)
  /\ UNCHANGED server

CreateLogin(c) ==
  /\ At(c, "login", "create") /\ Free # {}
  /\ row' = [row EXCEPT ![NewPair] = "live"]
  /\ session' = [session EXCEPT ![NewPair] = NewPair]
  /\ Reply(c, TRUE, NewPair)
  /\ UNCHANGED <<expired, ended, outlived>>

(* Tokens a refresh found valid and has not answered yet, and their        *)
(* sessions.                                                               *)
Found(c) == At(c, "refresh", "revoke") \/ At(c, "refresh", "create")
Replacing == {req[c].body : c \in {d \in Calls : Found(d)}}
Rotating == {session[p] : p \in Replacing}

(* logout: the token in the body is revoked.  Once it was rotated, also    *)
(* for this very call, the session has another one.                        *)
ServeLogout(c) ==
  LET p == req[c].body
  IN /\ At(c, "logout", "sent")
     /\ IF Authorized(req[c])
          THEN /\ row' = Revoked(p)
               /\ ended' = ended \cup {session[p]}
               /\ outlived' = outlived \cup ({session[p]} \cap
                    IF row[p] = "live" THEN Rotating ELSE {session[p]})
               /\ Reply(c, TRUE, None)
          ELSE Reply(c, FALSE, None) /\ UNCHANGED <<row, ended, outlived>>
     /\ UNCHANGED <<session, expired>>

ServeOther(c) ==
  /\ At(c, "api", "sent") \/ At(c, "me", "sent")
  /\ Reply(c, Authorized(req[c]), None)
  /\ UNCHANGED server

(* changePassword: a wrong current password is answered like a bad token;  *)
(* the new hash is written, then every token is revoked.                   *)
CheckPassword(c) ==
  /\ At(c, "password", "sent")
  /\ \/ Authorized(req[c]) /\ Serve(c, [req[c] EXCEPT !.stage = "revoke"])
     \/ Reply(c, FALSE, None)
  /\ UNCHANGED server

OthersRevoked(q) ==   \* mutant: the caller's own session is kept
  [p \in Pairs |-> IF row[p] = "live" /\ p # q.pair THEN "revoked" ELSE row[p]]
AllRevoked(q) ==
  [p \in Pairs |-> IF row[p] = "live" THEN "revoked" ELSE row[p]]

RevokeAll(c) ==
  /\ At(c, "password", "revoke")
  /\ row' = AllRevoked(req[c])
  /\ ended' = ended \cup {session[p] : p \in Issued}
  /\ outlived' = outlived \cup Rotating
  /\ Reply(c, TRUE, None)
  /\ UNCHANGED <<session, expired>>

Server(c) ==
  /\ \/ FindRefresh(c) \/ RevokeRefresh(c) \/ ComparePassword(c)
     \/ ServeLogout(c) \/ ServeOther(c) \/ CheckPassword(c) \/ RevokeAll(c)
     \/ CreateRefresh(c) \/ CreateLogin(c)
  /\ UNCHANGED <<browser, call, lost>>

(***************************************************************************)
(* The browser                                                             *)
(***************************************************************************)
InTab(tab, st) == {c \in Calls : call[c].op # "idle" /\ call[c].tab = tab
                                   /\ call[c].st = st}

(* Enough pairs are left for every call to have one issued.                *)
PairsLeft ==
  Cardinality(Free) > Cardinality({c \in Calls : call[c] # Idle \/ req[c] # Idle})

(* Every page but the login page is for those who have a pair.             *)
Start(c) ==
  /\ call[c] = Idle /\ req[c] = Idle /\ PairsLeft
  /\ \E tab \in Tabs \ leaving, kind \in Kinds :
       /\ (kind = "login") = (stored = None)
       /\ call' = [call EXCEPT ![c] = [op |-> kind, tab |-> tab, st |-> "sent",
                                       body |-> stored]]
       /\ Serve(c, Request(kind, stored, stored, FALSE))
  /\ UNCHANGED <<server, browser, lost>>

(* What a call leaves in localStorage when it succeeds, and when it fails: *)
(* logout ends in clearStoredTokens either way, getCurrentUser if it fails.*)
KeptOn(c, ok) ==
  CASE call[c].op = "logout" -> None
    [] call[c].op = "me" /\ ~ok -> None
    [] call[c].op = "login" /\ ok -> req[c].new
    [] OTHER -> stored

(* An answer that no refresh can better.                                   *)
Settled(c) ==
  \/ req[c].ok
  \/ call[c].op = "login"
  \/ req[c].retry

Receive(c) ==
  /\ call[c] # Idle /\ call[c].st \in {"sent", "repeating"}
  /\ req[c] # Idle /\ req[c].stage = "answer" /\ Settled(c)
  /\ stored' = KeptOn(c, req[c].ok)
  /\ call' = [call EXCEPT ![c] = Idle] /\ Serve(c, Idle)
  /\ UNCHANGED <<server, refreshing, leaving, lost>>

(* The login page is loaded, unless the tab shows it already.              *)
Leaves(tab) == leaving' \in {leaving, leaving \cup {tab}}

(* 401: the first such call of the tab refreshes, the others wait; with no *)
(* pair stored the page is left.                                           *)
Denied(c) ==
  LET q == call[c]
  IN /\ q # Idle /\ q.st = "sent"
     /\ req[c] # Idle /\ req[c].stage = "answer" /\ ~Settled(c)
     /\ IF stored = None
          THEN /\ Leaves(q.tab)
               /\ call' = [call EXCEPT ![c] = Idle] /\ Serve(c, Idle)
               /\ UNCHANGED refreshing
          ELSE IF refreshing[q.tab]
          THEN /\ call' = [call EXCEPT ![c].st = "waiting"] /\ Serve(c, Idle)
               /\ UNCHANGED <<refreshing, leaving>>
          ELSE /\ refreshing' = [refreshing EXCEPT ![q.tab] = TRUE]
               /\ call' = [call EXCEPT ![c].st = "refreshing"]
               /\ Serve(c, Request("refresh", None, stored, FALSE))
               /\ UNCHANGED leaving
     /\ UNCHANGED <<server, stored, lost>>

(* onRefreshed: the calls that wait, also those an earlier refresh left    *)
(* waiting, are sent again, like the call that refreshed: with the new     *)
(* access token, and the body they had.                                    *)
NobodyWoken(c) == {c}   \* mutant: the subscribers are not called
Woken(c) == {c} \cup InTab(call[c].tab, "waiting")
                \cup InTab(call[c].tab, "stranded")

KeepRefresh(new) == stored   \* mutant: the new refresh token is not stored
StoredAnyhow(new) == "undefined"   \* mutant: a field the answer does not have
NewStored(new) == new

Refreshed(c) ==
  LET new == req[c].new
  IN /\ call[c] # Idle /\ call[c].st = "refreshing"
     /\ At(c, "refresh", "answer") /\ req[c].ok
     /\ stored' = NewStored(new)
     /\ refreshing' = [refreshing EXCEPT ![call[c].tab] = FALSE]
     /\ call' = [d \in Calls |-> IF d \in Woken(c)
                  THEN [call[d] EXCEPT !.st = IF d = c THEN "repeating" ELSE "sent"]
                  ELSE call[d]]
     /\ req' = [d \in Calls |-> IF d \in Woken(c)
                  THEN Request(call[d].op, new, call[d].body, TRUE) ELSE req[d]]
     /\ UNCHANGED <<server, leaving, lost>>

(* A refresh that failed drops the stored pair, whichever it is by now, and*)
(* the tab may refresh anew.                                               *)
Expel(c) ==
  /\ stored' = None
  /\ refreshing' = [refreshing EXCEPT ![call[c].tab] = FALSE]
  /\ UNCHANGED server

(* The server refused it: the page is left, the login page too.            *)
RefreshRefused(c) ==
  /\ call[c] # Idle /\ call[c].st = "refreshing"
  /\ At(c, "refresh", "answer") /\ ~req[c].ok
  /\ Expel(c)
  /\ leaving' = leaving \cup {call[c].tab}
  /\ call' = [call EXCEPT ![c] = Idle] /\ Serve(c, Idle)
  /\ UNCHANGED lost

(* The network failed it, or the repeated call that follows it: the login  *)
(* page stays, and the calls that wait stay with it.                       *)
RefreshBroken(c) ==
  LET tab == call[c].tab
  IN /\ call[c] # Idle /\ call[c].st \in {"refreshing", "repeating"}
     /\ Expel(c)
     /\ Leaves(tab)
     /\ call' = [d \in Calls |->
                    IF d = c THEN Idle
                    ELSE IF tab \notin leaving' /\ d \in InTab(tab, "waiting")
                    THEN [call[d] EXCEPT !.st = "stranded"] ELSE call[d]]

(* Any other call just ends: it gets no answer in time, or only part of it.*)
CallBroken(c) ==
  /\ call[c] # Idle
  /\ \/ call[c].st = "sent"
     \/ call[c].st = "repeating" /\ req[c].stage = "answer"
  /\ stored' = KeptOn(c, FALSE)
  /\ call' = [call EXCEPT ![c] = Idle]
  /\ UNCHANGED <<server, refreshing, leaving>>

(* The network drops a request before the server gets it, or its answer.   *)
Lose(c) ==
  /\ CallBroken(c) \/ RefreshBroken(c)
  /\ IF req[c].stage = "sent" THEN req' \in {[req EXCEPT ![c] = Idle], req}
                              ELSE UNCHANGED req
  /\ lost' = TRUE

(* Nobody waits for the answer any more.                                   *)
Drop(c) ==
  /\ call[c] = Idle /\ req[c] # Idle /\ req[c].stage = "answer"
  /\ Serve(c, Idle)
  /\ UNCHANGED <<server, browser, call, lost>>

(* The login page replaces the tab's page with everything in it; nobody    *)
(* gets the answer of a refresh it had begun.                              *)
Unload(tab) ==
  /\ tab \in leaving
  /\ leaving' = leaving \ {tab}
  /\ refreshing' = [refreshing EXCEPT ![tab] = FALSE]
  /\ call' = [c \in Calls |-> IF call[c] # Idle /\ call[c].tab = tab
                                THEN Idle ELSE call[c]]
  /\ lost' = (lost \/ InTab(tab, "refreshing") # {})
  /\ UNCHANGED <<server, stored, req>>

Handle(c) ==
  Receive(c) \/ Denied(c) \/ Refreshed(c) \/ RefreshRefused(c) \/ Drop(c)

(* The access token of a pair reaches its fifteen minutes.                 *)
Expire(p) ==
  /\ p \in Issued \ expired
  /\ expired' = expired \cup {p}
  /\ UNCHANGED <<row, session, ended, outlived, browser, call, req, lost>>

Clash(s) ==
  \E c, d \in Calls : c # d /\ req[c].op = "refresh" /\ req[d].op = "refresh"
                        /\ req[c].body = req[d].body /\ session[req[c].body] = s

Init ==
  /\ row = [p \in Pairs |-> "free"]
  /\ session = [p \in Pairs |-> p]
  /\ expired = {} /\ stored = None
  /\ refreshing = [tab \in Tabs |-> FALSE] /\ leaving = {}
  /\ call = [c \in Calls |-> Idle]
  /\ req = [c \in Calls |-> Idle]
  /\ ended = {} /\ outlived = {} /\ lost = FALSE /\ clashed = {}

Step ==
  \/ \E c \in Calls : Server(c) \/ Start(c) \/ Handle(c) \/ Lose(c)
  \/ \E tab \in Tabs : Unload(tab)
  \/ \E p \in Pairs : Expire(p)
Watch == clashed' = clashed \cup {s \in Pairs : Clash(s)'}
Next == Step /\ Watch

Spec == Init /\ [][Next]_vars

(* The server answers, the network delivers or gives up, pages load.       *)
FairSpec ==
  /\ Spec
  /\ \A c \in Calls :
       WF_vars(Server(c) /\ Watch) /\ WF_vars(Handle(c) /\ Watch)
  /\ \A tab \in Tabs : WF_vars(Unload(tab) /\ Watch)

(***************************************************************************)
(* Properties                                                              *)
(***************************************************************************)
CallState ==
  {Idle} \cup [op: Kinds, tab: Tabs, body: Pairs \cup {None},
               st: {"sent", "waiting", "refreshing", "repeating", "stranded"}]
RequestOps == Kinds \cup {"refresh"}
RequestState ==
  {Idle}
    \cup [op: RequestOps, stage: {"sent", "revoke", "create"},
          pair: Pairs \cup {None}, body: Pairs \cup {None}, retry: BOOLEAN]
    \cup [op: RequestOps, stage: {"answer"}, pair: Pairs \cup {None},
          body: Pairs \cup {None}, retry: BOOLEAN, ok: BOOLEAN,
          new: Pairs \cup {None}]

(* Every row, call and request holds a value it can have in the code.      *)
TypeOK ==
  /\ row \in [Pairs -> {"free", "live", "revoked"}]
  /\ session \in [Pairs -> Pairs]
  /\ expired \in SUBSET Pairs /\ stored \in Pairs \cup {None}
  /\ refreshing \in [Tabs -> BOOLEAN] /\ leaving \in SUBSET Tabs
  /\ call \in [Calls -> CallState] /\ req \in [Calls -> RequestState]
  /\ ended \in SUBSET Pairs /\ outlived \in SUBSET Pairs
  /\ lost \in BOOLEAN /\ clashed \in SUBSET Pairs

(* Rotation: a session has one valid refresh token, or one being created,  *)
(* never two, unless two refreshes of one token of it were under way       *)
(* together.                                                               *)
Live(s) == {p \in Pairs : row[p] = "live" /\ session[p] = s}
Creating(s) ==
  {c \in Calls : At(c, "refresh", "create") /\ session[req[c].body] = s}
OneLiveToken ==
  \A s \in Pairs \ clashed : Cardinality(Live(s)) + Cardinality(Creating(s)) <= 1

(* A session that was logged out of, or open when the password was changed,*)
(* has no valid token left, unless a refresh was under way at that moment, *)
(* the logout named a token that was no longer the session's, or two       *)
(* refreshes of one token left it with two.                                *)
EndedStaysEnded == \A s \in ended \ (outlived \cup clashed) : Live(s) = {}

(* refreshTokens looks a token up, revokes it and creates the next in three*)
(* statements, beside logins, logouts and password changes; yet a session  *)
(* goes from token to token as if in one step, and once no token of it is  *)
(* valid or being replaced it is over, even where refreshes clashed.       *)
Valid(s) ==
  {p \in Pairs : session[p] = s /\ (row[p] = "live" \/ p \in Replacing)}
Rotations ==
  INSTANCE Rotation WITH Tokens <- Pairs, valid <- [s \in Pairs |-> Valid(s)],
    used <- Issued, doubtful <- outlived \cup clashed
RotationAtomic == Rotations!Spec

(* The browser keeps the token that is valid: while no answer is lost and  *)
(* nobody ended the session, the stored token is valid, or its replacement *)
(* on the way, whatever tabs refresh it at the same time.                  *)
BeingReplaced(p) ==
  \E c \in Calls : req[c].op = "refresh" /\ req[c].body = p
StoredIsLive ==
  (stored # None /\ ~lost /\ session[stored] \notin ended)
    => row[stored] = "live" \/ BeingReplaced(stored)

(* Every call of the pages ends: answered, given up, or gone with its page;*)
(* also those that wait for another call's refresh, unless the network     *)
(* fails a refresh of their tab while it shows the login page, which stays *)
(* with the calls that wait.                                               *)
CallsSettle ==
  \A c \in Calls : (call[c] # Idle) ~>
                     (call[c] = Idle \/ call[c].st = "stranded")
=============================================================================

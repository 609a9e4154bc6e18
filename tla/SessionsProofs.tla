--------------------------- MODULE SessionsProofs ---------------------------
(***************************************************************************)
(* Proofs about Sessions, for any number of token pairs, calls and tabs:   *)
(* the types of rows, calls and requests, one valid refresh token for each *)
(* session, the refinement of Rotation and from it no valid token for a    *)
(* session that was ended, and a stored token that is valid while nothing  *)
(* was lost.                                                               *)
(***************************************************************************)
EXTENDS Sessions, FiniteSetTheorems, TLAPS

(***************************************************************************)
(* Requests                                                                *)
(***************************************************************************)
AnyPair == Pairs \cup {None}
Pending ==
  [op: RequestOps, stage: {"sent", "revoke", "create"}, pair: AnyPair,
   body: AnyPair, retry: BOOLEAN]
Answers ==
  [op: RequestOps, stage: {"answer"}, pair: AnyPair, body: AnyPair,
   retry: BOOLEAN, ok: BOOLEAN, new: AnyPair]
Working ==
  [op: Kinds, tab: Tabs, body: AnyPair,
   st: {"sent", "waiting", "refreshing", "repeating", "stranded"}]

LEMMA Shapes ==
  /\ RequestState = {Idle} \cup Pending \cup Answers
  /\ CallState = {Idle} \cup Working
BY DEF RequestState, CallState, Pending, Answers, Working, AnyPair

LEMMA RequestShape ==
  ASSUME NEW q \in RequestState
  PROVE  /\ q.op \in RequestOps => q \in Pending \cup Answers
         /\ q.op \in RequestOps /\ q.stage # "answer" => q \in Pending
         /\ q.op \in RequestOps /\ q.stage = "answer" => q \in Answers
         /\ q # Idle => q.op \in RequestOps
         /\ q = Idle => q.op = "idle"
<1>1. q = Idle => q.op = "idle" /\ q.op \notin RequestOps
  BY DEF Idle, RequestOps, Kinds
<1>2. q \in Pending => q.op \in RequestOps /\ q.stage # "answer"
  BY DEF Pending
<1>3. q \in Answers => q.op \in RequestOps /\ q.stage = "answer"
  BY DEF Answers
<1>. QED BY <1>1, <1>2, <1>3, Shapes

LEMMA CallShape ==
  ASSUME NEW q \in CallState
  PROVE  /\ q.op \in Kinds => q \in Working
         /\ q # Idle => q.op \in Kinds /\ q \in Working
         /\ q = Idle => q.op = "idle" /\ q.op \notin Kinds
<1>1. q = Idle => q.op = "idle" /\ q.op \notin Kinds
  BY DEF Idle, Kinds
<1>2. q \in Working => q.op \in Kinds
  BY DEF Working
<1>. QED BY <1>1, <1>2, Shapes

LEMMA StageTyped ==
  ASSUME NEW q \in Pending, NEW s \in {"sent", "revoke", "create"}
  PROVE  /\ [q EXCEPT !.stage = s] \in Pending
         /\ [q EXCEPT !.stage = s].op = q.op
         /\ [q EXCEPT !.stage = s].body = q.body
         /\ [q EXCEPT !.stage = s].stage = s
BY DEF Pending

LEMMA AnswerTyped ==
  ASSUME NEW q \in Pending, NEW ok \in BOOLEAN, NEW new \in AnyPair
  PROVE  /\ Answer(q, ok, new) \in Answers
         /\ Answer(q, ok, new).op = q.op /\ Answer(q, ok, new).body = q.body
         /\ Answer(q, ok, new).stage = "answer"
         /\ Answer(q, ok, new).ok = ok /\ Answer(q, ok, new).new = new
BY DEF Pending, Answers, Answer

LEMMA RequestTyped ==
  ASSUME NEW op \in RequestOps, NEW pair \in AnyPair, NEW body \in AnyPair,
         NEW retry \in BOOLEAN
  PROVE  /\ Request(op, pair, body, retry) \in Pending
         /\ Request(op, pair, body, retry).op = op
         /\ Request(op, pair, body, retry).body = body
         /\ Request(op, pair, body, retry).stage = "sent"
BY DEF Pending, Request

(***************************************************************************)
(* Types, and how a call and its request belong together                   *)
(***************************************************************************)
Answered(c) ==
  req[c].op \in {"login", "refresh"} /\ req[c].stage = "answer" /\ req[c].ok
CallOK(c) ==
  /\ call[c].op = "login" => call[c].st = "sent"
  /\ call[c].op \in Kinds \ {"login"} => call[c].body \in Issued
  /\ call[c].op \in Kinds /\ call[c].st \in {"sent", "repeating"}
       => req[c].op = call[c].op
  /\ call[c].op \in Kinds /\ call[c].st = "refreshing" => req[c].op = "refresh"
  /\ call[c].op \in Kinds /\ call[c].st \in {"waiting", "stranded"}
       => req[c] = Idle
RequestOK(c) ==
  /\ req[c].op \in RequestOps \ {"login"} => req[c].body \in Issued
  /\ Answered(c) => req[c].new \in Issued
TokensOK ==
  /\ stored \in Issued \cup {None} /\ ended \subseteq Issued
  /\ \A p \in Issued : session[p] \in Issued
TypeInv ==
  /\ TypeOK /\ TokensOK
  /\ \A c \in Calls : CallOK(c) /\ RequestOK(c)

(* What every step of the server does to the request it serves and to the  *)
(* rows: nothing issued is forgotten, and no session changes its pairs.    *)
Grows ==
  /\ row' \in [Pairs -> {"free", "live", "revoked"}]
  /\ session' \in [Pairs -> Pairs]
  /\ Issued \subseteq Issued'
  /\ \A p \in Issued : session'[p] = session[p]
  /\ \A p \in Issued' : session'[p] \in Issued'
  /\ ended' \subseteq Issued' /\ outlived' \in SUBSET Pairs
  /\ expired' \in SUBSET Pairs
Serves(c) ==
  /\ req' \in [Calls -> RequestState]
  /\ \A d \in Calls \ {c} : req'[d] = req[d]
  /\ req[c] \in Pending /\ req'[c] \in Pending \cup Answers
  /\ req'[c].op = req[c].op /\ req'[c].body = req[c].body
  /\ Answered(c)' => req'[c].new \in Issued'

LEMMA Served ==
  ASSUME TypeInv, NEW c \in Calls, NEW q, Serve(c, q)
  PROVE  /\ req'[c] = q /\ \A d \in Calls \ {c} : req'[d] = req[d]
         /\ q \in RequestState => req' \in [Calls -> RequestState]
BY DEF TypeInv, TypeOK, Serve

LEMMA Working1 ==
  ASSUME TypeInv, NEW c \in Calls, NEW op \in RequestOps,
         NEW s \in {"sent", "revoke", "create"}, At(c, op, s)
  PROVE  req[c] \in Pending /\ req[c] # Idle
<1>1. req[c] \in RequestState /\ req[c].op = op /\ req[c].stage = s /\ s # "answer"
  BY DEF At, TypeInv, TypeOK
<1>2. req[c] \in Pending
  BY <1>1, RequestShape
<1>3. "idle" \notin RequestOps
  BY DEF RequestOps, Kinds
<1>. QED BY <1>1, <1>2, <1>3, RequestShape

LEMMA ServesStage ==
  ASSUME TypeInv, NEW c \in Calls, req[c] \in Pending,
         NEW s \in {"sent", "revoke", "create"},
         Serve(c, [req[c] EXCEPT !.stage = s])
  PROVE  Serves(c) /\ req'[c].stage = s /\ ~Answered(c)'
<1> DEFINE q == [req[c] EXCEPT !.stage = s]
<1>2. q \in Pending /\ q.op = req[c].op /\ q.body = req[c].body /\ q.stage = s
  BY StageTyped
<1>1. /\ req'[c] = q /\ \A d \in Calls \ {c} : req'[d] = req[d]
      /\ req' \in [Calls -> RequestState]
  BY Served, <1>2, Shapes
<1> HIDE DEF q
<1>. QED BY <1>1, <1>2 DEF Serves, Answered

LEMMA ServesAnswer ==
  ASSUME TypeInv, NEW c \in Calls, req[c] \in Pending,
         NEW ok \in BOOLEAN, NEW new \in AnyPair, Reply(c, ok, new),
         ok /\ req[c].op \in {"login", "refresh"} => new \in Issued'
  PROVE  /\ Serves(c) /\ req'[c].stage = "answer"
         /\ req'[c].ok = ok /\ req'[c].new = new
<1>1. /\ req'[c] = Answer(req[c], ok, new) /\ \A d \in Calls \ {c} : req'[d] = req[d]
      /\ req' \in [Calls -> RequestState]
  BY Served, AnswerTyped, Shapes DEF Reply
<1>. QED BY <1>1, AnswerTyped DEF Serves, Answered

LEMMA GrowsNot ==
  ASSUME TypeInv, UNCHANGED server
  PROVE  Grows /\ Issued' = Issued
BY DEF TypeInv, TypeOK, TokensOK, server, Grows, Issued

LEMMA NewPairFree ==
  ASSUME Free # {}
  PROVE  NewPair \in Pairs /\ row[NewPair] = "free" /\ NewPair \notin Issued
<1>1. \E p \in Pairs : row[p] = "free"
  BY DEF Free, Issued
<1>2. NewPair \in Pairs /\ row[NewPair] = "free"
  BY <1>1 DEF NewPair
<1>. QED BY <1>2 DEF Issued

LEMMA GrowsByOne ==
  ASSUME TypeInv, NEW p \in Pairs \ Issued, NEW s \in Issued \cup {p},
         row' = [row EXCEPT ![p] = "live"], session' = [session EXCEPT ![p] = s],
         UNCHANGED <<expired, ended, outlived>>
  PROVE  Grows /\ Issued' = Issued \cup {p} /\ row'[p] = "live" /\ session'[p] = s
<1>t. TypeOK /\ TokensOK
  BY DEF TypeInv
<1>i. s \in Pairs /\ p \in Pairs
  BY DEF Issued
<1>1. Issued' = Issued \cup {p}
  BY <1>t, <1>i DEF Issued, TypeOK
<1>2. /\ row' \in [Pairs -> {"free", "live", "revoked"}]
      /\ session' \in [Pairs -> Pairs] /\ row'[p] = "live" /\ session'[p] = s
      /\ \A x \in Issued : session'[x] = session[x]
  BY <1>t, <1>i DEF TypeOK, Issued
<1>3. \A x \in Issued' : session'[x] \in Issued'
  BY <1>1, <1>2, <1>t DEF TokensOK
<1>. QED BY <1>1, <1>2, <1>3, <1>t DEF Grows, TypeOK, TokensOK

LEMMA GrowsRevoked ==
  ASSUME TypeInv, row' \in [Pairs -> {"free", "live", "revoked"}],
         \A p \in Pairs : row'[p] = row[p] \/ (row'[p] = "revoked" /\ row[p] # "free"),
         UNCHANGED <<session, expired>>,
         ended' \subseteq Issued, outlived' \in SUBSET Pairs
  PROVE  Grows /\ Issued' = Issued
<1>1. Issued' = Issued
  BY DEF Issued
<1>. QED BY <1>1 DEF Grows, TypeInv, TypeOK, TokensOK

LEMMA RevokedTyped ==
  ASSUME TypeInv, NEW p \in Issued, row' = Revoked(p)
  PROVE  /\ row' \in [Pairs -> {"free", "live", "revoked"}]
         /\ \A x \in Pairs : row'[x] = row[x] \/ (row'[x] = "revoked" /\ row[x] # "free")
         /\ row'[p] = "revoked" /\ \A x \in Pairs \ {p} : row'[x] = row[x]
BY DEF Revoked, TypeInv, TypeOK, Issued

LEMMA IssuedBody ==
  ASSUME TypeInv, NEW c \in Calls, req[c].op \in RequestOps \ {"login"}
  PROVE  req[c].body \in Issued /\ req[c].body \in Pairs
BY DEF TypeInv, RequestOK, Issued

LEMMA RotatingTyped ==
  ASSUME TypeInv
  PROVE  Rotating \subseteq Issued
<1> SUFFICES ASSUME NEW c \in Calls, req[c].op = "refresh"
             PROVE  session[req[c].body] \in Issued
  BY DEF Rotating, Replacing, Found, At
<1>1. req[c].body \in Issued
  BY IssuedBody DEF RequestOps
<1>. QED BY <1>1 DEF TypeInv, TokensOK

(* One step of the server.                                                 *)
LEMMA ServerStep ==
  ASSUME TypeInv, NEW c \in Calls, Server(c)
  PROVE  Serves(c) /\ Grows /\ UNCHANGED <<browser, call, lost>>
<1>b. UNCHANGED <<browser, call, lost>>
  BY DEF Server
<1>ops. Kinds \subseteq RequestOps /\ "refresh" \in RequestOps
        /\ {"login", "api", "me", "logout", "password"} = Kinds
  BY DEF RequestOps, Kinds
<1>none. None \in AnyPair /\ Issued \subseteq Pairs /\ Pairs \subseteq AnyPair
  BY DEF AnyPair, Issued
<1>1. CASE FindRefresh(c)
  <2>1. req[c] \in Pending
    BY <1>1, <1>ops, Working1 DEF FindRefresh
  <2>2. Serve(c, [req[c] EXCEPT !.stage = "revoke"]) \/ Reply(c, FALSE, None)
    BY <1>1 DEF FindRefresh
  <2>3. Serves(c)
    BY <2>1, <2>2, <1>none, ServesStage, ServesAnswer
  <2>. QED BY <1>1, <1>b, <2>3, GrowsNot DEF FindRefresh
<1>2. CASE RevokeRefresh(c)
  <2>1. req[c] \in Pending
    BY <1>2, <1>ops, Working1 DEF RevokeRefresh
  <2>2. Serves(c)
    BY <1>2, <2>1, ServesStage DEF RevokeRefresh
  <2>3. req[c].body \in Issued
    BY <1>2, <1>ops, IssuedBody DEF RevokeRefresh, At
  <2>4. Grows
    BY <1>2, <2>3, RevokedTyped, GrowsRevoked DEF RevokeRefresh, TypeInv, TypeOK, TokensOK
  <2>. QED BY <1>b, <2>2, <2>4
<1>3. CASE ComparePassword(c)
  <2>1. req[c] \in Pending
    BY <1>3, <1>ops, Working1 DEF ComparePassword
  <2>2. Serve(c, [req[c] EXCEPT !.stage = "create"]) \/ Reply(c, FALSE, None)
    BY <1>3 DEF ComparePassword
  <2>3. Serves(c)
    BY <2>1, <2>2, <1>none, ServesStage, ServesAnswer
  <2>. QED BY <1>3, <1>b, <2>3, GrowsNot DEF ComparePassword
<1>4. CASE ServeLogout(c)
  <2>1. req[c] \in Pending /\ req[c].op = "logout" /\ req[c].body \in Issued
    BY <1>4, <1>ops, Working1, IssuedBody DEF ServeLogout, At
  <2>2. Reply(c, TRUE, None) \/ Reply(c, FALSE, None)
    BY <1>4 DEF ServeLogout
  <2>3. Serves(c)
    BY <2>1, <2>2, <1>none, ServesAnswer
  <2> DEFINE p == req[c].body
  <2>4. CASE UNCHANGED <<row, ended, outlived>>
    BY <1>4, <2>4, GrowsNot, <1>b, <2>3 DEF ServeLogout, server
  <2>5. CASE /\ row' = Revoked(p)
             /\ ended' = ended \cup {session[p]}
             /\ outlived' = outlived \cup ({session[p]} \cap
                    IF row[p] = "live" THEN Rotating ELSE {session[p]})
    <3>1. session[p] \in Issued /\ session[p] \in Pairs
      BY <2>1, <1>none DEF TypeInv, TokensOK
    <3>2. ended' \subseteq Issued /\ outlived' \in SUBSET Pairs
      BY <2>5, <3>1 DEF TypeInv, TokensOK, TypeOK
    <3>3. UNCHANGED <<session, expired>>
      BY <1>4 DEF ServeLogout
    <3>4. Grows
      BY <2>1, <2>5, <3>2, <3>3, RevokedTyped, GrowsRevoked
    <3>. QED BY <1>b, <2>3, <3>4
  <2>. QED BY <1>4, <2>4, <2>5 DEF ServeLogout
<1>5. CASE ServeOther(c)
  <2>1. req[c] \in Pending /\ req[c].op \notin {"login", "refresh"}
    BY <1>5, <1>ops, Working1 DEF ServeOther, At
  <2>2. Authorized(req[c]) \in BOOLEAN
    BY DEF Authorized
  <2>3. Serves(c)
    BY <1>5, <2>1, <2>2, <1>none, ServesAnswer DEF ServeOther
  <2>. QED BY <1>5, <1>b, <2>3, GrowsNot DEF ServeOther
<1>6. CASE CheckPassword(c)
  <2>1. req[c] \in Pending
    BY <1>6, <1>ops, Working1 DEF CheckPassword
  <2>2. Serve(c, [req[c] EXCEPT !.stage = "revoke"]) \/ Reply(c, FALSE, None)
    BY <1>6 DEF CheckPassword
  <2>3. Serves(c)
    BY <2>1, <2>2, <1>none, ServesStage, ServesAnswer
  <2>. QED BY <1>6, <1>b, <2>3, GrowsNot DEF CheckPassword
<1>7. CASE RevokeAll(c)
  <2>1. req[c] \in Pending /\ req[c].op = "password"
    BY <1>7, <1>ops, Working1 DEF RevokeAll, At
  <2>2. Serves(c)
    BY <1>7, <2>1, <1>none, ServesAnswer DEF RevokeAll
  <2>3. /\ row' \in [Pairs -> {"free", "live", "revoked"}]
        /\ \A p \in Pairs : row'[p] = row[p] \/ (row'[p] = "revoked" /\ row[p] # "free")
    BY <1>7 DEF RevokeAll, AllRevoked, TypeInv, TypeOK
  <2>4. {session[p] : p \in Issued} \subseteq Issued
    BY DEF TypeInv, TokensOK
  <2>5. ended' \subseteq Issued /\ outlived' \in SUBSET Pairs
    BY <1>7, <1>none, <2>4, RotatingTyped DEF RevokeAll, TypeInv, TokensOK, TypeOK
  <2>6. Grows
    BY <1>7, <2>3, <2>5, GrowsRevoked DEF RevokeAll
  <2>. QED BY <1>b, <2>2, <2>6
<1>8. CASE CreateRefresh(c)
  <2>1. req[c] \in Pending /\ req[c].op = "refresh" /\ req[c].body \in Issued
    BY <1>8, <1>ops, Working1, IssuedBody DEF CreateRefresh, At
  <2>2. NewPair \in Pairs \ Issued
    BY <1>8, NewPairFree DEF CreateRefresh
  <2>3. session[req[c].body] \in Issued
    BY <2>1 DEF TypeInv, TokensOK
  <2>4. Grows /\ Issued' = Issued \cup {NewPair}
    BY <1>8, <2>2, <2>3, GrowsByOne DEF CreateRefresh
  <2>5. Serves(c)
    BY <1>8, <2>1, <2>2, <2>4, <1>none, ServesAnswer DEF CreateRefresh
  <2>. QED BY <1>b, <2>4, <2>5
<1>9. CASE CreateLogin(c)
  <2>1. req[c] \in Pending
    BY <1>9, <1>ops, Working1 DEF CreateLogin
  <2>2. NewPair \in Pairs \ Issued
    BY <1>9, NewPairFree DEF CreateLogin
  <2>4. Grows /\ Issued' = Issued \cup {NewPair}
    BY <1>9, <2>2, GrowsByOne DEF CreateLogin
  <2>5. Serves(c)
    BY <1>9, <2>1, <2>2, <2>4, <1>none, ServesAnswer DEF CreateLogin
  <2>. QED BY <1>b, <2>4, <2>5
<1>. QED
  BY <1>1, <1>2, <1>3, <1>4, <1>5, <1>6, <1>7, <1>8, <1>9 DEF Server

LEMMA ServerTyped ==
  ASSUME TypeInv, NEW c \in Calls, Server(c), clashed' \in SUBSET Pairs
  PROVE  TypeInv'
<1>1. Serves(c) /\ Grows /\ UNCHANGED <<browser, call, lost>>
  BY ServerStep
<1>2. TypeOK'
  BY <1>1 DEF TypeInv, TypeOK, Serves, Grows, TokensOK, browser, Issued
<1>3. TokensOK'
  BY <1>1 DEF TypeInv, Grows, TokensOK, browser
<1>4. ASSUME NEW d \in Calls PROVE CallOK(d)'
  <2>1. CallOK(d) /\ Issued \subseteq Issued' /\ call'[d] = call[d]
    BY <1>1 DEF TypeInv, Grows
  <2>2. req'[d].op = req[d].op
    BY <1>1 DEF Serves
  <2>3. req[d] = Idle => req'[d] = Idle
    <3>1. req[c].op \in RequestOps /\ "idle" \notin RequestOps
      BY <1>1 DEF Serves, Pending, RequestOps, Kinds
    <3>2. req[c] # Idle
      BY <3>1 DEF Idle
    <3>. QED BY <1>1, <3>2 DEF Serves
  <2>. QED BY <2>1, <2>2, <2>3 DEF CallOK
<1>5. ASSUME NEW d \in Calls PROVE RequestOK(d)'
  <2>1. RequestOK(d) /\ Issued \subseteq Issued'
    BY <1>1 DEF TypeInv, Grows
  <2>2. CASE d = c
    BY <1>1, <2>1, <2>2 DEF Serves, RequestOK
  <2>3. CASE d # c
    BY <1>1, <2>1, <2>3 DEF Serves, RequestOK, Answered
  <2>. QED BY <2>2, <2>3
<1>. QED BY <1>2, <1>3, <1>4, <1>5 DEF TypeInv

(***************************************************************************)
(* The steps of the browser change no row.                                 *)
(***************************************************************************)
LEMMA BrowserTyped ==
  ASSUME TypeInv, UNCHANGED server, stored' \in Issued \cup {None},
         refreshing' \in [Tabs -> BOOLEAN], leaving' \in SUBSET Tabs,
         call' \in [Calls -> CallState], req' \in [Calls -> RequestState],
         lost' \in BOOLEAN, clashed' \in SUBSET Pairs,
         \A d \in Calls : CallOK(d)' /\ RequestOK(d)'
  PROVE  TypeInv'
BY DEF TypeInv, TypeOK, TokensOK, server, Issued

LEMMA CallKept ==
  ASSUME TypeInv, UNCHANGED server, NEW d \in Calls,
         call'[d] = call[d], req'[d] = req[d]
  PROVE  CallOK(d)' /\ RequestOK(d)'
<1>1. CallOK(d) /\ RequestOK(d) /\ Issued' = Issued
  BY DEF TypeInv, server, Issued
<1>. QED BY <1>1 DEF CallOK, RequestOK, Answered

LEMMA CallGone ==
  ASSUME TypeInv, UNCHANGED server, NEW d \in Calls,
         call'[d] = Idle, req'[d] = req[d] \/ req'[d] = Idle
  PROVE  CallOK(d)' /\ RequestOK(d)'
<1>1. RequestOK(d) /\ Issued' = Issued
  BY DEF TypeInv, server, Issued
<1>2. "idle" \notin RequestOps /\ "idle" \notin Kinds /\ "idle" # "login"
      /\ "idle" # "refresh" /\ Idle.op = "idle"
  BY DEF RequestOps, Kinds, Idle
<1>3. CallOK(d)'
  BY <1>2 DEF CallOK
<1>4. RequestOK(d)'
  BY <1>1, <1>2 DEF RequestOK, Answered
<1>. QED BY <1>3, <1>4

(* A call that is sent, again or for the first time.                       *)
LEMMA CallSent ==
  ASSUME TypeInv, UNCHANGED server, NEW d \in Calls,
         NEW op \in Kinds, NEW pair \in AnyPair, NEW body \in AnyPair,
         NEW retry \in BOOLEAN, op # "login" => body \in Issued,
         call'[d].op = op, call'[d].body = body,
         call'[d].st = "sent" \/ (call'[d].st = "repeating" /\ op # "login"),
         req'[d] = Request(op, pair, body, retry)
  PROVE  CallOK(d)' /\ RequestOK(d)' /\ req'[d] \in RequestState
<1>0. Issued' = Issued /\ op \in RequestOps
  BY DEF server, Issued, RequestOps
<1>1. /\ req'[d] \in Pending /\ req'[d].op = op /\ req'[d].body = body
      /\ req'[d].stage = "sent"
  BY <1>0, RequestTyped
<1>2. CallOK(d)'
  BY <1>0, <1>1 DEF CallOK
<1>3. RequestOK(d)'
  BY <1>0, <1>1 DEF RequestOK, Answered
<1>. QED BY <1>1, <1>2, <1>3, Shapes

LEMMA StartTyped ==
  ASSUME TypeInv, NEW c \in Calls, Start(c), clashed' \in SUBSET Pairs
  PROVE  TypeInv'
<1>1. PICK tab \in Tabs \ leaving, kind \in Kinds :
        /\ (kind = "login") = (stored = None)
        /\ call' = [call EXCEPT ![c] = [op |-> kind, tab |-> tab, st |-> "sent",
                                        body |-> stored]]
        /\ Serve(c, Request(kind, stored, stored, FALSE))
  BY DEF Start
<1>2. UNCHANGED server /\ UNCHANGED browser /\ UNCHANGED lost
  BY DEF Start
<1>3. stored \in AnyPair /\ (kind # "login" => stored \in Issued)
      /\ stored \in Issued \cup {None}
  BY <1>1 DEF TypeInv, TokensOK, TypeOK, AnyPair
<1>4. /\ call'[c] = [op |-> kind, tab |-> tab, st |-> "sent", body |-> stored]
      /\ \A d \in Calls \ {c} : call'[d] = call[d]
  BY <1>1 DEF TypeInv, TypeOK
<1>5. /\ req'[c] = Request(kind, stored, stored, FALSE)
      /\ \A d \in Calls \ {c} : req'[d] = req[d]
  BY <1>1, Served
<1>6. CallOK(c)' /\ RequestOK(c)' /\ req'[c] \in RequestState
  <2>1. call'[c].op = kind /\ call'[c].st = "sent" /\ call'[c].body = stored
    BY <1>4
  <2>2. /\ FALSE \in BOOLEAN
        /\ call'[c].st = "sent" \/ (call'[c].st = "repeating" /\ kind # "login")
    BY <2>1
  <2>3. kind # "login" => stored \in Issued
    BY <1>3
  <2>. QED BY <1>2, <1>3, <1>5, <2>1, <2>2, <2>3, CallSent
<1>7. \A d \in Calls \ {c} : CallOK(d)' /\ RequestOK(d)'
  BY <1>2, <1>4, <1>5, CallKept
<1>8. req' \in [Calls -> RequestState]
  BY <1>1, <1>5, <1>6, Served
<1>9. call' \in [Calls -> CallState]
  <2>1. [op |-> kind, tab |-> tab, st |-> "sent", body |-> stored] \in Working
    BY <1>3 DEF Working
  <2>. QED BY <1>1, <2>1, Shapes DEF TypeInv, TypeOK
<1>. QED
  BY <1>2, <1>3, <1>6, <1>7, <1>8, <1>9, BrowserTyped DEF browser, TypeInv, TypeOK

(* A call that ends.                                                       *)
LEMMA EndTyped ==
  ASSUME TypeInv, NEW c \in Calls, UNCHANGED server, clashed' \in SUBSET Pairs,
         lost' \in BOOLEAN, stored' \in Issued \cup {None},
         refreshing' \in [Tabs -> BOOLEAN], leaving' \in SUBSET Tabs,
         call' = [call EXCEPT ![c] = Idle],
         UNCHANGED req \/ Serve(c, Idle)
  PROVE  TypeInv'
<1>1. call' \in [Calls -> CallState] /\ call'[c] = Idle
      /\ \A d \in Calls \ {c} : call'[d] = call[d]
  BY Shapes DEF TypeInv, TypeOK
<1>2. req' \in [Calls -> RequestState] /\ (req'[c] = req[c] \/ req'[c] = Idle)
      /\ \A d \in Calls \ {c} : req'[d] = req[d]
  BY Shapes DEF TypeInv, TypeOK, Serve
<1>3. \A d \in Calls : CallOK(d)' /\ RequestOK(d)'
  BY <1>1, <1>2, CallKept, CallGone
<1>. QED BY <1>1, <1>2, <1>3, BrowserTyped

LEMMA KeptTyped ==
  ASSUME TypeInv, NEW c \in Calls, NEW ok \in BOOLEAN,
         call[c].op = "login" /\ ok => req[c].new \in Issued
  PROVE  KeptOn(c, ok) \in Issued \cup {None}
BY DEF KeptOn, TypeInv, TokensOK

LEMMA RefusedTyped ==
  ASSUME TypeInv, NEW c \in Calls, RefreshRefused(c), clashed' \in SUBSET Pairs
  PROVE  TypeInv'
<1>1. call[c].tab \in Tabs
  BY CallShape DEF RefreshRefused, TypeInv, TypeOK, Working
<1>2. /\ UNCHANGED server /\ stored' \in Issued \cup {None} /\ UNCHANGED lost
      /\ refreshing' \in [Tabs -> BOOLEAN] /\ leaving' \in SUBSET Tabs
      /\ call' = [call EXCEPT ![c] = Idle] /\ Serve(c, Idle)
  BY <1>1 DEF RefreshRefused, Expel, TypeInv, TypeOK
<1>. QED BY <1>2, EndTyped DEF TypeInv, TypeOK

(* What a failed refresh makes of the calls: its own ends, and those that  *)
(* wait may be left behind.                                                *)
LEMMA BrokenCalls ==
  ASSUME TypeInv, NEW c \in Calls, RefreshBroken(c), NEW d \in Calls \ {c}
  PROVE  \/ call'[d] = call[d]
         \/ /\ call[d] # Idle /\ call[d].st = "waiting"
            /\ call'[d] = [call[d] EXCEPT !.st = "stranded"]
<1>1. call'[d] = call[d] \/ (d \in InTab(call[c].tab, "waiting")
                             /\ call'[d] = [call[d] EXCEPT !.st = "stranded"])
  BY DEF RefreshBroken
<1>2. d \in InTab(call[c].tab, "waiting") => call[d] # Idle /\ call[d].st = "waiting"
  BY DEF InTab, Idle
<1>. QED BY <1>1, <1>2

LEMMA StrandedTyped ==
  ASSUME TypeInv, UNCHANGED server, NEW d \in Calls, call[d] # Idle,
         call[d].st = "waiting", call'[d] = [call[d] EXCEPT !.st = "stranded"],
         req'[d] = req[d]
  PROVE  CallOK(d)' /\ RequestOK(d)' /\ call'[d] \in CallState
<1>1. call[d] \in Working /\ call[d].op \in Kinds /\ CallOK(d) /\ RequestOK(d)
  BY CallShape DEF TypeInv, TypeOK
<1>2. /\ call'[d] \in Working /\ call'[d].op = call[d].op
      /\ call'[d].st = "stranded" /\ call'[d].body = call[d].body
  BY <1>1 DEF Working
<1>3. Issued' = Issued
  BY DEF server, Issued
<1>4. CallOK(d)'
  BY <1>1, <1>2, <1>3 DEF CallOK
<1>5. RequestOK(d)'
  BY <1>1, <1>3 DEF RequestOK, Answered
<1>. QED BY <1>2, <1>4, <1>5, Shapes

LEMMA BrokenTyped ==
  ASSUME TypeInv, NEW c \in Calls, RefreshBroken(c), clashed' \in SUBSET Pairs,
         lost' \in BOOLEAN, UNCHANGED req \/ Serve(c, Idle)
  PROVE  TypeInv'
<1>t. TypeOK
  BY DEF TypeInv
<1>1. call[c].tab \in Tabs
  BY <1>t, CallShape DEF RefreshBroken, TypeOK, Working
<1>2. /\ UNCHANGED server /\ stored' \in Issued \cup {None}
      /\ refreshing' \in [Tabs -> BOOLEAN] /\ leaving' \in SUBSET Tabs
      /\ call'[c] = Idle
  BY <1>1, <1>t DEF RefreshBroken, Expel, Leaves, TypeOK
<1>3. req' \in [Calls -> RequestState] /\ (req'[c] = req[c] \/ req'[c] = Idle)
      /\ \A d \in Calls \ {c} : req'[d] = req[d]
  BY <1>t, Shapes DEF TypeOK, Serve
<1>4. ASSUME NEW d \in Calls
      PROVE  CallOK(d)' /\ RequestOK(d)' /\ call'[d] \in CallState
  <2>1. CASE d = c
    BY <1>2, <1>3, <2>1, CallGone, Shapes
  <2>2. CASE d # c /\ call'[d] = call[d]
    BY <1>2, <1>3, <1>t, <2>2, CallKept DEF TypeOK
  <2>3. CASE /\ d # c /\ call[d] # Idle /\ call[d].st = "waiting"
             /\ call'[d] = [call[d] EXCEPT !.st = "stranded"]
    BY <1>2, <1>3, <2>3, StrandedTyped
  <2>. QED BY <2>1, <2>2, <2>3, BrokenCalls
<1>5. call' \in [Calls -> CallState]
  BY <1>4 DEF RefreshBroken
<1>. QED BY <1>2, <1>3, <1>4, <1>5, BrowserTyped

LEMMA ReceiveTyped ==
  ASSUME TypeInv, NEW c \in Calls, Receive(c), clashed' \in SUBSET Pairs
  PROVE  TypeInv'
<1>1. /\ call[c] # Idle /\ call[c].st \in {"sent", "repeating"} /\ req[c] # Idle
      /\ req[c].stage = "answer" /\ stored' = KeptOn(c, req[c].ok)
      /\ call' = [call EXCEPT ![c] = Idle] /\ Serve(c, Idle)
      /\ UNCHANGED <<refreshing, leaving, lost>> /\ UNCHANGED server
  BY DEF Receive
<1>2. call[c].op \in Kinds /\ req[c] \in Answers /\ req[c].op = call[c].op
  BY <1>1, CallShape, RequestShape DEF TypeInv, TypeOK, CallOK
<1>3. req[c].ok \in BOOLEAN
  BY <1>2 DEF Answers
<1>4. call[c].op = "login" /\ req[c].ok => req[c].new \in Issued
  BY <1>1, <1>2 DEF TypeInv, RequestOK, Answered
<1>5. stored' \in Issued \cup {None}
  BY <1>1, <1>3, <1>4, KeptTyped
<1>. QED BY <1>1, <1>5, EndTyped DEF TypeInv, TypeOK

LEMMA RefreshTyped ==
  ASSUME TypeInv, UNCHANGED server, NEW c \in Calls, stored \in Issued,
         call'[c].op \in Kinds \ {"login"}, call'[c].st = "refreshing",
         call'[c].body \in Issued, req'[c] = Request("refresh", None, stored, FALSE)
  PROVE  CallOK(c)' /\ RequestOK(c)' /\ req'[c] \in RequestState
<1>0. /\ Issued' = Issued /\ "refresh" \in RequestOps /\ None \in AnyPair
      /\ stored \in AnyPair /\ FALSE \in BOOLEAN
  BY DEF server, Issued, RequestOps, AnyPair
<1>1. /\ req'[c] \in Pending /\ req'[c].op = "refresh" /\ req'[c].body = stored
      /\ req'[c].stage = "sent"
  <2> DEFINE q == Request("refresh", None, stored, FALSE)
  <2>1. /\ q \in Pending /\ q.op = "refresh" /\ q.body = stored
        /\ q.stage = "sent"
    BY <1>0 DEF Request, Pending
  <2> HIDE DEF q
  <2>2. req'[c] = q
    BY DEF q
  <2>. QED BY <2>1, <2>2
<1>2. CallOK(c)'
  BY <1>0, <1>1 DEF CallOK
<1>3. RequestOK(c)'
  BY <1>0, <1>1 DEF RequestOK, Answered
<1>. QED BY <1>1, <1>2, <1>3, Shapes

LEMMA DeniedTyped ==
  ASSUME TypeInv, NEW c \in Calls, Denied(c), clashed' \in SUBSET Pairs
  PROVE  TypeInv'
<1>0. /\ call[c] # Idle /\ call[c].st = "sent" /\ ~Settled(c)
      /\ UNCHANGED server /\ UNCHANGED <<stored, lost>>
  BY DEF Denied
<1>t. TypeOK /\ stored \in Issued \cup {None}
  BY DEF TypeInv, TokensOK
<1>q. call[c] \in Working /\ call[c].op \in Kinds \ {"login"} /\ call[c].tab \in Tabs
      /\ call[c].body \in Issued
  <2>1. call[c] \in Working /\ call[c].op \in Kinds
    BY <1>0, <1>t, CallShape DEF TypeOK
  <2>2. call[c].op # "login"
    BY <1>0 DEF Settled
  <2>. QED BY <2>1, <2>2 DEF Working, TypeInv, CallOK
<1>i. Idle \in RequestState /\ Idle \in CallState
  BY Shapes
<1>1. CASE /\ Leaves(call[c].tab)
           /\ call' = [call EXCEPT ![c] = Idle] /\ Serve(c, Idle)
           /\ UNCHANGED refreshing
  BY <1>0, <1>1, <1>t, <1>q, EndTyped DEF TypeOK, Leaves
<1>2. CASE /\ call' = [call EXCEPT ![c].st = "waiting"] /\ Serve(c, Idle)
           /\ UNCHANGED <<refreshing, leaving>>
  <2>1. /\ call'[c] = [call[c] EXCEPT !.st = "waiting"]
        /\ \A d \in Calls \ {c} : call'[d] = call[d]
    BY <1>2, <1>t DEF TypeOK
  <2>2. /\ call'[c] \in Working /\ call'[c].op = call[c].op
        /\ call'[c].st = "waiting" /\ call'[c].body = call[c].body
    BY <2>1, <1>q DEF Working
  <2>3. call' \in [Calls -> CallState]
    BY <1>2, <1>t, <2>1, <2>2, Shapes DEF TypeOK
  <2>4. req'[c] = Idle /\ req' \in [Calls -> RequestState]
        /\ \A d \in Calls \ {c} : req'[d] = req[d]
    BY <1>2, <1>i, Served
  <2>5. CallOK(c)' /\ RequestOK(c)'
    <3>1. Issued' = Issued
      BY <1>0 DEF server, Issued
    <3>2. req'[c].op = "idle" /\ "idle" \notin RequestOps
      BY <2>4 DEF Idle, RequestOps, Kinds
    <3>3. CallOK(c)'
      BY <1>q, <2>2, <2>4, <3>1 DEF CallOK
    <3>4. RequestOK(c)'
      BY <3>2 DEF RequestOK, Answered
    <3>. QED BY <3>3, <3>4
  <2>6. \A d \in Calls \ {c} : CallOK(d)' /\ RequestOK(d)'
    BY <1>0, <2>1, <2>4, CallKept
  <2>. QED BY <1>0, <1>2, <1>t, <2>3, <2>4, <2>5, <2>6, BrowserTyped DEF TypeOK
<1>3. CASE /\ stored # None
           /\ refreshing' = [refreshing EXCEPT ![call[c].tab] = TRUE]
           /\ call' = [call EXCEPT ![c].st = "refreshing"]
           /\ Serve(c, Request("refresh", None, stored, FALSE))
           /\ UNCHANGED leaving
  <2>1. /\ call'[c] = [call[c] EXCEPT !.st = "refreshing"]
        /\ \A d \in Calls \ {c} : call'[d] = call[d]
    BY <1>3, <1>t DEF TypeOK
  <2>2. /\ call'[c] \in Working /\ call'[c].op = call[c].op
        /\ call'[c].st = "refreshing" /\ call'[c].body = call[c].body
    BY <2>1, <1>q DEF Working
  <2>3. call' \in [Calls -> CallState]
    BY <1>3, <1>t, <2>1, <2>2, Shapes DEF TypeOK
  <2>4. /\ req'[c] = Request("refresh", None, stored, FALSE)
        /\ \A d \in Calls \ {c} : req'[d] = req[d]
    BY <1>3, Served
  <2>5. CallOK(c)' /\ RequestOK(c)' /\ req'[c] \in RequestState
    BY <1>0, <1>3, <1>t, <1>q, <2>2, <2>4, RefreshTyped
  <2>6. \A d \in Calls \ {c} : CallOK(d)' /\ RequestOK(d)'
    BY <1>0, <2>1, <2>4, CallKept
  <2>7. req' \in [Calls -> RequestState]
    BY <1>3, <2>4, <2>5, Served
  <2>. QED BY <1>0, <1>3, <1>t, <1>q, <2>3, <2>5, <2>6, <2>7, BrowserTyped DEF TypeOK
<1>. QED BY <1>1, <1>2, <1>3 DEF Denied

LEMMA RefreshedTyped ==
  ASSUME TypeInv, NEW c \in Calls, Refreshed(c), clashed' \in SUBSET Pairs
  PROVE  TypeInv'
<1> DEFINE new == req[c].new
<1>0. /\ call[c] # Idle /\ call[c].st = "refreshing" /\ UNCHANGED server
      /\ UNCHANGED <<leaving, lost>> /\ stored' = new
      /\ refreshing' = [refreshing EXCEPT ![call[c].tab] = FALSE]
  BY DEF Refreshed, NewStored
<1>t. TypeOK
  BY DEF TypeInv
<1>1. new \in Issued /\ new \in AnyPair /\ TRUE \in BOOLEAN
  <2>1. Answered(c)
    BY DEF Refreshed, At, Answered
  <2>. QED BY <2>1 DEF TypeInv, RequestOK, Issued, AnyPair
<1>2. call[c].tab \in Tabs
  BY <1>0, <1>t, CallShape DEF TypeOK, Working
<1>3. ASSUME NEW d \in Woken(c)
      PROVE  /\ d \in Calls /\ call[d] \in Working
             /\ call[d].op \in Kinds \ {"login"} /\ call[d].body \in Issued
  <2>1. d \in Calls /\ call[d].op # "idle"
        /\ call[d].st \in {"waiting", "stranded", "refreshing"}
    BY <1>0, <1>t, CallShape DEF Woken, InTab, TypeOK, Kinds
  <2>2. call[d] \in Working /\ call[d].op \in Kinds
    BY <1>t, <2>1, CallShape DEF TypeOK
  <2>. QED BY <2>1, <2>2 DEF TypeInv, CallOK
<1>4. ASSUME NEW d \in Calls
      PROVE  CallOK(d)' /\ RequestOK(d)' /\ req'[d] \in RequestState
               /\ call'[d] \in CallState
  <2>1. CASE d \in Woken(c)
    <3>1. /\ \E st \in {"sent", "repeating"} : call'[d] = [call[d] EXCEPT !.st = st]
          /\ req'[d] = Request(call[d].op, new, call[d].body, TRUE)
      BY <2>1 DEF Refreshed
    <3>2. /\ call'[d] \in Working /\ call'[d].op = call[d].op
          /\ call'[d].st \in {"sent", "repeating"} /\ call'[d].body = call[d].body
      BY <2>1, <1>3, <3>1 DEF Working
    <3>3. /\ call[d].op \in Kinds \ {"login"} /\ call[d].body \in AnyPair
          /\ call[d].body \in Issued
      BY <2>1, <1>3 DEF AnyPair, Issued
    <3>. QED BY <1>0, <1>1, <3>1, <3>2, <3>3, CallSent, Shapes
  <2>2. CASE d \notin Woken(c)
    <3>1. call'[d] = call[d] /\ req'[d] = req[d]
      BY <2>2 DEF Refreshed
    <3>. QED BY <1>0, <1>t, <3>1, CallKept DEF TypeOK
  <2>. QED BY <2>1, <2>2
<1>5. call' \in [Calls -> CallState] /\ req' \in [Calls -> RequestState]
  BY <1>4 DEF Refreshed
<1>. QED BY <1>0, <1>1, <1>2, <1>4, <1>5, <1>t, BrowserTyped DEF TypeOK

LEMMA LoseTyped ==
  ASSUME TypeInv, NEW c \in Calls, Lose(c), clashed' \in SUBSET Pairs
  PROVE  TypeInv'
<1>1. lost' \in BOOLEAN /\ (UNCHANGED req \/ Serve(c, Idle))
  BY DEF Lose, Serve
<1>2. CASE RefreshBroken(c)
  BY <1>1, <1>2, BrokenTyped
<1>3. CASE CallBroken(c)
  <2>1. stored' \in Issued \cup {None}
    BY <1>3, KeptTyped DEF CallBroken
  <2>2. UNCHANGED server /\ UNCHANGED refreshing /\ UNCHANGED leaving
        /\ call' = [call EXCEPT ![c] = Idle]
    BY <1>3 DEF CallBroken, server
  <2>. QED BY <1>1, <2>1, <2>2, EndTyped DEF TypeInv, TypeOK
<1>. QED BY <1>2, <1>3 DEF Lose

LEMMA DropTyped ==
  ASSUME TypeInv, NEW c \in Calls, Drop(c), clashed' \in SUBSET Pairs
  PROVE  TypeInv'
<1>1. /\ call[c] = Idle /\ Serve(c, Idle) /\ UNCHANGED server
      /\ UNCHANGED browser /\ UNCHANGED call /\ UNCHANGED lost
  BY DEF Drop
<1>2. call' = [call EXCEPT ![c] = Idle]
  BY <1>1 DEF TypeInv, TypeOK
<1>. QED BY <1>1, <1>2, EndTyped DEF browser, TypeInv, TypeOK, TokensOK

LEMMA UnloadTyped ==
  ASSUME TypeInv, NEW tab \in Tabs, Unload(tab), clashed' \in SUBSET Pairs
  PROVE  TypeInv'
<1>1. /\ leaving' = leaving \ {tab} /\ refreshing' = [refreshing EXCEPT ![tab] = FALSE]
      /\ UNCHANGED server /\ UNCHANGED <<stored, req>>
  BY DEF Unload
<1>2. \A d \in Calls : call'[d] = Idle \/ call'[d] = call[d]
  BY DEF Unload
<1>3. call' \in [Calls -> CallState]
  BY <1>2, Shapes DEF Unload, TypeInv, TypeOK
<1>4. lost' \in BOOLEAN
  BY DEF Unload
<1>5. \A d \in Calls : CallOK(d)' /\ RequestOK(d)'
  BY <1>1, <1>2, CallKept, CallGone
<1>. QED BY <1>1, <1>3, <1>4, <1>5, BrowserTyped DEF TypeInv, TypeOK, TokensOK

LEMMA ExpireTyped ==
  ASSUME TypeInv, NEW p \in Pairs, Expire(p), clashed' \in SUBSET Pairs
  PROVE  TypeInv'
<1>1. UNCHANGED <<row, session, ended, outlived, call, req, lost>> /\ UNCHANGED browser
  BY DEF Expire
<1>2. TypeOK'
  BY <1>1 DEF Expire, TypeInv, TypeOK, browser
<1>3. TokensOK'
  BY <1>1 DEF TypeInv, TokensOK, Issued, browser
<1>4. ASSUME NEW d \in Calls PROVE CallOK(d)' /\ RequestOK(d)'
  BY <1>1 DEF TypeInv, CallOK, RequestOK, Answered, Issued
<1>. QED BY <1>2, <1>3, <1>4 DEF TypeInv

LEMMA TypeInvariant == Spec => []TypeInv
<1>1. Init => TypeInv
  <2> SUFFICES ASSUME Init PROVE TypeInv
    OBVIOUS
  <2>1. TypeOK
    BY Shapes DEF Init, TypeOK
  <2>2. TokensOK
    BY DEF Init, TokensOK, Issued
  <2>3. ASSUME NEW c \in Calls PROVE CallOK(c) /\ RequestOK(c)
    <3>1. call[c] = Idle /\ req[c] = Idle
      BY DEF Init
    <3>2. "idle" \notin RequestOps /\ "idle" \notin Kinds /\ Idle.op = "idle"
      BY DEF RequestOps, Kinds, Idle
    <3>. QED BY <3>1, <3>2 DEF CallOK, RequestOK, Answered
  <2>. QED BY <2>1, <2>2, <2>3 DEF TypeInv
<1>2. TypeInv /\ [Next]_vars => TypeInv'
  <2> SUFFICES ASSUME TypeInv, [Next]_vars PROVE TypeInv'
    OBVIOUS
  <2>1. CASE Next
    <3>1. clashed' \in SUBSET Pairs
      BY <2>1 DEF Next, Watch, TypeInv, TypeOK
    <3>2. ASSUME NEW c \in Calls, Server(c) \/ Start(c) PROVE TypeInv'
      BY <3>1, <3>2, ServerTyped, StartTyped
    <3>3. ASSUME NEW c \in Calls, Handle(c) \/ Lose(c) PROVE TypeInv'
      BY <3>1, <3>3, ReceiveTyped, DeniedTyped, RefreshedTyped, RefusedTyped,
         DropTyped, LoseTyped DEF Handle
    <3>4. ASSUME NEW tab \in Tabs, Unload(tab) PROVE TypeInv'
      BY <3>1, <3>4, UnloadTyped
    <3>5. ASSUME NEW p \in Pairs, Expire(p) PROVE TypeInv'
      BY <3>1, <3>5, ExpireTyped
    <3>. QED BY <2>1, <3>2, <3>3, <3>4, <3>5 DEF Next, Step
  <2>2. CASE UNCHANGED vars
    BY <2>2 DEF vars, TypeInv, TypeOK, TokensOK, CallOK, RequestOK, Answered, Issued
  <2>. QED BY <2>1, <2>2
<1>. QED BY <1>1, <1>2, PTL DEF Spec

(* Whatever the network loses and however calls, tabs and expiries         *)
(* interleave, every row, call and request holds a value it can have.      *)
THEOREM SessionsTyped == Spec => []TypeOK
BY TypeInvariant, PTL DEF TypeInv

(***************************************************************************)
(* One valid token.  A refresh has the stake of its session from the       *)
(* moment its token is no longer valid until it has created the next one.  *)
(***************************************************************************)
Stake(c) ==
  /\ req[c].op = "refresh"
  /\ \/ req[c].stage = "create"
     \/ req[c].stage = "revoke" /\ row[req[c].body] # "live"
LiveOne(s) ==
  \A p, q \in Pairs :
    row[p] = "live" /\ row[q] = "live" /\ session[p] = s /\ session[q] = s => p = q
StakeOne(s) ==
  \A c, d \in Calls :
    Stake(c) /\ Stake(d) /\ session[req[c].body] = s /\ session[req[d].body] = s => c = d
StakeApart(s) ==
  \A c \in Calls, p \in Pairs :
    Stake(c) /\ session[req[c].body] = s /\ row[p] = "live" => session[p] # s
Unique(s) == ~Clash(s) /\ LiveOne(s) /\ StakeOne(s) /\ StakeApart(s)

(* A step that makes no token valid: a session's stake may pass from its   *)
(* token to the one refresh of that token.                                 *)
LEMMA NoNewToken ==
  ASSUME NEW s, Unique(s), ~Clash(s)', UNCHANGED session,
         \A p \in Pairs : row'[p] = "live" => row[p] = "live",
         \A d \in Calls : Stake(d)' =>
           /\ req'[d].op = "refresh" /\ req'[d].body = req[d].body
           /\ req[d].body \in Pairs
           /\ \/ Stake(d)
              \/ row[req[d].body] = "live" /\ row'[req[d].body] # "live"
  PROVE  Unique(s)'
<1>1. LiveOne(s)'
  BY DEF Unique, LiveOne
<1>2. ASSUME NEW c \in Calls, NEW d \in Calls, Stake(c)', Stake(d)',
             session'[req'[c].body] = s, session'[req'[d].body] = s
      PROVE  c = d
  <2>1. req'[c].body = req'[d].body => c = d
    BY <1>2 DEF Clash
  <2>. QED BY <1>2, <2>1 DEF Unique, LiveOne, StakeOne, StakeApart
<1>3. ASSUME NEW c \in Calls, NEW p \in Pairs, Stake(c)',
             session'[req'[c].body] = s, row'[p] = "live"
      PROVE  session'[p] # s
  BY <1>3 DEF Unique, LiveOne, StakeApart
<1>. QED BY <1>1, <1>2, <1>3 DEF Unique, StakeOne, StakeApart
LEMMA BrowserRequests ==
  ASSUME TypeInv, NEW c \in Calls, Start(c) \/ Handle(c) \/ Lose(c)
  PROVE  /\ UNCHANGED server
         /\ \A d \in Calls :
              req'[d] = req[d] \/ req'[d].op = "idle" \/ req'[d].stage = "sent"
<1>i. Idle.op = "idle"
  BY DEF Idle
<1>r. \A op, pair, body, retry : Request(op, pair, body, retry).stage = "sent"
  BY DEF Request
<1>s. \A q : Serve(c, q) => req'[c] = q /\ \A d \in Calls \ {c} : req'[d] = req[d]
  BY Served
<1>e. Serve(c, Idle) =>
        \A d \in Calls : req'[d] = req[d] \/ req'[d].op = "idle"
  BY <1>i, <1>s
<1>1. CASE Start(c)
  <2>1. PICK op, pair, body, retry : Serve(c, Request(op, pair, body, retry))
    BY <1>1 DEF Start
  <2>2. \A d \in Calls : req'[d] = req[d] \/ req'[d].stage = "sent"
    BY <2>1, <1>s, <1>r
  <2>. QED BY <1>1, <2>2 DEF Start
<1>2. CASE Receive(c) \/ RefreshRefused(c) \/ Drop(c)
  BY <1>2, <1>e DEF Receive, RefreshRefused, Expel, Drop
<1>3. CASE Denied(c)
  <2>1. \/ Serve(c, Idle)
        \/ Serve(c, Request("refresh", None, stored, FALSE))
    BY <1>3 DEF Denied
  <2>2. \A d \in Calls :
          req'[d] = req[d] \/ req'[d].op = "idle" \/ req'[d].stage = "sent"
    BY <2>1, <1>e, <1>r, <1>s
  <2>. QED BY <1>3, <2>2 DEF Denied
<1>4. CASE Refreshed(c)
  <2>1. \A d \in Calls : \/ req'[d] = req[d]
          \/ \E op, pair, body, retry : req'[d] = Request(op, pair, body, retry)
    BY <1>4 DEF Refreshed
  <2>2. \A d \in Calls : req'[d] = req[d] \/ req'[d].stage = "sent"
    BY <2>1, <1>r
  <2>3. UNCHANGED server
    BY <1>4 DEF Refreshed
  <2>. QED BY <2>2, <2>3
<1>5. CASE Lose(c)
  <2>1. UNCHANGED req \/ Serve(c, Idle)
    BY <1>5 DEF Lose, Serve
  <2>2. UNCHANGED server
    BY <1>5 DEF Lose, RefreshBroken, CallBroken, Expel, server
  <2>. QED BY <2>1, <2>2, <1>e
<1>. QED BY <1>1, <1>2, <1>3, <1>4, <1>5 DEF Handle

LEMMA BrowserSparesFound ==
  ASSUME TypeInv, NEW c \in Calls, Start(c) \/ Handle(c) \/ Lose(c)
  PROVE  \A d \in Calls : Found(d) => req'[d] = req[d]
<1>f. \A d \in Calls : Found(d) =>
        req[d] # Idle /\ req[d].stage \in {"revoke", "create"}
  BY DEF Found, At, Idle
<1>s. \A q : Serve(c, q) => \A d \in Calls \ {c} : req'[d] = req[d]
  BY Served
<1>1. CASE Start(c)
  BY <1>1, <1>f, <1>s DEF Start
<1>2. CASE Receive(c) \/ RefreshRefused(c) \/ Drop(c) \/ Denied(c)
  BY <1>2, <1>f, <1>s DEF Receive, RefreshRefused, Drop, Denied, At
<1>3. CASE Refreshed(c)
  <2>1. ASSUME NEW d \in Calls, d \in Woken(c) PROVE ~Found(d)
    <3>1. CASE d = c
      BY <1>3, <1>f, <3>1 DEF Refreshed, At
    <3>2. CASE d # c
      <4>1. call[d] # Idle /\ call[d].st \in {"waiting", "stranded"}
        BY <2>1, <3>2 DEF Woken, InTab, Idle
      <4>2. req[d] = Idle
        BY <4>1, CallShape DEF TypeInv, TypeOK, CallOK
      <4>. QED BY <1>f, <4>2
    <3>. QED BY <3>1, <3>2
  <2>. QED BY <1>3, <2>1 DEF Refreshed
<1>4. CASE Lose(c)
  <2>1. UNCHANGED req \/ (req[c].stage = "sent" /\ Serve(c, Idle))
    BY <1>4 DEF Lose, Serve
  <2>. QED BY <1>f, <1>s, <2>1
<1>. QED BY <1>1, <1>2, <1>3, <1>4 DEF Handle

LEMMA QuietUnique ==
  ASSUME TypeInv, NEW s, Unique(s), ~Clash(s)', UNCHANGED <<row, session>>,
         \A d \in Calls :
           req'[d] = req[d] \/ req'[d].op = "idle" \/ req'[d].stage = "sent"
  PROVE  Unique(s)'
<1>1. ASSUME NEW d \in Calls, Stake(d)'
      PROVE  req'[d] = req[d] /\ Stake(d) /\ req[d].op = "refresh" /\ req[d].body \in Pairs
  <2>1. req'[d] = req[d]
    BY <1>1 DEF Stake
  <2>2. Stake(d) /\ req[d].op = "refresh"
    BY <1>1, <2>1 DEF Stake
  <2>. QED BY <2>1, <2>2, IssuedBody DEF RequestOps
<1>. QED BY <1>1, NoNewToken

(* The statements of the server that create a token.                       *)
LEMMA Creates ==
  ASSUME TypeInv, NEW c \in Calls, CreateRefresh(c) \/ CreateLogin(c)
  PROVE  /\ NewPair \in Pairs /\ NewPair \notin Issued /\ row[NewPair] = "free"
         /\ row'[NewPair] = "live" /\ \A p \in Pairs \ {NewPair} : row'[p] = row[p]
         /\ \A p \in Pairs \ {NewPair} : session'[p] = session[p]
         /\ req'[c].stage = "answer" /\ UNCHANGED <<ended, outlived>>
         /\ CreateRefresh(c) => session'[NewPair] = session[req[c].body]
         /\ CreateLogin(c) => session'[NewPair] = NewPair
<1> DEFINE n == NewPair
<1>t. /\ row \in [Pairs -> {"free", "live", "revoked"}]
      /\ session \in [Pairs -> Pairs]
  BY DEF TypeInv, TypeOK
<1>1. n \in Pairs /\ n \notin Issued /\ row[n] = "free"
  BY NewPairFree DEF CreateRefresh, CreateLogin
<1>2. /\ row' = [row EXCEPT ![n] = "live"] /\ UNCHANGED <<ended, outlived>>
      /\ CreateRefresh(c) => session' = [session EXCEPT ![n] = session[req[c].body]]
      /\ CreateLogin(c) => session' = [session EXCEPT ![n] = n]
  BY DEF CreateRefresh, CreateLogin
<1>3. req'[c] = Answer(req[c], TRUE, n)
  BY Served DEF CreateRefresh, CreateLogin, Reply
<1>4. req'[c].stage = "answer"
  BY <1>3 DEF Answer
<1> HIDE DEF n
<1>5. /\ row'[n] = "live" /\ \A p \in Pairs \ {n} : row'[p] = row[p]
      /\ \A p \in Pairs \ {n} : session'[p] = session[p]
      /\ CreateRefresh(c) => session'[n] = session[req[c].body]
      /\ CreateLogin(c) => session'[n] = n
  BY <1>t, <1>1, <1>2
<1>. QED BY <1>1, <1>2, <1>4, <1>5 DEF n

(* What a server step does to the rows and to the request it serves.       *)
LEMMA ServerUnique ==
  ASSUME TypeInv, NEW s, Unique(s), ~Clash(s)', NEW c \in Calls, Server(c)
  PROVE  Unique(s)'
<1>t. TypeOK /\ TokensOK /\ Serves(c) /\ Grows
  BY ServerStep DEF TypeInv
<1>r. "refresh" \in RequestOps \ {"login"}
  BY DEF RequestOps
<1>b. \A d \in Calls : req[d].op = "refresh" => req[d].body \in Issued /\ req[d].body \in Pairs
  BY IssuedBody, <1>r
<1>o. ASSUME NEW d \in Calls, d # c, Stake(d)', UNCHANGED session,
             \A p \in Pairs : row'[p] = "live" => row[p] = "live"
      PROVE  /\ req'[d].op = "refresh" /\ req'[d].body = req[d].body
             /\ req[d].body \in Pairs
             /\ \/ Stake(d)
                \/ row[req[d].body] = "live" /\ row'[req[d].body] # "live"
  <2>1. req'[d] = req[d]
    BY <1>o, <1>t DEF Serves
  <2>2. req[d].op = "refresh"
    BY <1>o, <2>1 DEF Stake
  <2>. QED BY <1>o, <1>b, <2>1, <2>2 DEF Stake
<1>1. ASSUME UNCHANGED session, ~Stake(c)',
             \A p \in Pairs : row'[p] = "live" => row[p] = "live"
      PROVE  Unique(s)'
  BY <1>1, <1>o, NoNewToken
<1>2. CASE FindRefresh(c)
  <2>1. UNCHANGED <<row, session>>
    BY <1>2 DEF FindRefresh, server
  <2>2. /\ Serve(c, [req[c] EXCEPT !.stage = "revoke"]) /\ row[req[c].body] = "live"
        \/ Reply(c, FALSE, None)
    BY <1>2 DEF FindRefresh
  <2>3. req[c] \in Pending /\ None \in AnyPair
    BY <1>t DEF Serves, AnyPair
  <2>4. ~Stake(c)'
    <3>1. CASE Reply(c, FALSE, None)
      BY <2>3, <3>1, ServesAnswer DEF Stake
    <3>2. CASE Serve(c, [req[c] EXCEPT !.stage = "revoke"]) /\ row[req[c].body] = "live"
      <4>1. req'[c].stage = "revoke" /\ req'[c].body = req[c].body
        BY <2>3, <3>2, ServesStage DEF Serves
      <4>. QED BY <2>1, <3>2, <4>1 DEF Stake
    <3>. QED BY <2>2, <3>1, <3>2
  <2>. QED BY <2>1, <2>4, <1>1
<1>3. CASE ComparePassword(c) \/ ServeOther(c) \/ CheckPassword(c)
  <2>1. UNCHANGED <<row, session>>
    BY <1>3 DEF ComparePassword, ServeOther, CheckPassword, server
  <2>2. req'[c].op # "refresh"
    BY <1>3, <1>t DEF ComparePassword, ServeOther, CheckPassword, At, Serves
  <2>. QED BY <2>1, <2>2, <1>1 DEF Stake
<1>4. CASE RevokeRefresh(c)
  <2>1. req[c].op = "refresh" /\ req[c].stage = "revoke" /\ req[c].body \in Issued
    BY <1>4, <1>b DEF RevokeRefresh, At
  <2>2. UNCHANGED session /\ row'[req[c].body] = "revoked"
        /\ \A p \in Pairs \ {req[c].body} : row'[p] = row[p]
    BY <1>4, <2>1, RevokedTyped DEF RevokeRefresh
  <2>3. Stake(c) \/ (row[req[c].body] = "live" /\ row'[req[c].body] # "live")
    BY <2>1, <2>2 DEF Stake
  <2>4. req'[c].op = "refresh" /\ req'[c].body = req[c].body /\ req[c].body \in Pairs
    BY <1>b, <1>t, <2>1 DEF Serves
  <2>5. \A p \in Pairs : row'[p] = "live" => row[p] = "live"
    BY <2>2
  <2>. QED BY <1>o, <2>2, <2>3, <2>4, <2>5, NoNewToken
<1>5. CASE ServeLogout(c)
  <2>1. UNCHANGED session /\ req[c].op = "logout" /\ req[c].body \in Issued
    BY <1>5, IssuedBody DEF ServeLogout, At, RequestOps, Kinds
  <2>2. \A p \in Pairs : row'[p] = "live" => row[p] = "live"
    BY <1>5, <2>1, RevokedTyped DEF ServeLogout
  <2>3. ~Stake(c)'
    BY <1>t, <2>1 DEF Serves, Stake
  <2>. QED BY <2>1, <2>2, <2>3, <1>1
<1>6. CASE RevokeAll(c)
  <2>1. UNCHANGED session /\ req[c].op = "password"
    BY <1>6 DEF RevokeAll, At
  <2>2. \A p \in Pairs : row'[p] = "live" => row[p] = "live"
    BY <1>6 DEF RevokeAll, AllRevoked
  <2>3. ~Stake(c)'
    BY <1>t, <2>1 DEF Serves, Stake
  <2>. QED BY <2>1, <2>2, <2>3, <1>1
<1>7. CASE CreateRefresh(c) \/ CreateLogin(c)
  <2> DEFINE n == NewPair
             b == req[c].body
  <2>1. n \in Pairs /\ n \notin Issued /\ row[n] = "free"
    BY <1>7, Creates
  <2>2. /\ row'[n] = "live" /\ \A p \in Pairs \ {n} : row'[p] = row[p]
        /\ \A p \in Pairs \ {n} : session'[p] = session[p]
    BY <1>7, Creates
  <2>3. req'[c].stage = "answer"
    BY <1>7, Creates
  <2>4. ASSUME NEW d \in Calls, Stake(d)'
        PROVE  /\ d # c /\ req'[d] = req[d] /\ Stake(d) /\ req[d].body \in Issued
               /\ req[d].body \in Pairs \ {n}
    <3>1. d # c
      BY <2>3, <2>4 DEF Stake
    <3>2. req'[d] = req[d] /\ req[d].op = "refresh"
      BY <1>t, <2>4, <3>1 DEF Serves, Stake
    <3>3. req[d].body \in Issued /\ req[d].body \in Pairs \ {n}
      BY <1>b, <2>1, <3>2
    <3>. QED BY <2>2, <2>4, <3>1, <3>2, <3>3 DEF Stake
  <2>5. session'[n] = s =>
          /\ \A p \in Pairs \ {n} : row[p] = "live" => session[p] # s
          /\ \A d \in Calls \ {c} : Stake(d) => session[req[d].body] # s
    <3>1. CASE CreateRefresh(c)
      <4>1. Stake(c) /\ session'[n] = session[b]
        BY <3>1, Creates DEF CreateRefresh, Stake, At
      <4>. QED BY <4>1 DEF Unique, StakeOne, StakeApart
    <3>2. CASE CreateLogin(c)
      <4>1. session'[n] = n
        BY <3>2, Creates
      <4>2. \A p \in Pairs : row[p] = "live" => p \in Issued
        BY DEF Issued
      <4>3. \A p \in Issued : session[p] # n
        BY <1>t, <2>1 DEF TokensOK
      <4>. QED BY <1>b, <4>1, <4>2, <4>3 DEF Stake
    <3>. QED BY <1>7, <3>1, <3>2
  <2>6. LiveOne(s)'
    BY <2>1, <2>2, <2>5 DEF Unique, LiveOne
  <2>7. StakeOne(s)'
    BY <2>2, <2>4 DEF Unique, StakeOne
  <2>8. StakeApart(s)'
    <3> SUFFICES ASSUME NEW d \in Calls, NEW p \in Pairs, Stake(d)',
                        session'[req'[d].body] = s, row'[p] = "live"
                 PROVE  session'[p] # s
      BY DEF StakeApart
    <3>1. session'[req'[d].body] = session[req[d].body]
      BY <2>2, <2>4
    <3>. QED BY <2>2, <2>4, <2>5, <3>1 DEF Unique, StakeApart
  <2>. QED BY <2>6, <2>7, <2>8 DEF Unique
<1>. QED
  BY <1>2, <1>3, <1>4, <1>5, <1>6, <1>7 DEF Server

UniqueInv == TypeInv /\ \A s \in Pairs \ clashed : Unique(s)

LEMMA InitUnique == Init /\ TypeInv => UniqueInv
<1> SUFFICES ASSUME Init, TypeInv, NEW s \in Pairs PROVE Unique(s)
  BY DEF UniqueInv
<1>1. (\A c \in Calls : req[c].op # "refresh") /\ (\A p \in Pairs : row[p] # "live")
  BY DEF Init, Idle
<1>. QED BY <1>1 DEF Unique, Clash, LiveOne, StakeOne, StakeApart, Stake

LEMMA StepUnique == UniqueInv /\ TypeInv' /\ [Next]_vars => UniqueInv'
<1> SUFFICES ASSUME UniqueInv, TypeInv', [Next]_vars, NEW s \in Pairs, s \notin clashed'
             PROVE  Unique(s)'
  BY DEF UniqueInv
<1>1. CASE Next
  <2>1. TypeInv /\ Unique(s) /\ ~Clash(s)'
    BY <1>1 DEF Next, Watch, UniqueInv
  <2>2. ASSUME NEW c \in Calls, Server(c) PROVE Unique(s)'
    BY <2>1, <2>2, ServerUnique
  <2>3. ASSUME NEW c \in Calls, Start(c) \/ Handle(c) \/ Lose(c) PROVE Unique(s)'
    <3>1. UNCHANGED <<row, session>>
      BY <2>1, <2>3, BrowserRequests DEF server
    <3>. QED BY <2>1, <2>3, <3>1, BrowserRequests, QuietUnique
  <2>4. ASSUME NEW tab \in Tabs, Unload(tab) PROVE Unique(s)'
    BY <2>1, <2>4, QuietUnique DEF Unload, server
  <2>5. ASSUME NEW p \in Pairs, Expire(p) PROVE Unique(s)'
    BY <2>1, <2>5, QuietUnique DEF Expire
  <2>. QED BY <1>1, <2>2, <2>3, <2>4, <2>5 DEF Next, Step
<1>2. CASE UNCHANGED vars
  BY <1>2 DEF vars, UniqueInv, Unique, Clash, LiveOne, StakeOne, StakeApart, Stake
<1>. QED BY <1>1, <1>2

LEMMA UniqueInvariant == Spec => []UniqueInv
BY InitUnique, StepUnique, TypeInvariant, PTL DEF Spec

(* Rotation: a session never has two valid refresh tokens, or one and      *)
(* another being created, unless two refreshes of one token of it          *)
(* overlapped; those of other sessions do not matter.                      *)
THEOREM AlwaysOneLiveToken == Spec => []OneLiveToken
<1>1. UniqueInv => OneLiveToken
  <2> SUFFICES ASSUME NEW s \in Pairs, Unique(s)
               PROVE  Cardinality(Live(s)) + Cardinality(Creating(s)) <= 1
    BY DEF UniqueInv, OneLiveToken
  <2>1. Cardinality({}) = 0 /\ \A x : Cardinality({x}) = 1
    BY FS_EmptySet, FS_Singleton
  <2>2. Live(s) = {} \/ \E p : Live(s) = {p}
    BY DEF Live, Unique, LiveOne
  <2>3. Creating(s) = {} \/ \E c : Creating(s) = {c}
    BY DEF Creating, At, Unique, StakeOne, Stake
  <2>4. Live(s) = {} \/ Creating(s) = {}
    BY DEF Live, Creating, At, Unique, StakeApart, Stake
  <2>5. \/ Cardinality(Live(s)) = 0 /\ Cardinality(Creating(s)) \in {0, 1}
        \/ Cardinality(Live(s)) \in {0, 1} /\ Cardinality(Creating(s)) = 0
    BY <2>1, <2>2, <2>3, <2>4
  <2>. QED BY <2>5
<1>. QED BY <1>1, UniqueInvariant, PTL

(***************************************************************************)
(* The refinement of Rotation.  A session can go on with its valid token,  *)
(* or with the one a refresh has found valid, and only a refresh of one of *)
(* these leads to another.                                                 *)
(***************************************************************************)
LEMMA FoundIssued ==
  ASSUME TypeInv
  PROVE  /\ \A c \in Calls : Found(c) => /\ req[c].op = "refresh"
                                         /\ req[c].body \in Issued /\ req[c].body \in Pairs
         /\ Replacing \subseteq Issued /\ Rotating \subseteq Issued
         /\ \A s : Valid(s) \subseteq Issued
<1>1. \A c \in Calls : Found(c) => /\ req[c].op = "refresh"
                                   /\ req[c].body \in Issued /\ req[c].body \in Pairs
  BY IssuedBody DEF Found, At, RequestOps
<1>. QED BY <1>1, RotatingTyped DEF Replacing, Valid, Issued

(* What a step of the server leaves of the refreshes beside it.            *)
LEMMA ServerReplacing ==
  ASSUME TypeInv, NEW c \in Calls, Serves(c)
  PROVE  /\ \A d \in Calls \ {c} : Found(d)' <=> Found(d)
         /\ \A d \in Calls : req'[d].body = req[d].body
         /\ \A p : p # req[c].body => (p \in Replacing' <=> p \in Replacing)
<1>1. \A d \in Calls \ {c} : req'[d] = req[d]
  BY DEF Serves
<1>2. \A d \in Calls : req'[d].body = req[d].body
  BY DEF Serves
<1>3. \A d \in Calls \ {c} : Found(d)' <=> Found(d)
  BY <1>1 DEF Found, At
<1>. QED BY <1>2, <1>3 DEF Replacing

(* Refreshes of one token clash where they did: the server changes neither *)
(* what a request is nor the session of an issued pair.                    *)
LEMMA ServerClash ==
  ASSUME UniqueInv, NEW c \in Calls, Server(c), Watch
  PROVE  clashed' = clashed
<1>1. TypeInv /\ Serves(c) /\ Grows
  BY ServerStep DEF UniqueInv
<1>2. \A d \in Calls : req'[d].op = req[d].op /\ req'[d].body = req[d].body
  BY <1>1 DEF Serves
<1>3. \A d \in Calls : req[d].op = "refresh" => session'[req[d].body] = session[req[d].body]
  BY <1>1, IssuedBody DEF Grows, RequestOps
<1>4. \A s \in Pairs : Clash(s)' => Clash(s)
  BY <1>2, <1>3 DEF Clash
<1>. QED BY <1>4 DEF Watch, UniqueInv, Unique

(* The steps that take nothing from a session and give it nothing.         *)
Quiet ==
  /\ Issued' = Issued /\ UNCHANGED <<session, ended, outlived>>
  /\ \A p \in Pairs : (row[p] = "live" \/ p \in Replacing)' <=> (row[p] = "live" \/ p \in Replacing)

LEMMA QuietRotation ==
  ASSUME TypeInv, Quiet, Watch,
         \A s \in Pairs : Clash(s)' => s \in Issued
  PROVE  [Rotations!Next]_(Rotations!vars)
<1>1. \A s \in Pairs : Valid(s)' = Valid(s)
  BY DEF Quiet, Valid
<1>2. Issued' = Issued /\ UNCHANGED <<ended, outlived>>
  BY DEF Quiet
<1> DEFINE S == {s \in Pairs : Clash(s)'}
<1>3. S \in SUBSET Issued
  OBVIOUS
<1>4. clashed' = clashed \cup S
  BY DEF Watch
<1> HIDE DEF S
<1>5. Rotations!Doubt(S)
  BY <1>1, <1>2, <1>4 DEF Rotations!Doubt
<1>. QED BY <1>3, <1>5 DEF Rotations!Next

LEMMA BrowserRotation ==
  ASSUME TypeInv, TypeInv', Watch,
         \/ \E c \in Calls : Start(c) \/ Handle(c) \/ Lose(c)
         \/ \E tab \in Tabs : Unload(tab)
         \/ \E p \in Pairs : Expire(p)
  PROVE  [Rotations!Next]_(Rotations!vars)
<1>1. /\ UNCHANGED <<row, session, ended, outlived>>
      /\ \A d \in Calls : Found(d) => req'[d] = req[d]
      /\ \A d \in Calls : req'[d] = req[d] \/ req'[d].op = "idle" \/ req'[d].stage = "sent"
  <2>1. CASE \E c \in Calls : Start(c) \/ Handle(c) \/ Lose(c)
    BY <2>1, BrowserRequests, BrowserSparesFound DEF server
  <2>2. CASE \E tab \in Tabs : Unload(tab)
    BY <2>2 DEF Unload, server
  <2>3. CASE \E p \in Pairs : Expire(p)
    BY <2>3 DEF Expire
  <2>. QED BY <2>1, <2>2, <2>3
<1>2. \A d \in Calls : Found(d)' => Found(d) /\ req'[d] = req[d]
  BY <1>1 DEF Found, At
<1>3. \A d \in Calls : Found(d) => Found(d)' /\ req'[d] = req[d]
  BY <1>1 DEF Found, At
<1>4. Replacing' = Replacing
  BY <1>2, <1>3 DEF Replacing
<1>5. ASSUME NEW s \in Pairs, Clash(s)' PROVE s \in Issued
  <2>1. PICK c \in Calls : req'[c].op = "refresh" /\ session'[req'[c].body] = s
    BY <1>5 DEF Clash
  <2>2. req'[c].body \in Issued' /\ Issued' = Issued
    BY <1>1, <2>1 DEF TypeInv, RequestOK, RequestOps, Kinds, Issued
  <2>. QED BY <1>1, <2>1, <2>2 DEF TypeInv, TokensOK
<1>6. Quiet
  BY <1>1, <1>4 DEF Quiet, Issued
<1>. QED BY <1>5, <1>6, QuietRotation

LEMMA EndRotation ==
  ASSUME NEW S \in SUBSET Issued, Issued' = Issued, ended' = ended \cup S,
         outlived \subseteq outlived', outlived' \subseteq outlived \cup S,
         clashed' = clashed,
         \A s \in Pairs \ S : Valid(s)' = Valid(s),
         \A s \in S : /\ Valid(s)' \subseteq Valid(s)
                      /\ s \notin outlived' \cup clashed => Valid(s)' = {}
  PROVE  [Rotations!Next]_(Rotations!vars)
<1>1. \A s \in Pairs : Valid(s)' =
        IF s \in S THEN IF s \in outlived' \cup clashed' THEN Valid(s)' \cap Valid(s)
                                                         ELSE {}
                   ELSE Valid(s)
  OBVIOUS
<1>2. Rotations!End(S)
  BY <1>1 DEF Rotations!End
<1>. QED BY <1>2 DEF Rotations!Next

LEMMA LogoutRotation ==
  ASSUME UniqueInv, NEW c \in Calls, Server(c), ServeLogout(c), clashed' = clashed,
         NEW p, p = req[c].body, NEW s, s = session[p]
  PROVE  [Rotations!Next]_(Rotations!vars)
<1>t. TypeInv /\ TypeOK /\ TokensOK /\ Serves(c)
  BY ServerStep DEF UniqueInv, TypeInv
<1>1. req[c].op = "logout" /\ p \in Issued /\ p \in Pairs /\ UNCHANGED session
  BY <1>t, IssuedBody DEF ServeLogout, At, RequestOps, Kinds, Issued
<1>2. Replacing' = Replacing
  <2>1. ~Found(c) /\ ~Found(c)'
    BY <1>1, <1>t DEF Found, At, Serves
  <2>. QED BY <2>1, <1>t, ServerReplacing DEF Replacing
<1>3. CASE UNCHANGED <<row, ended, outlived>>
  BY <1>1, <1>2, <1>3 DEF Rotations!vars, Valid, Issued
<1>4. CASE /\ row' = Revoked(p) /\ ended' = ended \cup {s}
           /\ outlived' = outlived \cup ({s} \cap
                IF row[p] = "live" THEN Rotating ELSE {s})
  <2>1. /\ row' \in [Pairs -> {"free", "live", "revoked"}]
        /\ \A x \in Pairs : row'[x] = row[x] \/ (row'[x] = "revoked" /\ row[x] # "free")
        /\ row'[p] = "revoked" /\ \A x \in Pairs \ {p} : row'[x] = row[x]
    BY <1>1, <1>4, <1>t, RevokedTyped
  <2>2. s \in Issued /\ s \in Pairs /\ Issued' = Issued
    BY <1>1, <1>t, <2>1 DEF TokensOK, Issued
  <2>3. \A x \in Pairs \ {s} : Valid(x)' = Valid(x)
    BY <1>1, <1>2, <2>1 DEF Valid
  <2>4. Valid(s)' \subseteq Valid(s)
    BY <1>1, <1>2, <2>1 DEF Valid
  <2>5. ASSUME s \notin outlived' \cup clashed PROVE Valid(s)' = {}
    <3>1. row[p] = "live" /\ s \notin Rotating /\ Unique(s)
      BY <1>4, <2>2, <2>5 DEF UniqueInv
    <3>2. \A x \in Pairs : session[x] = s => row'[x] # "live"
      BY <1>1, <2>1, <3>1 DEF Unique, LiveOne
    <3>3. \A x \in Replacing : session[x] # s
      BY <3>1 DEF Rotating
    <3>. QED BY <1>1, <1>2, <3>2, <3>3 DEF Valid
  <2> DEFINE S == {s}
  <2>6. /\ S \in SUBSET Issued /\ ended' = ended \cup S
        /\ outlived \subseteq outlived' /\ outlived' \subseteq outlived \cup S
    BY <1>4, <2>2
  <2>7. /\ \A x \in Pairs \ S : Valid(x)' = Valid(x)
        /\ \A x \in S : /\ Valid(x)' \subseteq Valid(x)
                        /\ x \notin outlived' \cup clashed => Valid(x)' = {}
    BY <2>3, <2>4, <2>5
  <2> HIDE DEF S
  <2>. QED BY <2>2, <2>6, <2>7, EndRotation
<1>. QED BY <1>3, <1>4 DEF ServeLogout

LEMMA RevokeAllRotation ==
  ASSUME UniqueInv, NEW c \in Calls, Server(c), RevokeAll(c), clashed' = clashed
  PROVE  [Rotations!Next]_(Rotations!vars)
<1> DEFINE S == {session[p] : p \in Issued}
<1>t. TypeInv /\ TypeOK /\ TokensOK /\ Serves(c)
  BY ServerStep DEF UniqueInv, TypeInv
<1>1. /\ req[c].op = "password" /\ UNCHANGED session /\ ended' = ended \cup S
      /\ outlived' = outlived \cup Rotating
  BY DEF RevokeAll, At
<1>2. Replacing' = Replacing
  <2>1. ~Found(c) /\ ~Found(c)'
    BY <1>1, <1>t DEF Found, At, Serves
  <2>. QED BY <2>1, <1>t, ServerReplacing DEF Replacing
<1>3. \A p \in Pairs : /\ row'[p] # "live"
                       /\ row'[p] = row[p] \/ (row'[p] = "revoked" /\ row[p] # "free")
  BY <1>t DEF RevokeAll, AllRevoked, TypeOK
<1>4. Issued' = Issued /\ S \subseteq Issued /\ Rotating \subseteq S
  BY <1>3, <1>t, FoundIssued DEF Issued, TokensOK, Rotating
<1>5. \A s : Valid(s)' \subseteq Valid(s)
  BY <1>1, <1>2, <1>3 DEF Valid
<1>6. \A s \in Pairs \ S : Valid(s) = {}
  BY <1>t, FoundIssued DEF Valid
<1>7. \A s \in S : s \notin outlived' => Valid(s)' = {}
  BY <1>1, <1>2, <1>3 DEF Valid, Rotating
<1> HIDE DEF S
<1>. QED BY <1>1, <1>4, <1>5, <1>6, <1>7, EndRotation

LEMMA CreateRotation ==
  ASSUME UniqueInv, NEW c \in Calls, Server(c), CreateRefresh(c), clashed' = clashed,
         NEW n, n = NewPair, NEW b, b = req[c].body, NEW s, s = session[b]
  PROVE  [Rotations!Next]_(Rotations!vars)
<1>t. TypeInv /\ TypeOK /\ TokensOK /\ Serves(c) /\ Grows
  BY ServerStep DEF UniqueInv, TypeInv
<1>1. Found(c) /\ req[c].op = "refresh" /\ b \in Issued /\ b \in Pairs /\ b \in Replacing
  BY <1>t, FoundIssued DEF CreateRefresh, Found, At, Replacing
<1>2. /\ n \in Pairs /\ n \notin Issued
      /\ row'[n] = "live" /\ \A p \in Pairs \ {n} : row'[p] = row[p]
      /\ session'[n] = s /\ \A p \in Pairs \ {n} : session'[p] = session[p]
      /\ req'[c].stage = "answer" /\ UNCHANGED <<ended, outlived>>
  BY <1>t, Creates
<1>3. s \in Issued /\ s \in Pairs /\ n # b /\ Issued' = Issued \cup {n}
  BY <1>1, <1>2, <1>t DEF TokensOK, Issued
<1>4. \A p : p # b => (p \in Replacing' <=> p \in Replacing)
  BY <1>t, ServerReplacing
<1>5. n \notin Replacing
  BY <1>t, <1>2, FoundIssued
<1>6. \A x \in Pairs \ {s} : Valid(x)' = Valid(x)
  BY <1>1, <1>2, <1>3, <1>4, <1>5 DEF Valid, Issued
<1>7. Valid(s)' \in {(Valid(s) \ {b}) \cup {n}, Valid(s) \cup {n}}
  BY <1>1, <1>2, <1>3, <1>4, <1>5 DEF Valid, Issued
<1>8. ASSUME s \notin clashed PROVE b \notin Valid(s)'
  <2>1. Unique(s) /\ Stake(c)
    BY <1>3, <1>8 DEF UniqueInv, CreateRefresh, Stake, At
  <2>2. row'[b] # "live"
    BY <1>1, <1>2, <1>3, <2>1 DEF Unique, StakeApart
  <2>3. ASSUME NEW d \in Calls, Found(d)', req'[d].body = b PROVE FALSE
    <3>1. d # c /\ Found(d) /\ req[d].body = b
      BY <1>2, <1>t, <2>3, ServerReplacing DEF Found, At
    <3>. QED BY <1>1, <2>1, <3>1 DEF Unique, Clash, Found, At
  <2>. QED BY <2>2, <2>3 DEF Valid, Replacing
<1>9. \/ Valid(s)' = (Valid(s) \ {b}) \cup {n}
      \/ s \in clashed /\ Valid(s)' = Valid(s) \cup {n}
  BY <1>1, <1>7, <1>8 DEF Valid
<1>10. b \in Valid(s)
  BY <1>1 DEF Valid
<1>. DEFINE V == [x \in Pairs |-> Valid(x)]
<1>11. /\ \/ V' = [V EXCEPT ![s] = (V[s] \ {b}) \cup {n}]
          \/ s \in outlived \cup clashed /\ V' = [V EXCEPT ![s] = V[s] \cup {n}]
       /\ b \in V[s]
  BY <1>3, <1>6, <1>9, <1>10
<1>12. Rotations!Rotate(s, b, n)
  BY <1>2, <1>3, <1>11 DEF Rotations!Rotate
<1>. QED BY <1>1, <1>2, <1>3, <1>12 DEF Rotations!Next

LEMMA LoginRotation ==
  ASSUME UniqueInv, NEW c \in Calls, Server(c), CreateLogin(c), clashed' = clashed,
         NEW n, n = NewPair
  PROVE  [Rotations!Next]_(Rotations!vars)
<1>t. TypeInv /\ TypeOK /\ TokensOK /\ Serves(c)
  BY ServerStep DEF UniqueInv, TypeInv
<1>2. /\ n \in Pairs /\ n \notin Issued
      /\ row'[n] = "live" /\ \A p \in Pairs \ {n} : row'[p] = row[p]
      /\ session'[n] = n /\ \A p \in Pairs \ {n} : session'[p] = session[p]
      /\ req'[c].stage = "answer" /\ UNCHANGED <<ended, outlived>>
  BY <1>t, Creates
<1>3. Issued' = Issued \cup {n}
  BY <1>2 DEF Issued
<1>4. Replacing' = Replacing /\ n \notin Replacing
  <2>1. ~Found(c) /\ ~Found(c)'
    BY <1>2 DEF CreateLogin, Found, At
  <2>. QED BY <2>1, <1>t, <1>2, ServerReplacing, FoundIssued DEF Replacing
<1>5. \A x \in Pairs \ {n} : Valid(x)' = Valid(x)
  BY <1>2, <1>4 DEF Valid, Issued
<1>6. Valid(n)' = {n}
  <2>1. \A p \in Issued : session[p] # n
    BY <1>t, <1>2 DEF TokensOK
  <2>2. \A p \in Pairs : row'[p] = "live" \/ p \in Replacing' => p = n \/ p \in Issued
    BY <1>t, <1>2, <1>4, FoundIssued DEF Issued
  <2>3. \A p \in Pairs : p \in Issued => p # n /\ session'[p] = session[p]
    BY <1>2
  <2>. QED BY <1>2, <2>1, <2>2, <2>3 DEF Valid
<1>7. Rotations!Open(n)
  BY <1>2, <1>3, <1>5, <1>6 DEF Rotations!Open
<1>. QED BY <1>2, <1>7 DEF Rotations!Next

LEMMA ServerRotation ==
  ASSUME UniqueInv, NEW c \in Calls, Server(c), Watch
  PROVE  [Rotations!Next]_(Rotations!vars)
<1>t. TypeInv /\ TypeOK /\ Serves(c) /\ clashed' = clashed
  BY ServerStep, ServerClash DEF UniqueInv, TypeInv
<1>p. req[c] \in Pending /\ None \in AnyPair
  BY <1>t DEF Serves, AnyPair
<1>r. ASSUME UNCHANGED <<ended, outlived, session>>, Issued' = Issued,
             \A p \in Pairs : p # req[c].body => row'[p] = row[p],
             (row[req[c].body] = "live" \/ req[c].body \in Replacing)'
               <=> (row[req[c].body] = "live" \/ req[c].body \in Replacing)
      PROVE  [Rotations!Next]_(Rotations!vars)
  <2>1. req'[c].body = req[c].body
    BY <1>t DEF Serves
  <2>2. \A p : p # req[c].body => (p \in Replacing' <=> p \in Replacing)
    BY <1>t, ServerReplacing
  <2>3. \A p \in Pairs : (row[p] = "live" \/ p \in Replacing)'
                           <=> (row[p] = "live" \/ p \in Replacing)
    BY <1>r, <2>1, <2>2
  <2>4. \A s \in Pairs : Valid(s)' = Valid(s)
    BY <1>r, <2>3 DEF Valid
  <2>. QED BY <1>r, <1>t, <2>4 DEF Rotations!vars
<1>q. ASSUME UNCHANGED server, ~Found(c), ~Found(c)'
      PROVE  [Rotations!Next]_(Rotations!vars)
  <2>1. Replacing' = Replacing
    BY <1>q, <1>t, ServerReplacing DEF Replacing
  <2>. QED BY <1>q, <1>t, <2>1 DEF server, Rotations!vars, Valid, Issued
<1>1. CASE FindRefresh(c)
  <2>1. ~Found(c) /\ UNCHANGED server
    BY <1>1 DEF FindRefresh, Found, At
  <2>2. CASE Reply(c, FALSE, None)
    <3>1. ~Found(c)'
      BY <1>p, <2>2, ServesAnswer, <1>t DEF Found, At
    <3>. QED BY <1>q, <2>1, <3>1
  <2>3. CASE row[req[c].body] = "live"
    <3>1. row'[req'[c].body] = "live"
      BY <1>t, <2>1, <2>3 DEF server, Serves
    <3>. QED BY <1>r, <2>1, <2>3, <3>1 DEF server, Issued
  <2>. QED BY <1>1, <2>2, <2>3 DEF FindRefresh
<1>2. CASE RevokeRefresh(c)
  <2>1. Found(c) /\ req[c].body \in Issued /\ req[c].body \in Replacing
    BY <1>2, <1>t, FoundIssued DEF RevokeRefresh, Found, At, Replacing
  <2>2. \A p \in Pairs : p # req[c].body => row'[p] = row[p]
    BY <1>2, <1>t, <2>1, RevokedTyped DEF RevokeRefresh
  <2>3. Issued' = Issued
    BY <1>2, <1>t, <2>1, RevokedTyped DEF RevokeRefresh, Issued
  <2>4. Found(c)'
    BY <1>2, <1>p, ServesStage, <1>t DEF RevokeRefresh, Found, At, Serves
  <2>5. req'[c].body \in Replacing'
    BY <2>4 DEF Replacing
  <2>. QED BY <1>2, <1>r, <2>1, <2>2, <2>3, <2>5 DEF RevokeRefresh
<1>3. CASE ComparePassword(c) \/ ServeOther(c) \/ CheckPassword(c)
  <2>1. UNCHANGED server /\ req[c].op # "refresh"
    BY <1>3 DEF ComparePassword, ServeOther, CheckPassword, At
  <2>. QED BY <1>q, <1>t, <2>1 DEF Found, At, Serves
<1>4. CASE ServeLogout(c)
  BY <1>t, <1>4, LogoutRotation
<1>5. CASE RevokeAll(c)
  BY <1>t, <1>5, RevokeAllRotation
<1>6. CASE CreateRefresh(c)
  BY <1>t, <1>6, CreateRotation
<1>7. CASE CreateLogin(c)
  BY <1>t, <1>7, LoginRotation
<1>. QED
  BY <1>1, <1>2, <1>3, <1>4, <1>5, <1>6, <1>7 DEF Server

LEMMA StepRotates ==
  UniqueInv /\ TypeInv' /\ [Next]_vars => [Rotations!Next]_(Rotations!vars)
<1> SUFFICES ASSUME UniqueInv, TypeInv', [Next]_vars
             PROVE  [Rotations!Next]_(Rotations!vars)
  OBVIOUS
<1>1. CASE Next
  <2>1. TypeInv
    BY DEF UniqueInv
  <2>2. ASSUME NEW c \in Calls, Server(c) PROVE [Rotations!Next]_(Rotations!vars)
    BY <1>1, <2>2, ServerRotation DEF Next
  <2>. QED BY <1>1, <2>1, <2>2, BrowserRotation DEF Next, Step
<1>2. CASE UNCHANGED vars
  BY <1>2 DEF vars, Rotations!vars, Valid, Replacing, Found, At, Issued
<1>. QED BY <1>1, <1>2

(* A session of Sessions is one of Rotation: three statements of the       *)
(* server rotate as one, and a session without a token never gets one.     *)
THEOREM SessionsRotateAtomically == Spec => RotationAtomic
<1>1. Init => Rotations!Init
  <2> SUFFICES ASSUME Init PROVE Rotations!Init
    OBVIOUS
  <2>1. \A s : Valid(s) = {}
    BY DEF Init, Valid, Replacing, Found, At, Idle
  <2>. QED BY <2>1 DEF Init, Rotations!Init, Issued
<1>. QED
  BY <1>1, StepRotates, TypeInvariant, UniqueInvariant, PTL
     DEF Spec, RotationAtomic, Rotations!Spec

(* What Rotation says of its sessions: those ended without doubt can go on *)
(* with no token.                                                          *)
RotationInv ==
  /\ ended \subseteq Issued
  /\ \A s \in ended \ (outlived \cup clashed) : Valid(s) = {}

LEMMA RotationKeeps ==
  ASSUME ended \in SUBSET Pairs, RotationInv, [Rotations!Next]_(Rotations!vars)
  PROVE  RotationInv'
<1> DEFINE V == [s \in Pairs |-> Valid(s)]
           D == outlived \cup clashed
<1>0. Issued \subseteq Pairs /\ Issued' \subseteq Pairs
  BY DEF Issued
<1>1. ASSUME NEW S \in SUBSET Issued, Rotations!End(S) \/ Rotations!Doubt(S)
      PROVE  RotationInv'
  <2>1. Issued' = Issued /\ D \subseteq D' /\ ended' \subseteq ended \cup S
    BY <1>1 DEF Rotations!End, Rotations!Doubt
  <2>2. ASSUME NEW s \in Pairs
        PROVE  Valid(s)' = Valid(s) \/ (s \in S /\ (s \in D' \/ Valid(s)' = {}))
    BY <1>1, <2>2 DEF Rotations!End, Rotations!Doubt
  <2>3. Rotations!Doubt(S) => ended' = ended
    BY DEF Rotations!Doubt
  <2>4. ASSUME NEW s \in ended' \ D' PROVE Valid(s)' = {}
    <3>1. s \in Pairs /\ s \notin D
      BY <2>1, <2>4, <1>0
    <3>2. CASE Rotations!End(S) /\ s \in S
      BY <2>4, <3>1, <3>2 DEF Rotations!End
    <3>3. CASE s \in ended
      BY <2>2, <2>4, <3>1, <3>3 DEF RotationInv
    <3>. QED BY <1>1, <2>1, <2>3, <2>4, <3>2, <3>3
  <2>. QED BY <2>1, <2>4 DEF RotationInv
<1>2. ASSUME NEW s \in Pairs, Rotations!Open(s) PROVE RotationInv'
  <2>1. /\ ended' = ended /\ D' = D /\ Issued' = Issued \cup {s} /\ s \notin ended
        /\ \A t \in Pairs \ {s} : Valid(t)' = Valid(t)
    BY <1>2 DEF Rotations!Open, RotationInv
  <2>. QED BY <2>1 DEF RotationInv
<1>3. ASSUME NEW s \in Pairs, NEW old \in Pairs, NEW new \in Pairs,
             Rotations!Rotate(s, old, new)
      PROVE  RotationInv'
  <2>1. /\ ended' = ended /\ D' = D /\ Issued' = Issued \cup {new} /\ Valid(s) # {}
        /\ \A t \in Pairs \ {s} : Valid(t)' = Valid(t)
    BY <1>3 DEF Rotations!Rotate
  <2>. QED BY <2>1 DEF RotationInv
<1>4. CASE UNCHANGED Rotations!vars
  <2>1. ended' = ended /\ D' = D /\ Issued' = Issued /\ V' = V
    BY <1>4 DEF Rotations!vars
  <2>2. \A s \in Pairs : Valid(s)' = V'[s] /\ Valid(s) = V[s]
    OBVIOUS
  <2> HIDE DEF V
  <2>. QED BY <2>1, <2>2 DEF RotationInv
<1>. QED BY <1>1, <1>2, <1>3, <1>4 DEF Rotations!Next

(* A session that was logged out of, or open when the password was         *)
(* changed, never has a valid token again, unless a refresh of it was      *)
(* under way, the logout named a token it no longer had, or two refreshes  *)
(* of one token had left it with two.                                      *)
THEOREM SessionsStayEnded == Spec => []EndedStaysEnded
<1>1. Init => RotationInv
  BY DEF Init, RotationInv
<1>2. TypeInv /\ UniqueInv /\ TypeInv' /\ RotationInv /\ [Next]_vars => RotationInv'
  BY RotationKeeps, StepRotates DEF TypeInv, TypeOK
<1>3. RotationInv => EndedStaysEnded
  BY DEF RotationInv, EndedStaysEnded, Live, Valid
<1>. QED BY <1>1, <1>2, <1>3, TypeInvariant, UniqueInvariant, PTL DEF Spec

(***************************************************************************)
(* The stored token.  A refresh under way is waited for by its call, and   *)
(* the token an answer brings is valid, or its session was ended, and no   *)
(* one else has it yet.                                                    *)
(***************************************************************************)
Backed ==
  stored # None /\ session[stored] \notin ended
    => row[stored] = "live" \/ BeingReplaced(stored)
Awaited(c) ==
  req[c].op = "refresh" => call[c].op \in Kinds /\ call[c].st = "refreshing"
Unused(p) ==
  /\ p # stored
  /\ \A d \in Calls : req[d].op = "refresh" => req[d].body # p
  /\ row[p] = "live" \/ session[p] \in ended
AnswersApart ==
  \A c, d \in Calls : Answered(c) /\ Answered(d) /\ req[c].new = req[d].new => c = d
Kept ==
  /\ Backed /\ AnswersApart
  /\ \A c \in Calls : Awaited(c)
  /\ \A c \in Calls : Answered(c) => Unused(req[c].new)

(* A token stops being valid in one step of the server when its refresh is *)
(* under way or its session ends, and an answer brings a token no one has. *)
LEMMA ServerKeeps ==
  ASSUME TypeInv, TypeInv', Kept, NEW c \in Calls, Serves(c), Grows,
         UNCHANGED <<stored, call>>, ended \subseteq ended',
         \A p \in Issued : row[p] = "live" =>
           \/ row'[p] = "live" \/ session[p] \in ended'
           \/ req[c].op = "refresh" /\ req[c].body = p,
         Answered(c)' => req'[c].new \notin Issued /\ row'[req'[c].new] = "live"
  PROVE  Kept'
<1>t. TokensOK
  BY DEF TypeInv
<1>b. \A d \in Calls : req[d].op = "refresh" => req[d].body \in Issued
  BY IssuedBody DEF RequestOps
<1>q. \A d \in Calls : req'[d].op = req[d].op /\ req'[d].body = req[d].body
  BY DEF Serves
<1>o. ~Answered(c) /\ \A d \in Calls \ {c} : req'[d] = req[d]
  BY DEF Serves, Answered, Pending
<1>1. Backed'
  <2> SUFFICES ASSUME stored # None, session'[stored] \notin ended'
               PROVE  row'[stored] = "live" \/ BeingReplaced(stored)'
    BY DEF Backed
  <2>1. stored \in Issued /\ session[stored] \notin ended'
    BY <1>t DEF TokensOK, Grows
  <2>2. BeingReplaced(stored) => BeingReplaced(stored)'
    BY <1>q DEF BeingReplaced
  <2>3. CASE BeingReplaced(stored)
    BY <2>2, <2>3
  <2>4. CASE row[stored] = "live"
    <3>1. req[c].op = "refresh" /\ req[c].body = stored => BeingReplaced(stored)
      BY DEF BeingReplaced
    <3>. QED BY <2>1, <2>2, <2>4, <3>1
  <2>5. session[stored] \notin ended
    BY <2>1
  <2>. QED BY <2>3, <2>4, <2>5 DEF Kept, Backed
<1>2. ASSUME NEW d \in Calls PROVE Awaited(d)'
  BY <1>q DEF Kept, Awaited
<1>3. ASSUME NEW d \in Calls, Answered(d)' PROVE Unused(req[d].new)'
  <2> DEFINE n == req'[d].new
  <2>1. CASE d = c
    <3>1. n \notin Issued /\ row'[n] = "live" /\ n \in Issued'
      BY <1>3, <2>1 DEF Serves
    <3>2. n # None
      BY <3>1, PairsAssumption DEF Issued
    <3>3. n # stored
      BY <1>t, <3>1, <3>2 DEF TokensOK
    <3>4. \A e \in Calls : req'[e].op = "refresh" => req'[e].body # n
      BY <1>b, <1>q, <3>1
    <3>. QED BY <3>1, <3>3, <3>4 DEF Unused
  <2>2. CASE d # c
    <3>1. req'[d] = req[d] /\ Answered(d) /\ n = req[d].new
      BY <1>3, <1>o, <2>2 DEF Answered
    <3>2. n \in Issued /\ Unused(n)
      BY <3>1 DEF Kept, TypeInv, RequestOK
    <3>3. n # stored /\ \A e \in Calls : req'[e].op = "refresh" => req'[e].body # n
      BY <1>q, <3>2 DEF Unused
    <3>4. row'[n] = "live" \/ session[n] \in ended'
      BY <3>2 DEF Unused
    <3>5. session'[n] = session[n]
      BY <3>2 DEF Grows
    <3>. QED BY <3>3, <3>4, <3>5 DEF Unused
  <2>. QED BY <2>1, <2>2
<1>4. AnswersApart'
  <2> SUFFICES ASSUME NEW d \in Calls, NEW e \in Calls, Answered(d)', Answered(e)',
                      req'[d].new = req'[e].new, d # e
               PROVE  FALSE
    BY DEF AnswersApart
  <2>1. \A f \in Calls \ {c} : Answered(f)' => Answered(f) /\ req[f].new \in Issued
    BY <1>o DEF Answered, TypeInv, RequestOK
  <2>2. d # c /\ e # c
    BY <1>o, <2>1
  <2>3. Answered(d) /\ Answered(e) /\ req[d].new = req[e].new
    BY <1>o, <2>1, <2>2
  <2>. QED BY <2>3 DEF Kept, AnswersApart
<1>. QED BY <1>1, <1>2, <1>3, <1>4 DEF Kept

LEMMA ServerKept ==
  ASSUME TypeInv, TypeInv', Kept, NEW c \in Calls, Server(c)
  PROVE  Kept'
<1>t. TypeOK /\ TokensOK /\ Serves(c) /\ Grows /\ UNCHANGED <<stored, call>>
  BY ServerStep DEF TypeInv, Server, browser
<1>p. req[c] \in Pending /\ None \in AnyPair
  BY <1>t DEF Serves, AnyPair
<1>1. CASE FindRefresh(c)
  <2>1. UNCHANGED <<row, ended>>
    BY <1>1 DEF FindRefresh, server
  <2>2. ~Answered(c)'
    BY <1>1, <1>p, ServesStage, ServesAnswer DEF FindRefresh, Answered
  <2>. QED BY <1>t, <2>1, <2>2, ServerKeeps
<1>2. CASE ComparePassword(c)
  <2>1. UNCHANGED <<row, ended>>
    BY <1>2 DEF ComparePassword, server
  <2>2. ~Answered(c)'
    BY <1>2, <1>p, ServesStage, ServesAnswer DEF ComparePassword, Answered
  <2>. QED BY <1>t, <2>1, <2>2, ServerKeeps
<1>3. CASE ServeOther(c) \/ CheckPassword(c)
  <2>1. UNCHANGED <<row, ended>>
    BY <1>3 DEF ServeOther, CheckPassword, server
  <2>2. req'[c].op \notin {"login", "refresh"}
    BY <1>3, <1>t DEF ServeOther, CheckPassword, At, Serves
  <2>. QED BY <1>t, <2>1, <2>2, ServerKeeps DEF Answered
<1>4. CASE RevokeRefresh(c)
  <2>1. req[c].op = "refresh" /\ req[c].body \in Issued
    BY <1>4, IssuedBody DEF RevokeRefresh, At, RequestOps
  <2>2. UNCHANGED ended /\ \A p \in Pairs \ {req[c].body} : row'[p] = row[p]
    BY <1>4, <2>1, RevokedTyped DEF RevokeRefresh
  <2>3. ~Answered(c)'
    BY <1>4, <1>p, ServesStage DEF RevokeRefresh
  <2>. QED BY <1>t, <2>1, <2>2, <2>3, ServerKeeps DEF Issued
<1>5. CASE ServeLogout(c)
  <2> DEFINE p == req[c].body
  <2>1. req[c].op = "logout" /\ p \in Issued
    BY <1>5, IssuedBody DEF ServeLogout, At, RequestOps, Kinds
  <2>2. ~Answered(c)'
    BY <1>t, <2>1 DEF Serves, Answered
  <2>3. CASE UNCHANGED <<row, ended>>
    BY <1>t, <2>2, <2>3, ServerKeeps
  <2>4. CASE row' = Revoked(p) /\ ended' = ended \cup {session[p]}
    <3>1. \A x \in Pairs \ {p} : row'[x] = row[x]
      BY <2>1, <2>4, RevokedTyped
    <3>. QED BY <1>t, <2>2, <2>4, <3>1, ServerKeeps DEF Issued
  <2>. QED BY <1>5, <2>3, <2>4 DEF ServeLogout
<1>6. CASE RevokeAll(c)
  <2>1. req[c].op = "password" /\ ended' = ended \cup {session[p] : p \in Issued}
    BY <1>6 DEF RevokeAll, At
  <2>2. ~Answered(c)'
    BY <1>t, <2>1 DEF Serves, Answered
  <2>. QED BY <1>t, <2>1, <2>2, ServerKeeps
<1>7. CASE CreateRefresh(c) \/ CreateLogin(c)
  <2> DEFINE n == NewPair
  <2>1. n \in Pairs /\ n \notin Issued
    BY <1>7, NewPairFree DEF CreateRefresh, CreateLogin
  <2>2. row'[n] = "live" /\ (\A p \in Pairs \ {n} : row'[p] = row[p])
    <3>1. row \in [Pairs -> {"free", "live", "revoked"}]
      BY <1>t DEF TypeOK
    <3>2. row' = [row EXCEPT ![n] = "live"]
      BY <1>7 DEF CreateRefresh, CreateLogin
    <3> HIDE DEF n
    <3>. QED BY <2>1, <3>1, <3>2
  <2>4. UNCHANGED ended
    BY <1>7 DEF CreateRefresh, CreateLogin
  <2>3. req'[c].new = n
    <3>1. req'[c] = Answer(req[c], TRUE, n)
      BY <1>7, Served DEF CreateRefresh, CreateLogin, Reply
    <3>. QED BY <3>1 DEF Answer
  <2>. QED BY <1>t, <2>1, <2>2, <2>3, <2>4, ServerKeeps DEF Issued
<1>. QED
  BY <1>1, <1>2, <1>3, <1>4, <1>5, <1>6, <1>7 DEF Server

(* A step of the browser: refreshes that go on are of the stored token or  *)
(* of the one they had, and what is stored is that token, nothing, or what *)
(* an answer brought.                                                      *)
LEMMA BrowserKeeps ==
  ASSUME TypeInv, Kept, UNCHANGED <<row, session, ended>>,
         \A d \in Calls : req'[d].op = "refresh" =>
           /\ call'[d].op \in Kinds /\ call'[d].st = "refreshing"
           /\ \/ req'[d].body = stored
              \/ req[d].op = "refresh" /\ req[d].body = req'[d].body,
         \A d \in Calls : Answered(d)' => req'[d] = req[d],
         \/ stored' = None
         \/ /\ UNCHANGED stored
            /\ \A d \in Calls : req[d].op = "refresh" =>
                 req'[d].op = "refresh" /\ req'[d].body = req[d].body
         \/ \E c \in Calls : Answered(c) /\ stored' = req[c].new /\ ~Answered(c)'
  PROVE  Kept'
<1>a. ASSUME NEW d \in Calls, Answered(d)'
      PROVE  /\ req'[d] = req[d] /\ Answered(d) /\ req[d].new \in Issued
             /\ Unused(req[d].new) /\ req[d].new # None
  <2>1. req'[d] = req[d] /\ Answered(d)
    BY <1>a DEF Answered
  <2>2. req[d].new \in Issued
    BY <2>1 DEF TypeInv, RequestOK
  <2>. QED BY <2>1, <2>2, PairsAssumption DEF Kept, Issued
<1>1. Backed'
  <2>1. CASE stored' = None
    BY <2>1 DEF Backed
  <2>2. CASE /\ UNCHANGED stored
             /\ \A d \in Calls : req[d].op = "refresh" =>
                  req'[d].op = "refresh" /\ req'[d].body = req[d].body
    BY <2>2 DEF Kept, Backed, BeingReplaced
  <2>3. CASE \E c \in Calls : Answered(c) /\ stored' = req[c].new /\ ~Answered(c)'
    BY <2>3 DEF Kept, Unused, Backed
  <2>. QED BY <2>1, <2>2, <2>3
<1>2. \A d \in Calls : Awaited(d)'
  BY DEF Awaited
<1>3. ASSUME NEW d \in Calls, Answered(d)' PROVE Unused(req[d].new)'
  <2> DEFINE n == req[d].new
  <2>1. req'[d] = req[d] /\ Answered(d) /\ n # None /\ Unused(n)
    BY <1>3, <1>a
  <2>2. n # stored'
    <3>1. CASE \E c \in Calls : Answered(c) /\ stored' = req[c].new /\ ~Answered(c)'
      BY <1>3, <2>1, <3>1 DEF Kept, AnswersApart
    <3>2. CASE stored' \in {None, stored}
      BY <2>1, <3>2 DEF Unused
    <3>. QED BY <3>1, <3>2
  <2>3. \A e \in Calls : req'[e].op = "refresh" => req'[e].body # n
    BY <2>1 DEF Unused
  <2>4. row'[req'[d].new] = "live" \/ session'[req'[d].new] \in ended'
    BY <2>1 DEF Unused
  <2>. QED BY <2>1, <2>2, <2>3, <2>4 DEF Unused
<1>4. AnswersApart'
  BY <1>a DEF Kept, AnswersApart
<1>. QED BY <1>1, <1>2, <1>3, <1>4 DEF Kept

(* The request of a call that is no refresh, replaced by one that is none. *)
LEMMA EndKept ==
  ASSUME TypeInv, Kept, NEW c \in Calls, UNCHANGED server,
         req[c].op # "refresh" \/ stored' = None,
         req'[c].op # "refresh", ~Answered(c)',
         \A d \in Calls \ {c} : call'[d] = call[d] /\ req'[d] = req[d],
         stored' \in {None, stored} \/ (Answered(c) /\ stored' = req[c].new)
  PROVE  Kept'
<1>1. UNCHANGED <<row, session, ended>>
  BY DEF server
<1>2. ASSUME NEW d \in Calls, req'[d].op = "refresh"
      PROVE  /\ call'[d].op \in Kinds /\ call'[d].st = "refreshing"
             /\ req[d].op = "refresh" /\ req[d].body = req'[d].body
  BY <1>2 DEF Kept, Awaited
<1>3. \A d \in Calls : Answered(d)' => req'[d] = req[d]
  OBVIOUS
<1>4. \/ stored' = None
      \/ /\ UNCHANGED stored
         /\ \A d \in Calls : req[d].op = "refresh" =>
              req'[d].op = "refresh" /\ req'[d].body = req[d].body
      \/ \E e \in Calls : Answered(e) /\ stored' = req[e].new /\ ~Answered(e)'
  <2>1. CASE stored' = None
    BY <2>1
  <2>2. CASE UNCHANGED stored /\ stored' # None
    BY <2>2
  <2>3. CASE Answered(c) /\ stored' = req[c].new
    BY <2>3
  <2>. QED BY <2>1, <2>2, <2>3
<1>. QED BY <1>1, <1>2, <1>3, <1>4, BrowserKeeps

LEMMA IdleRequest ==
  ASSUME TypeInv, NEW c \in Calls, Serve(c, Idle)
  PROVE  /\ req'[c].op # "refresh" /\ ~Answered(c)'
         /\ \A d \in Calls \ {c} : req'[d] = req[d]
<1>1. req'[c] = Idle /\ \A d \in Calls \ {c} : req'[d] = req[d]
  BY Served
<1>2. Idle.op = "idle" /\ "idle" \notin {"refresh", "login"}
  BY DEF Idle
<1>. QED BY <1>1, <1>2 DEF Answered

(* A call that waits for the answer of its own request.                    *)
LEMMA OwnRequest ==
  ASSUME TypeInv, NEW c \in Calls, call[c] # Idle,
         call[c].st \in {"sent", "repeating"}
  PROVE  call[c].op \in Kinds /\ req[c].op = call[c].op /\ req[c].op # "refresh"
<1>1. call[c].op \in Kinds
  BY CallShape DEF TypeInv, TypeOK
<1>. QED BY <1>1 DEF TypeInv, CallOK, Kinds

LEMMA BrowserKept ==
  ASSUME TypeInv, TypeInv', Kept, ~lost', NEW c \in Calls,
         Start(c) \/ Handle(c) \/ Lose(c)
  PROVE  Kept'
<1>t. TypeOK
  BY DEF TypeInv
<1>i. Idle.op = "idle" /\ "idle" \notin Kinds /\ "refresh" \notin Kinds
      /\ "idle" \notin {"refresh", "login"}
  BY DEF Idle, Kinds
<1>c. \A st : call' = [call EXCEPT ![c] = st]
               => \A d \in Calls \ {c} : call'[d] = call[d]
  OBVIOUS
<1>1. CASE Start(c)
  <2>1. PICK kind \in Kinds : Serve(c, Request(kind, stored, stored, FALSE))
    BY <1>1 DEF Start
  <2>2. /\ UNCHANGED server /\ UNCHANGED stored /\ req[c] = Idle
        /\ \A d \in Calls \ {c} : call'[d] = call[d]
    BY <1>1 DEF Start, browser
  <2>3. /\ req'[c] = Request(kind, stored, stored, FALSE)
        /\ \A d \in Calls \ {c} : req'[d] = req[d]
    BY <2>1, Served
  <2>4. req'[c].op = kind /\ req'[c].stage = "sent"
    BY <2>3 DEF Request
  <2>5. req'[c].op # "refresh" /\ ~Answered(c)'
    BY <1>i, <2>4 DEF Answered
  <2>. QED BY <1>i, <2>2, <2>3, <2>5, EndKept
<1>2. CASE Receive(c)
  <2>1. /\ call[c] # Idle /\ call[c].st \in {"sent", "repeating"}
        /\ req[c].stage = "answer"
        /\ stored' = KeptOn(c, req[c].ok) /\ Serve(c, Idle)
        /\ UNCHANGED server /\ \A d \in Calls \ {c} : call'[d] = call[d]
    BY <1>2 DEF Receive
  <2>2. call[c].op \in Kinds /\ req[c].op = call[c].op /\ req[c].op # "refresh"
    BY <2>1, OwnRequest
  <2>3. stored' \in {None, stored} \/ (Answered(c) /\ stored' = req[c].new)
    BY <2>1, <2>2 DEF KeptOn, Answered
  <2>. QED BY <2>1, <2>2, <2>3, IdleRequest, EndKept
<1>3. CASE Denied(c)
  <2>1. /\ call[c] # Idle /\ call[c].st = "sent" /\ ~Settled(c)
        /\ UNCHANGED server /\ UNCHANGED stored
    BY <1>3 DEF Denied
  <2>2. call[c].op \in Kinds /\ req[c].op = call[c].op /\ req[c].op # "refresh"
    BY <2>1, OwnRequest
  <2>3. CASE Serve(c, Idle) /\ \A d \in Calls \ {c} : call'[d] = call[d]
    BY <2>1, <2>2, <2>3, IdleRequest, EndKept
  <2>4. CASE /\ call' = [call EXCEPT ![c].st = "refreshing"]
             /\ Serve(c, Request("refresh", None, stored, FALSE))
    <3>1. /\ req'[c] = Request("refresh", None, stored, FALSE)
          /\ \A d \in Calls \ {c} : req'[d] = req[d]
      BY <2>4, Served
    <3>2. req'[c].op = "refresh" /\ req'[c].stage = "sent" /\ req'[c].body = stored
      BY <3>1 DEF Request
    <3>3. call[c] \in Working /\ call \in [Calls -> CallState]
      BY <2>1, <1>t, CallShape DEF TypeOK
    <3>4. call'[c].op = call[c].op /\ call'[c].st = "refreshing"
          /\ \A d \in Calls \ {c} : call'[d] = call[d]
      BY <2>4, <3>3 DEF Working
    <3>5. ASSUME NEW d \in Calls, req'[d].op = "refresh"
          PROVE  /\ call'[d].op \in Kinds /\ call'[d].st = "refreshing"
                 /\ \/ req'[d].body = stored
                    \/ req[d].op = "refresh" /\ req[d].body = req'[d].body
      BY <2>2, <3>1, <3>2, <3>4, <3>5 DEF Kept, Awaited
    <3>6. \A d \in Calls : Answered(d)' => req'[d] = req[d]
      BY <3>1, <3>2 DEF Answered
    <3>7. \A d \in Calls : req[d].op = "refresh" =>
            req'[d].op = "refresh" /\ req'[d].body = req[d].body
      BY <2>2, <3>1
    <3>8. UNCHANGED <<row, session, ended>>
      BY <2>1 DEF server
    <3>. QED BY <2>1, <3>5, <3>6, <3>7, <3>8, BrowserKeeps
  <2>. QED BY <1>3, <1>c, <2>3, <2>4 DEF Denied
<1>4. CASE Refreshed(c)
  <2>1. /\ stored' = req[c].new /\ UNCHANGED <<row, session, ended>>
        /\ call[c].st = "refreshing" /\ call[c] # Idle
    BY <1>4 DEF Refreshed, NewStored, server
  <2>2. Answered(c)
    BY <1>4 DEF Refreshed, At, Answered
  <2>3. ASSUME NEW d \in Woken(c), d \in Calls
        PROVE  req'[d].op # "refresh" /\ ~Answered(d)'
    <3>1. call[d] # Idle
      BY <1>i, <2>1, <2>3 DEF Woken, InTab
    <3>2. call[d].op \in Kinds
      BY <1>t, <2>3, <3>1, CallShape DEF TypeOK
    <3>3. req'[d] = Request(call[d].op, req[c].new, call[d].body, TRUE)
      BY <1>4, <2>3 DEF Refreshed
    <3>4. req'[d].op = call[d].op /\ req'[d].stage = "sent"
      BY <3>3 DEF Request
    <3>. QED BY <1>i, <3>2, <3>4 DEF Answered
  <2>4. ASSUME NEW d \in Calls \ Woken(c)
        PROVE  call'[d] = call[d] /\ req'[d] = req[d]
    BY <1>4 DEF Refreshed
  <2>5. ASSUME NEW d \in Calls, req'[d].op = "refresh"
        PROVE  /\ call'[d].op \in Kinds /\ call'[d].st = "refreshing"
               /\ req[d].op = "refresh" /\ req[d].body = req'[d].body
    BY <2>3, <2>4, <2>5 DEF Kept, Awaited
  <2>6. \A d \in Calls : Answered(d)' => req'[d] = req[d]
    BY <2>3, <2>4
  <2>7. ~Answered(c)'
    BY <2>3 DEF Woken
  <2>. QED BY <2>1, <2>2, <2>5, <2>6, <2>7, BrowserKeeps
<1>5. CASE RefreshRefused(c)
  <2>1. /\ stored' = None /\ Serve(c, Idle) /\ UNCHANGED server
        /\ \A d \in Calls \ {c} : call'[d] = call[d]
    BY <1>5 DEF RefreshRefused, Expel
  <2>2. /\ req'[c].op # "refresh" /\ ~Answered(c)'
        /\ \A d \in Calls \ {c} : req'[d] = req[d]
    BY <2>1, IdleRequest
  <2>. QED BY <2>1, <2>2, EndKept
<1>6. CASE Drop(c)
  <2>1. call[c] = Idle /\ Serve(c, Idle) /\ UNCHANGED server /\ UNCHANGED <<stored, call>>
    BY <1>6 DEF Drop, browser
  <2>2. req[c].op # "refresh"
    BY <1>i, <2>1 DEF Kept, Awaited
  <2>. QED BY <2>1, <2>2, IdleRequest, EndKept
<1>7. ~Lose(c)
  BY DEF Lose
<1>. QED BY <1>1, <1>2, <1>3, <1>4, <1>5, <1>6, <1>7 DEF Handle

(* A page that is replaced while no refresh is under way in it.            *)
LEMMA UnloadKept ==
  ASSUME TypeInv, Kept, ~lost', NEW tab \in Tabs, Unload(tab)
  PROVE  Kept'
<1>1. UNCHANGED <<row, session, ended, stored, req>> /\ InTab(tab, "refreshing") = {}
  BY DEF Unload, server
<1>2. ASSUME NEW d \in Calls, req[d].op = "refresh"
      PROVE  call'[d].op \in Kinds /\ call'[d].st = "refreshing"
  <2>1. call[d].op \in Kinds /\ call[d].st = "refreshing"
    BY <1>2 DEF Kept, Awaited
  <2>2. call[d].op # "idle"
    BY <2>1 DEF Kinds
  <2>3. call[d].tab # tab
    BY <1>1, <2>1, <2>2 DEF InTab
  <2>. QED BY <2>1, <2>3 DEF Unload
<1>3. \A d \in Calls : Answered(d)' => req'[d] = req[d]
  BY <1>1
<1>. QED BY <1>1, <1>2, <1>3, BrowserKeeps

KeptInv == ~lost => Kept

LEMMA KeptInvariant == Spec => []KeptInv
<1>1. Init => KeptInv
  <2> SUFFICES ASSUME Init PROVE Kept
    BY DEF KeptInv
  <2>1. stored = None /\ \A c \in Calls : req[c].op \notin {"refresh", "login"}
    BY DEF Init, Idle
  <2>. QED BY <2>1 DEF Kept, Backed, Awaited, AnswersApart, Answered
<1>2. KeptInv /\ TypeInv /\ TypeInv' /\ [Next]_vars => KeptInv'
  <2> SUFFICES ASSUME KeptInv, TypeInv, TypeInv', [Next]_vars, ~lost'
               PROVE  Kept'
    BY DEF KeptInv
  <2>1. CASE Next
    <3>1. ASSUME ~lost PROVE Kept
      BY <3>1 DEF KeptInv
    <3>2. ASSUME NEW c \in Calls, Server(c) PROVE Kept'
      <4>1. ~lost
        BY <3>2 DEF Server
      <4>. QED BY <3>1, <3>2, <4>1, ServerKept
    <3>3. ASSUME NEW c \in Calls, Start(c) \/ Handle(c) \/ Lose(c) PROVE Kept'
      <4>1. ~lost
        BY <3>3 DEF Start, Handle, Lose, Receive, Denied, Refreshed, RefreshRefused, Drop
      <4>. QED BY <3>1, <3>3, <4>1, BrowserKept
    <3>4. ASSUME NEW tab \in Tabs, Unload(tab) PROVE Kept'
      <4>1. ~lost
        BY <3>4 DEF Unload
      <4>. QED BY <3>1, <3>4, <4>1, UnloadKept
    <3>5. ASSUME NEW p \in Pairs, Expire(p) PROVE Kept'
      <4>1. UNCHANGED <<row, session, ended, stored, call, req, lost>>
        BY <3>5 DEF Expire, browser
      <4>. QED
        BY <3>1, <4>1 DEF Kept, Backed, BeingReplaced, Awaited, AnswersApart,
                          Answered, Unused
    <3>. QED BY <2>1, <3>2, <3>3, <3>4, <3>5 DEF Next, Step
  <2>2. CASE UNCHANGED vars
    BY <2>2 DEF vars, KeptInv, Kept, Backed, BeingReplaced, Awaited, AnswersApart,
                Answered, Unused
  <2>. QED BY <2>1, <2>2
<1>. QED BY <1>1, <1>2, TypeInvariant, PTL DEF Spec

(* The browser keeps the token that is valid: while the network loses      *)
(* nothing, the stored token of a session that nobody ended is valid, or   *)
(* its replacement is on the way, whatever tabs refresh it together.       *)
THEOREM StoredStaysLive == Spec => []StoredIsLive
<1>1. KeptInv => StoredIsLive
  BY DEF KeptInv, Kept, Backed, StoredIsLive
<1>. QED BY <1>1, KeptInvariant, PTL

=============================================================================

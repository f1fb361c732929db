----------------------------- MODULE AccountProofs -----------------------------
(***************************************************************************)
(* What holds of the account in every browser: proofs about the session    *)
(* (ClientSession), whatever its pages and bounds, and about the screens   *)
(* on which an organisation is kept and joined (AccountScreens).           *)
(*                                                                         *)
(* While nothing disturbs the session at most one request on it is under   *)
(* way, and the ledger (tokens accepted, cookie, stored user) follows that *)
(* request; SessionKept and NoTokenLeft are read off the ledger.           *)
(***************************************************************************)
EXTENDS ClientSession, AccountScreens, TLAPS

None(fn, S) == \A j \in S : fn[j] = NoFlight
Only(fn, S, k) == None(fn, S \ {k})

\* No request on the session is under way...
Resting ==
    /\ None(flight, Keeper) /\ None(exit, Keeper) /\ None(sign, Page)
    /\ live = IF SignedIn THEN {cookie} ELSE {}

\* ...or the refresh of one page is,...
Refreshing(p) ==
    LET f == flight[Module(p)] IN
    /\ Only(flight, Keeper, Module(p)) /\ None(exit, Keeper) /\ None(sign, Page)
    /\ f.at \in {"sent", "read", "ok", "no cookie", "failed"}
    /\ f.at \in {"sent", "read"} => f.token = cookie
    /\ f.at \in {"read", "ok"} => SignedIn
    /\ f.at = "ok" => f.token # 0
    /\ live = IF f.at = "ok" THEN {f.token} ELSE IF SignedIn THEN {cookie} ELSE {}

\* ...or the sign-out of the only page in the application,...
Leaving(p) ==
    LET x == exit[Module(p)] IN
    /\ None(flight, Keeper) /\ Only(exit, Keeper, Module(p)) /\ None(sign, Page)
    /\ x.at \in {"sent", "ok"}
    /\ x.at = "sent" => x.token = cookie
    /\ SignedIn
    /\ live = IF x.at = "ok" THEN {} ELSE {cookie}
    /\ \A q \in Page : ~call[q].saves /\ (q # p => view[q] # "app")

\* ...or the sign-in of a page.
Entering(p) ==
    LET g == sign[p] IN
    /\ None(flight, Keeper) /\ None(exit, Keeper) /\ Only(sign, Page, p)
    /\ g.at \in {"sent", "ok", "failed"}
    /\ ~SignedIn
    /\ g.at = "ok" => g.token # 0
    /\ live = IF g.at = "ok" THEN {g.token} ELSE {}

Story == Resting \/ \E p \in Page : Refreshing(p) \/ Leaving(p) \/ Entering(p)

\* AuthProvider keeps out of it, and a page in the application is signed in.
PagesAgree ==
    /\ \A p \in Page : /\ ~timer[Provider(p)]
                       /\ ~banner[p]
                       /\ view[p] = "app" => SignedIn
                       /\ call[p].saves => view[p] = "app"
    /\ SignedIn <=> cookie # 0

Calm == Story /\ PagesAgree

Inv == TypeOK /\ (~disturbed => Calm)
-----------------------------------------------------------------------------
(***************************************************************************)
(* Types.                                                                  *)
(***************************************************************************)
\* Every record an action builds is of its type.
LEMMA Records ==
    ASSUME cookie \in 0..MaxToken
    PROVE  /\ Sent \in Refreshes /\ Sent \in Requests /\ NoFlight \in Refreshes /\ NoFlight \in Requests
           /\ \A a \in {"refused", "no cookie", "failed"} : Without(a) \in Refreshes
           /\ \A a \in {"sent", "ok", "failed"} : Without(a) \in Requests
           /\ \A t \in 0..MaxToken : [at |-> "ok", token |-> t] \in Refreshes
           /\ \A t \in 0..MaxToken : [at |-> "ok", token |-> t] \in Requests
           /\ \A f \in Refreshes : /\ [f EXCEPT !.at = "read"] \in Refreshes
                                   /\ f.token \in 0..MaxToken
           /\ \A f \in Requests : f.token \in 0..MaxToken
           /\ Idle \in Calls
           /\ \A g, w \in BOOLEAN : [at |-> "sent", good |-> g, saves |-> w] \in Calls
           /\ \A c \in Calls : /\ [c EXCEPT !.at = "again", !.good = TRUE] \in Calls
                               /\ [c EXCEPT !.at = "refreshing"] \in Calls
                               /\ c.saves \in BOOLEAN /\ c.good \in BOOLEAN
           /\ \A p \in Page : Module(p) \in Keeper /\ Provider(p) \in Keeper
<1>. MaxToken \in Nat /\ 0 \in 0..MaxToken
  BY SessionAssumption
<1>1. /\ Sent \in Refreshes /\ Sent \in Requests /\ NoFlight \in Refreshes /\ NoFlight \in Requests
      /\ \A a \in {"refused", "no cookie", "failed"} : Without(a) \in Refreshes
      /\ \A a \in {"sent", "ok", "failed"} : Without(a) \in Requests
  BY DEF Refreshes, Requests, NoFlight, Without, Sent
<1>2. \A t \in 0..MaxToken : [at |-> "ok", token |-> t] \in Refreshes /\ [at |-> "ok", token |-> t] \in Requests
  BY DEF Refreshes, Requests
<1>3. ASSUME NEW f \in Refreshes
      PROVE  [f EXCEPT !.at = "read"] \in Refreshes /\ f.token \in 0..MaxToken
  BY DEF Refreshes
<1>4. \A f \in Requests : f.token \in 0..MaxToken
  BY DEF Requests
<1>5. Idle \in Calls /\ \A g, w \in BOOLEAN : [at |-> "sent", good |-> g, saves |-> w] \in Calls
  BY DEF Idle, Calls
<1>6. ASSUME NEW c \in Calls
      PROVE  /\ [c EXCEPT !.at = "again", !.good = TRUE] \in Calls
             /\ [c EXCEPT !.at = "refreshing"] \in Calls
             /\ c.saves \in BOOLEAN /\ c.good \in BOOLEAN
  BY DEF Calls
<1>7. \A p \in Page : Module(p) \in Keeper /\ Provider(p) \in Keeper
  BY DEF Module, Provider, Keeper
<1>. QED
  BY <1>1, <1>2, <1>3, <1>4, <1>5, <1>6, <1>7

LEMMA TypeStep == TypeOK /\ [Next]_vars => TypeOK'
<1> SUFFICES ASSUME TypeOK, [Next]_vars PROVE TypeOK'
  OBVIOUS
<1>. MaxToken \in Nat /\ MaxFaults \in Nat /\ MaxReloads \in Nat
  BY SessionAssumption
<1>0. /\ faults \in 0..MaxFaults /\ reloads \in 0..MaxReloads
      /\ live \subseteq 1..minted /\ minted \in 0..MaxToken /\ cookie \in 0..MaxToken
  BY DEF TypeOK
<1>1. ASSUME NEW k \in Keeper, ReadToken(k) PROVE TypeOK'
  BY <1>1, Records DEF TypeOK, ReadToken
<1>2. ASSUME NEW k \in Keeper, AnswerRefresh(k) PROVE TypeOK'
  <2>1. minted < MaxToken /\ minted' = minted + 1 /\ live' = (live \ {flight[k].token}) \cup {minted + 1}
    BY <1>2 DEF AnswerRefresh, Rotate
  <2>2. minted' \in 0..MaxToken /\ live' \subseteq 1..minted'
    <3>1. minted' \in 0..MaxToken /\ minted \in Nat
      BY <2>1, <1>0
    <3>2. 1..minted \subseteq 1..minted' /\ minted' \in 1..minted'
      BY <2>1, <3>1
    <3>3. live' \subseteq live \cup {minted'}
      BY <2>1
    <3>. QED
      BY <3>1, <3>2, <3>3, <1>0
  <2>3. [at |-> "ok", token |-> minted + 1] \in Refreshes
    BY <2>1, <2>2, Records DEF TypeOK
  <2>. QED
    BY <1>2, <2>2, <2>3 DEF TypeOK, AnswerRefresh
<1>3. ASSUME NEW k \in Keeper, LimitRefresh(k) PROVE TypeOK'
  BY <1>3, Records DEF TypeOK, LimitRefresh
<1>4. ASSUME NEW k \in Keeper, AnswerSignOut(k) PROVE TypeOK'
  BY <1>4, Records DEF TypeOK, AnswerSignOut, Revoke
<1>5. ASSUME NEW k \in Keeper, LoseRefresh(k) PROVE TypeOK'
  <2>1. faults' \in 0..MaxFaults
    BY <1>5, <1>0 DEF LoseRefresh
  <2>2. flight' \in [Keeper -> Refreshes]
    BY <1>5, Records DEF TypeOK, LoseRefresh
  <2>. QED
    BY <1>5, <2>1, <2>2, Records DEF TypeOK, LoseRefresh
<1>6. ASSUME NEW k \in Keeper, LoseSignOut(k) PROVE TypeOK'
  <2>1. faults' \in 0..MaxFaults
    BY <1>6, <1>0 DEF LoseSignOut
  <2>2. exit' \in [Keeper -> Requests]
    BY <1>6, Records DEF TypeOK, LoseSignOut
  <2>. QED
    BY <1>6, <2>1, <2>2, Records DEF TypeOK, LoseSignOut
<1>7. ASSUME NEW k \in Keeper, SignedOut(k) PROVE TypeOK'
  <2>1. cookie' \in 0..MaxToken
    BY <1>7, <1>0 DEF SignedOut
  <2>2. exit' \in [Keeper -> Requests]
    BY <1>7, Records DEF TypeOK, SignedOut
  <2>3. view' \in [Page -> {"auth", "app"}] /\ banner' \in [Page -> BOOLEAN]
    BY <1>7 DEF TypeOK, SignedOut, Keeper
  <2>. QED
    BY <1>7, <2>1, <2>2, <2>3 DEF TypeOK, SignedOut
<1>8. ASSUME NEW p \in Page, ModuleRefreshed(p) PROVE TypeOK'
  BY <1>8, Records DEF TypeOK, ModuleRefreshed
<1>9. ASSUME NEW p \in Page, ModuleRefused(p) PROVE TypeOK'
  BY <1>9, Records DEF TypeOK, ModuleRefused, ClearSession
<1>10. ASSUME NEW p \in Page, ModuleUnanswered(p) PROVE TypeOK'
  <2>1. timer' \in [Keeper -> BOOLEAN]
    BY <1>10, Records DEF TypeOK, ModuleUnanswered, SignedIn
  <2>2. call' \in [Page -> Calls]
    BY <1>10, Records DEF TypeOK, ModuleUnanswered, SignedIn
  <2>3. flight' \in [Keeper -> Refreshes] /\ waits' \in [Page -> SUBSET {"keeper", "call"}]
    BY <1>10, Records DEF TypeOK, ModuleUnanswered, SignedIn
  <2>. QED
    BY <1>10, <2>1, <2>2, <2>3, Records DEF TypeOK, ModuleUnanswered, SignedIn
<1>11. ASSUME NEW p \in Page, ModuleTimer(p) PROVE TypeOK'
  BY <1>11, Records DEF TypeOK, ModuleTimer, TryRefresh
<1>12. ASSUME NEW p \in Page, ProviderTimer(p) PROVE TypeOK'
  BY <1>12, Records DEF TypeOK, ProviderTimer
<1>13. ASSUME NEW p \in Page, ProviderRefreshed(p) PROVE TypeOK'
  BY <1>13, Records DEF TypeOK, ProviderRefreshed
<1>14. ASSUME NEW p \in Page, ProviderGivesUp(p) PROVE TypeOK'
  BY <1>14, Records DEF TypeOK, ProviderGivesUp
<1>15. ASSUME NEW p \in Page, SignOut(p) PROVE TypeOK'
  BY <1>15, Records DEF TypeOK, SignOut
<1>16. ASSUME NEW p \in Page, SubmitSignIn(p) PROVE TypeOK'
  BY <1>16, Records DEF TypeOK, SubmitSignIn
<1>17. ASSUME NEW p \in Page, AnswerSignIn(p) PROVE TypeOK'
  <2>1. CASE /\ minted < MaxToken /\ minted' = minted + 1 /\ live' = live \cup {minted + 1}
             /\ sign' = [sign EXCEPT ![p] = [at |-> "ok", token |-> minted + 1]]
    <3>1. minted' \in 0..MaxToken /\ live' \subseteq 1..minted'
      BY <2>1, <1>0
    <3>2. [at |-> "ok", token |-> minted + 1] \in Requests
      BY <2>1, <3>1, Records DEF TypeOK
    <3>. QED
      BY <1>17, <2>1, <3>1, <3>2 DEF TypeOK, AnswerSignIn
  <2>2. CASE sign' = [sign EXCEPT ![p] = Without("failed")] /\ UNCHANGED <<live, minted>>
    BY <1>17, <2>2, Records DEF TypeOK, AnswerSignIn
  <2>. QED
    BY <1>17, <2>1, <2>2 DEF AnswerSignIn
<1>18. ASSUME NEW p \in Page, LoseSignIn(p) PROVE TypeOK'
  <2>1. faults' \in 0..MaxFaults
    BY <1>18, <1>0 DEF LoseSignIn
  <2>2. sign' \in [Page -> Requests]
    BY <1>18, Records DEF TypeOK, LoseSignIn
  <2>. QED
    BY <1>18, <2>1, <2>2, Records DEF TypeOK, LoseSignIn
<1>19. ASSUME NEW p \in Page, SignInDone(p) PROVE TypeOK'
  BY <1>19, Records DEF TypeOK, SignInDone
<1>20. ASSUME NEW p \in Page, SignInFailed(p) PROVE TypeOK'
  BY <1>20, Records DEF TypeOK, SignInFailed
<1>21. ASSUME NEW p \in Page, CallAPI(p) PROVE TypeOK'
  <2>1. PICK saves \in BOOLEAN :
          call' = [call EXCEPT ![p] = [at |-> "sent", good |-> stored = "fresh", saves |-> saves]]
    BY <1>21 DEF CallAPI
  <2>2. (stored = "fresh") \in BOOLEAN
    OBVIOUS
  <2>3. [at |-> "sent", good |-> stored = "fresh", saves |-> saves] \in Calls
    BY <2>2 DEF Calls
  <2>4. call' \in [Page -> Calls]
    BY <2>1, <2>3 DEF TypeOK
  <2>. QED
    BY <1>21, <2>4 DEF TypeOK, CallAPI
<1>22. ASSUME NEW p \in Page, CallAnswered(p) PROVE TypeOK'
  BY <1>22, Records DEF TypeOK, CallAnswered
<1>23. ASSUME NEW p \in Page, CallUnauthorized(p) PROVE TypeOK'
  BY <1>23, Records DEF TypeOK, CallUnauthorized, TryRefresh
<1>24. ASSUME NEW p \in Page, CallLost(p) PROVE TypeOK'
  BY <1>24, Records DEF TypeOK, CallLost
<1>25. ASSUME NEW p \in Page, Reload(p) PROVE TypeOK'
  <2>1. flight' \in [Keeper -> Refreshes]
    BY <1>25, Records DEF TypeOK, Reload, SignedIn
  <2>2. exit' \in [Keeper -> Requests] /\ sign' \in [Page -> Requests]
    BY <1>25, Records DEF TypeOK, Reload, SignedIn
  <2>3. waits' \in [Page -> SUBSET {"keeper", "call"}] /\ timer' \in [Keeper -> BOOLEAN]
    BY <1>25, Records DEF TypeOK, Reload, SignedIn
  <2>4. call' \in [Page -> Calls]
    BY <1>25, Records DEF TypeOK, Reload, SignedIn
  <2>5. view' \in [Page -> {"auth", "app"}] /\ banner' \in [Page -> BOOLEAN]
    BY <1>25 DEF TypeOK, Reload
  <2>6. reloads' \in 0..MaxReloads
    BY <1>25, <1>0 DEF Reload
  <2>. QED
    BY <1>25, <2>6, <2>1, <2>2, <2>3, <2>4, <2>5, Records DEF TypeOK, Reload, SignedIn
<1>26. CASE Age
  BY <1>26, Records DEF TypeOK, Age
<1>27. CASE UNCHANGED vars
  BY <1>27, Records DEF TypeOK, vars
<1>28. CASE Expire
  <2>1. faults' \in 0..MaxFaults
    BY <1>28, <1>0 DEF Expire
  <2>2. live' \subseteq 1..minted /\ cookie' \in 0..MaxToken
    BY <1>28, <1>0 DEF Expire
  <2>. QED
    BY <1>28, <2>1, <2>2 DEF TypeOK, Expire
<1>. QED
  BY <1>1, <1>2, <1>3, <1>4, <1>5, <1>6, <1>7, <1>8, <1>9, <1>10, <1>11, <1>12, <1>13, <1>14, <1>15, <1>16, <1>17, <1>18, <1>19, <1>20, <1>21, <1>22, <1>23, <1>24, <1>25, <1>26, <1>27, <1>28 DEF Next, ServerStep, Lost, ModuleStep, ProviderStep, Timers, SignInStep, CallStep, UserStep

-----------------------------------------------------------------------------
(***************************************************************************)
(* The story of an undisturbed session.                                    *)
(***************************************************************************)
\* What the proofs use of keepers and of the records of requests.
LEMMA Shapes ==
    /\ \A k \in Keeper : \E p \in Page : k = Module(p) \/ k = Provider(p)
    /\ \A p, q \in Page : Module(p) # Provider(q) /\ (Module(p) = Module(q) => p = q)
    /\ \A p \in Page : Module(p) \in Keeper /\ Provider(p) \in Keeper
    /\ \A p \in Page : Module(p)[1] = p /\ Module(p)[2] = "module"
BY DEF Keeper, Module, Provider

LEMMA Ats ==
    /\ NoFlight.at = "no" /\ NoFlight.token = 0
    /\ Without("sent").at = "sent" /\ Without("ok").at = "ok" /\ Without("failed").at = "failed"
    /\ Without("no cookie").at = "no cookie"
    /\ Sent.at = "sent" /\ Sent.token = cookie
    /\ Idle.saves = FALSE
BY DEF NoFlight, Without, Idle, Sent

\* The story tells which request is under way.
LEMMA Focus ==
    ASSUME Story
    PROVE  /\ \A k \in Keeper : flight[k].at # "no" => \E p \in Page : k = Module(p) /\ Refreshing(p)
           /\ \A k \in Keeper : exit[k].at # "no" => \E p \in Page : k = Module(p) /\ Leaving(p)
           /\ \A p \in Page : sign[p].at # "no" => Entering(p)
           /\ Quiet => Resting
           /\ \A p \in Page : flight[Module(p)] = NoFlight /\ exit[Module(p)] = NoFlight
                              /\ ~Overlaps(Module(p)) => Resting
<1>0. /\ Resting => (\A k \in Keeper : flight[k].at = "no" /\ exit[k].at = "no")
                   /\ (\A p \in Page : sign[p].at = "no")
      /\ \A p \in Page : Refreshing(p) => (\A k \in Keeper : exit[k].at = "no")
                           /\ (\A k \in Keeper : k # Module(p) => flight[k].at = "no")
                           /\ (\A q \in Page : sign[q].at = "no")
      /\ \A p \in Page : Leaving(p) => (\A k \in Keeper : flight[k].at = "no")
                           /\ (\A k \in Keeper : k # Module(p) => exit[k].at = "no")
                           /\ (\A q \in Page : sign[q].at = "no")
      /\ \A p \in Page : Entering(p) => (\A k \in Keeper : flight[k].at = "no" /\ exit[k].at = "no")
                           /\ (\A q \in Page : q # p => sign[q].at = "no")
  BY Ats DEF Resting, Refreshing, Leaving, Entering, None, Only
<1>1. ASSUME NEW k \in Keeper, flight[k].at # "no" PROVE \E p \in Page : k = Module(p) /\ Refreshing(p)
  BY <1>0, <1>1 DEF Story
<1>2. ASSUME NEW k \in Keeper, exit[k].at # "no" PROVE \E p \in Page : k = Module(p) /\ Leaving(p)
  BY <1>0, <1>2 DEF Story
<1>3. ASSUME NEW p \in Page, sign[p].at # "no" PROVE Entering(p)
  <2>1. PICK q \in Page : Entering(q)
    BY <1>0, <1>3 DEF Story
  <2>. QED
    BY <1>0, <1>3, <2>1
<1>4. Quiet => Resting
  BY Ats, Shapes DEF Story, Resting, Refreshing, Leaving, Entering, Quiet
<1>5. ASSUME NEW p \in Page, flight[Module(p)] = NoFlight, exit[Module(p)] = NoFlight, ~Overlaps(Module(p))
      PROVE  Resting
  BY <1>5, Ats, Shapes DEF Story, Resting, Refreshing, Leaving, Entering, Overlaps
<1>. QED
  BY <1>1, <1>2, <1>3, <1>4, <1>5

\* What a step that leaves the requests and the tokens alone may change.
LEMMA StoryFrame ==
    ASSUME Story, UNCHANGED <<flight, exit, sign, live, cookie>>, SignedIn' = SignedIn,
           \A p \in Page : Leaving(p) =>
               \A q \in Page : ~call'[q].saves /\ (q # p => view'[q] # "app")
    PROVE  Story'
<1>1. CASE Resting
  BY <1>1 DEF Story, Resting, None
<1>2. ASSUME NEW p \in Page, Refreshing(p) PROVE Refreshing(p)'
  BY <1>2 DEF Refreshing, None, Only
<1>3. ASSUME NEW p \in Page, Leaving(p) PROVE Leaving(p)'
  <2>1. \A q \in Page : ~(call[q].saves)' /\ (q # p => (view[q])' # "app")
    BY <1>3
  <2>. QED
    BY <1>3, <2>1 DEF Leaving, None, Only
<1>4. ASSUME NEW p \in Page, Entering(p) PROVE Entering(p)'
  BY <1>4 DEF Entering, None, Only
<1>. QED
  BY <1>1, <1>2, <1>3, <1>4 DEF Story

LEMMA CalmStep == Inv /\ [Next]_vars /\ ~disturbed' => Calm'
<1> SUFFICES ASSUME Inv, [Next]_vars, ~disturbed' PROVE Calm'
  OBVIOUS
<1>0. /\ flight \in [Keeper -> Refreshes] /\ exit \in [Keeper -> Requests] /\ sign \in [Page -> Requests]
      /\ timer \in [Keeper -> BOOLEAN] /\ view \in [Page -> {"auth", "app"}] /\ banner \in [Page -> BOOLEAN]
      /\ call \in [Page -> Calls] /\ minted \in Nat
  BY DEF Inv, TypeOK
<1>1. ASSUME NEW k \in Keeper, ReadToken(k) PROVE Calm'
  <2>0. ~disturbed /\ Calm
    BY <1>1 DEF Inv, ReadToken
  <2>1. PICK p \in Page : k = Module(p) /\ Refreshing(p)
    BY <1>1, <2>0, Focus DEF Calm, ReadToken
  <2>2. PagesAgree'
    BY <1>1, <2>0 DEF Calm, PagesAgree, SignedIn, ReadToken
  <2>3. Refreshing(p)'
    BY <1>1, <1>0, <2>0, <2>1, Ats DEF Calm, PagesAgree, Refreshing, None, Only, SignedIn, ReadToken, Refreshes
  <2>. QED
    BY <2>2, <2>3 DEF Calm, Story
<1>2. ASSUME NEW k \in Keeper, AnswerRefresh(k) PROVE Calm'
  <2>0. ~disturbed /\ Calm
    BY <1>2 DEF Inv, AnswerRefresh
  <2>1. PICK p \in Page : k = Module(p) /\ Refreshing(p)
    BY <1>2, <2>0, Focus DEF Calm, AnswerRefresh
  <2>2. PagesAgree'
    BY <1>2, <2>0 DEF Calm, PagesAgree, SignedIn, AnswerRefresh
  <2>3. /\ flight[k].at = "read" /\ live' = (live \ {flight[k].token}) \cup {minted + 1}
        /\ flight' = [flight EXCEPT ![k] = [at |-> "ok", token |-> minted + 1]]
        /\ UNCHANGED <<cookie, stored, exit, sign>>
    BY <1>2 DEF AnswerRefresh, Rotate
  <2>4. minted + 1 # 0
    BY <1>0
  <2>5. live' = {minted + 1} /\ SignedIn
    BY <2>1, <2>3 DEF Refreshing
  <2>6. flight'[k] = [at |-> "ok", token |-> minted + 1] /\ \A j \in Keeper \ {k} : flight'[j] = flight[j]
    BY <1>0, <2>3
  <2>7. flight'[Module(p)].at = "ok" /\ flight'[Module(p)].token = minted + 1
    BY <2>1, <2>6
  <2>8. /\ Only(flight, Keeper, Module(p))'
        /\ None(exit, Keeper)' /\ None(sign, Page)'
    BY <2>1, <2>3, <2>6 DEF Refreshing, None, Only
  <2>9. Refreshing(p)'
    BY <2>3, <2>4, <2>5, <2>7, <2>8 DEF Refreshing, SignedIn
  <2>. QED
    BY <2>2, <2>9 DEF Calm, Story
<1>3. ASSUME NEW k \in Keeper, LimitRefresh(k) PROVE Calm'
  <2>0. ~disturbed /\ Calm
    BY <1>3 DEF Inv, LimitRefresh
  <2>1. PICK p \in Page : k = Module(p) /\ Refreshing(p)
    BY <1>3, <2>0, Focus DEF Calm, LimitRefresh
  <2>2. PagesAgree'
    BY <1>3, <2>0 DEF Calm, PagesAgree, SignedIn, LimitRefresh
  <2>3. Refreshing(p)'
    BY <1>3, <1>0, <2>1, Ats DEF Refreshing, None, Only, SignedIn, LimitRefresh
  <2>. QED
    BY <2>2, <2>3 DEF Calm, Story
<1>4. ASSUME NEW k \in Keeper, AnswerSignOut(k) PROVE Calm'
  <2>0. ~disturbed /\ Calm
    BY <1>4 DEF Inv, AnswerSignOut
  <2>1. PICK p \in Page : k = Module(p) /\ Leaving(p)
    BY <1>4, <2>0, Focus DEF Calm, AnswerSignOut
  <2>2. PagesAgree'
    BY <1>4, <2>0 DEF Calm, PagesAgree, SignedIn, AnswerSignOut
  <2>3. Leaving(p)'
    BY <1>4, <1>0, <2>1, Ats DEF Leaving, None, Only, SignedIn, AnswerSignOut, Revoke
  <2>. QED
    BY <2>2, <2>3 DEF Calm, Story
<1>5. ASSUME NEW k \in Keeper, SignedOut(k) PROVE Calm'
  <2>0. ~disturbed /\ Calm
    BY <1>5 DEF Inv, SignedOut
  <2>1. PICK p \in Page : k = Module(p) /\ Leaving(p)
    BY <1>5, <2>0, Focus DEF Calm, SignedOut
  <2>2. /\ exit[k].at = "ok" /\ cookie' = 0 /\ stored' = "none" /\ exit' = [exit EXCEPT ![k] = NoFlight]
        /\ view' = [view EXCEPT ![p] = "auth"] /\ banner' = [banner EXCEPT ![p] = FALSE]
        /\ UNCHANGED <<live, flight, timer, call, sign>>
    BY <1>5, <2>1, Shapes DEF SignedOut, Leaving
  <2>3. PagesAgree'
    BY <1>0, <2>0, <2>1, <2>2 DEF Calm, PagesAgree, SignedIn, Leaving
  <2>4. Resting'
    BY <1>0, <2>1, <2>2 DEF Leaving, Resting, None, Only, SignedIn
  <2>. QED
    BY <2>3, <2>4 DEF Calm, Story
<1>6. ASSUME NEW p \in Page, ModuleRefreshed(p) PROVE Calm'
  <2>0. ~disturbed /\ Calm
    BY <1>6 DEF Inv, ModuleRefreshed
  <2>1. Refreshing(p)
    BY <1>6, <2>0, Focus, Shapes DEF Calm, ModuleRefreshed
  <2>2. /\ flight[Module(p)].at = "ok" /\ cookie' = flight[Module(p)].token /\ stored' = "fresh"
        /\ flight' = [flight EXCEPT ![Module(p)] = NoFlight]
        /\ UNCHANGED <<live, exit, sign, view, banner>>
    BY <1>6 DEF ModuleRefreshed
  <2>3. \A q \in Page : timer'[Provider(q)] = timer[Provider(q)] /\ call'[q].saves = call[q].saves
    BY <1>6, <1>0, Shapes DEF ModuleRefreshed, Calls
  <2>4. PagesAgree'
    BY <1>0, <2>0, <2>1, <2>2, <2>3 DEF Calm, PagesAgree, SignedIn, Refreshing
  <2>5. Resting'
    BY <1>0, <2>1, <2>2, Shapes DEF Refreshing, Resting, None, Only, SignedIn
  <2>. QED
    BY <2>4, <2>5 DEF Calm, Story
<1>7. ASSUME NEW p \in Page, ModuleUnanswered(p) PROVE Calm'
  <2>0. ~disturbed /\ Calm
    BY <1>7 DEF Inv, ModuleUnanswered
  <2>1. Refreshing(p)
    BY <1>7, <2>0, Focus, Shapes DEF Calm, ModuleUnanswered
  <2>2. /\ flight[Module(p)].at # "ok" /\ flight' = [flight EXCEPT ![Module(p)] = NoFlight]
        /\ UNCHANGED <<cookie, stored, live, exit, sign, view, banner>>
    BY <1>7 DEF ModuleUnanswered
  <2>3. \A q \in Page : timer'[Provider(q)] = timer[Provider(q)] /\ (call'[q].saves => call[q].saves)
    BY <1>7, <1>0, Shapes, Ats DEF ModuleUnanswered
  <2>4. PagesAgree'
    BY <2>0, <2>2, <2>3 DEF Calm, PagesAgree, SignedIn
  <2>5. Resting'
    BY <1>0, <2>1, <2>2, Shapes DEF Refreshing, Resting, None, Only, SignedIn
  <2>. QED
    BY <2>4, <2>5 DEF Calm, Story
<1>8. ASSUME NEW p \in Page, NEW who, TryRefresh(p, who), ~disturbed, Calm,
             UNCHANGED <<cookie, stored, live, exit, sign, view, banner>>,
             \A q \in Page : (timer'[Provider(q)] => timer[Provider(q)]) /\ (call'[q].saves => call[q].saves)
      PROVE  Calm'
  <2>1. PagesAgree'
    BY <1>8 DEF Calm, PagesAgree, SignedIn
  <2>2. CASE flight[Module(p)] # NoFlight
    <3>1. UNCHANGED <<flight, exit, sign, live, cookie>> /\ SignedIn' = SignedIn
      BY <1>8, <2>2 DEF TryRefresh, SignedIn
    <3>2. \A r \in Page : Leaving(r) => \A q \in Page : ~call'[q].saves /\ (q # r => view'[q] # "app")
      BY <1>8 DEF Leaving
    <3>. QED
      BY <1>8, <3>1, <3>2, <2>1, StoryFrame DEF Calm
  <2>3. CASE flight[Module(p)] = NoFlight
    <3>1. exit[Module(p)] = NoFlight /\ ~Overlaps(Module(p)) /\ flight' = [flight EXCEPT ![Module(p)] = Sent]
      BY <1>8, <2>3 DEF TryRefresh
    <3>2. Resting
      BY <1>8, <2>3, <3>1, Focus DEF Calm
    <3>3. /\ flight'[Module(p)].at = "sent" /\ flight'[Module(p)].token = cookie
          /\ \A j \in Keeper \ {Module(p)} : flight'[j] = flight[j]
      BY <1>0, <3>1, Ats, Shapes
    <3>4. Only(flight, Keeper, Module(p))' /\ None(exit, Keeper)' /\ None(sign, Page)'
      BY <1>8, <3>2, <3>3 DEF Resting, None, Only
    <3>5. Refreshing(p)'
      BY <1>8, <3>2, <3>3, <3>4 DEF Refreshing, Resting, SignedIn
    <3>. QED
      BY <2>1, <3>5 DEF Calm, Story
  <2>. QED
    BY <2>2, <2>3
<1>9. ASSUME NEW p \in Page, ModuleTimer(p) PROVE Calm'
  <2>1. ~disturbed /\ Calm
    BY <1>9 DEF Inv, ModuleTimer, TryRefresh
  <2>2. \A q \in Page : (timer'[Provider(q)] => timer[Provider(q)]) /\ (call'[q].saves => call[q].saves)
    BY <1>9, <1>0, Shapes DEF ModuleTimer
  <2>. QED
    BY <1>8, <1>9, <2>1, <2>2 DEF ModuleTimer
<1>10. ASSUME NEW p \in Page, CallUnauthorized(p) PROVE Calm'
  <2>1. ~disturbed /\ Calm
    BY <1>10 DEF Inv, CallUnauthorized, TryRefresh
  <2>2. \A q \in Page : (timer'[Provider(q)] => timer[Provider(q)]) /\ (call'[q].saves => call[q].saves)
    BY <1>10, <1>0 DEF CallUnauthorized, Calls
  <2>. QED
    BY <1>8, <1>10, <2>1, <2>2 DEF CallUnauthorized
<1>11. ASSUME NEW p \in Page, SignOut(p) PROVE Calm'
  <2>0. ~disturbed /\ Calm /\ Quiet /\ ~call[p].saves /\ \A q \in Page \ {p} : view[q] # "app"
    BY <1>11 DEF Inv, SignOut
  <2>1. Resting /\ SignedIn
    BY <1>11, <2>0, Focus DEF Calm, PagesAgree, SignOut
  <2>2. /\ timer' = [timer EXCEPT ![Module(p)] = FALSE] /\ exit' = [exit EXCEPT ![Module(p)] = Sent]
        /\ UNCHANGED <<cookie, stored, live, flight, call, sign, view, banner>>
    BY <1>11 DEF SignOut
  <2>3. PagesAgree'
    <3>1. \A q \in Page : timer'[Provider(q)] = timer[Provider(q)]
      BY <1>0, <2>2, Shapes
    <3>. QED
      BY <2>0, <2>2, <3>1 DEF Calm, PagesAgree, SignedIn
  <2>4. /\ exit'[Module(p)].at = "sent" /\ exit'[Module(p)].token = cookie
        /\ \A j \in Keeper \ {Module(p)} : exit'[j] = exit[j]
    BY <1>0, <2>2, Ats, Shapes
  <2>5. None(flight, Keeper)' /\ Only(exit, Keeper, Module(p))' /\ None(sign, Page)'
    BY <2>1, <2>2, <2>4 DEF Resting, None, Only
  <2>6. \A q \in Page : ~call'[q].saves /\ (q # p => view'[q] # "app")
    BY <2>0, <2>2 DEF Calm, PagesAgree
  <2>7. Leaving(p)'
    BY <2>1, <2>2, <2>4, <2>5, <2>6 DEF Leaving, Resting, SignedIn
  <2>. QED
    BY <2>3, <2>7 DEF Calm, Story
<1>12. ASSUME NEW p \in Page, SubmitSignIn(p) PROVE Calm'
  <2>0. ~disturbed /\ Calm /\ Quiet /\ ~SignedIn
    BY <1>12 DEF Inv, SubmitSignIn
  <2>1. Resting
    BY <2>0, Focus DEF Calm
  <2>2. /\ sign' = [sign EXCEPT ![p] = Without("sent")]
        /\ UNCHANGED <<cookie, stored, live, flight, exit, timer, call, view, banner>>
    BY <1>12 DEF SubmitSignIn
  <2>3. PagesAgree'
    BY <2>0, <2>2 DEF Calm, PagesAgree, SignedIn
  <2>4. sign'[p].at = "sent" /\ \A q \in Page \ {p} : sign'[q] = sign[q]
    BY <1>0, <2>2, Ats
  <2>5. None(flight, Keeper)' /\ None(exit, Keeper)' /\ Only(sign, Page, p)'
    BY <2>1, <2>2, <2>4 DEF Resting, None, Only
  <2>6. Entering(p)'
    BY <2>0, <2>1, <2>2, <2>4, <2>5 DEF Entering, Resting, SignedIn
  <2>. QED
    BY <2>3, <2>6 DEF Calm, Story
<1>13. ASSUME NEW p \in Page, AnswerSignIn(p) PROVE Calm'
  <2>0. ~disturbed /\ Calm /\ UNCHANGED <<cookie, stored, flight, exit, timer, call, view, banner>>
    BY <1>13 DEF Inv, AnswerSignIn
  <2>1. Entering(p) /\ sign[p].at = "sent"
    BY <1>13, <2>0, Focus DEF Calm, AnswerSignIn
  <2>2. PagesAgree'
    BY <2>0 DEF Calm, PagesAgree, SignedIn
  <2>3. CASE live' = live \cup {minted + 1} /\ sign' = [sign EXCEPT ![p] = [at |-> "ok", token |-> minted + 1]]
    <3>1. /\ sign'[p].at = "ok" /\ sign'[p].token = minted + 1 /\ \A q \in Page \ {p} : sign'[q] = sign[q]
      BY <1>0, <2>3
    <3>2. minted + 1 # 0
      BY <1>0
    <3>3. live' = {minted + 1}
      BY <2>1, <2>3 DEF Entering
    <3>4. None(flight, Keeper)' /\ None(exit, Keeper)' /\ Only(sign, Page, p)'
      BY <2>0, <2>1, <3>1 DEF Entering, None, Only
    <3>5. Entering(p)'
      BY <2>0, <2>1, <3>1, <3>2, <3>3, <3>4 DEF Entering, SignedIn
    <3>. QED
      BY <2>2, <3>5 DEF Calm, Story
  <2>4. CASE sign' = [sign EXCEPT ![p] = Without("failed")] /\ UNCHANGED live
    <3>1. sign'[p].at = "failed" /\ \A q \in Page \ {p} : sign'[q] = sign[q]
      BY <1>0, <2>4, Ats
    <3>2. None(flight, Keeper)' /\ None(exit, Keeper)' /\ Only(sign, Page, p)'
      BY <2>0, <2>1, <3>1 DEF Entering, None, Only
    <3>3. Entering(p)'
      BY <2>0, <2>1, <2>4, <3>1, <3>2 DEF Entering, SignedIn
    <3>. QED
      BY <2>2, <3>3 DEF Calm, Story
  <2>. QED
    BY <1>13, <2>3, <2>4 DEF AnswerSignIn
<1>14. ASSUME NEW p \in Page, SignInDone(p) PROVE Calm'
  <2>0. ~disturbed /\ Calm
    BY <1>14 DEF Inv, SignInDone
  <2>1. Entering(p)
    BY <1>14, <2>0, Focus DEF Calm, SignInDone
  <2>2. /\ sign[p].at = "ok" /\ cookie' = sign[p].token /\ stored' = "fresh"
        /\ timer' = [timer EXCEPT ![Module(p)] = TRUE] /\ view' = [view EXCEPT ![p] = "app"]
        /\ banner' = [banner EXCEPT ![p] = FALSE] /\ sign' = [sign EXCEPT ![p] = NoFlight]
        /\ UNCHANGED <<live, flight, exit, call>>
    BY <1>14 DEF SignInDone
  <2>3. PagesAgree'
    <3>1. \A q \in Page : timer'[Provider(q)] = timer[Provider(q)]
      BY <1>0, <2>2, Shapes
    <3>2. \A q \in Page : ~banner'[q] /\ (view[q] = "app" => view'[q] = "app")
      BY <1>0, <2>0, <2>2 DEF Calm, PagesAgree
    <3>3. SignedIn' /\ cookie' # 0
      BY <2>1, <2>2 DEF Entering, SignedIn
    <3>. QED
      BY <2>0, <2>2, <3>1, <3>2, <3>3 DEF Calm, PagesAgree
  <2>4. Resting'
    BY <1>0, <2>1, <2>2 DEF Entering, Resting, None, Only, SignedIn
  <2>. QED
    BY <2>3, <2>4 DEF Calm, Story
<1>15. ASSUME NEW p \in Page, SignInFailed(p) PROVE Calm'
  <2>0. ~disturbed /\ Calm
    BY <1>15 DEF Inv, SignInFailed
  <2>1. Entering(p)
    BY <1>15, <2>0, Focus DEF Calm, SignInFailed
  <2>2. PagesAgree'
    BY <1>15, <2>0 DEF Calm, PagesAgree, SignedIn, SignInFailed
  <2>3. Resting'
    BY <1>15, <1>0, <2>1 DEF Entering, Resting, None, Only, SignedIn, SignInFailed
  <2>. QED
    BY <2>2, <2>3 DEF Calm, Story
\* The steps that touch no request: at most a call, and the age of the token.
<1>16. ASSUME ~disturbed, Calm, UNCHANGED <<cookie, live, flight, exit, sign, view, banner>>,
              SignedIn' = SignedIn,
              \A q \in Page : timer'[Provider(q)] => timer[Provider(q)],
              \A q \in Page : call'[q].saves => view[q] = "app" /\ \A k \in Keeper : exit[k] = NoFlight
       PROVE  Calm'
  <2>1. PagesAgree'
    BY <1>16 DEF Calm, PagesAgree
  <2>2. ASSUME NEW r \in Page, Leaving(r), NEW q \in Page
        PROVE  ~call'[q].saves /\ (q # r => view'[q] # "app")
    BY <1>16, <2>2, Ats, Shapes DEF Leaving
  <2>. QED
    BY <1>16, <2>1, <2>2, StoryFrame DEF Calm
<1>17. ASSUME NEW p \in Page, CallAPI(p) PROVE Calm'
  <2>1. PICK saves \in BOOLEAN :
          /\ call' = [call EXCEPT ![p] = [at |-> "sent", good |-> stored = "fresh", saves |-> saves]]
          /\ disturbed' = (disturbed \/ (saves /\ \E k \in Keeper : exit[k] # NoFlight))
    BY <1>17 DEF CallAPI
  <2>2. ~disturbed /\ Calm /\ UNCHANGED <<cookie, stored, live, flight, exit, timer, sign, view, banner>>
    BY <1>17, <2>1 DEF Inv, CallAPI
  <2>3. ASSUME NEW q \in Page, call'[q].saves PROVE view[q] = "app" /\ \A k \in Keeper : exit[k] = NoFlight
    <3>1. CASE q = p
      BY <1>17, <1>0, <2>1, <2>3, <3>1 DEF CallAPI
    <3>2. CASE q # p
      <4>1. call[q].saves /\ view[q] = "app"
        BY <1>0, <2>1, <2>2, <2>3, <3>2 DEF Calm, PagesAgree
      <4>2. \A k \in Keeper : exit[k] = NoFlight
        BY <2>2, <4>1 DEF Calm, Story, Resting, Refreshing, Leaving, Entering, None
      <4>. QED
        BY <4>1, <4>2
    <3>. QED
      BY <3>1, <3>2
  <2>. QED
    BY <1>16, <2>2, <2>3 DEF SignedIn
<1>18. ASSUME ~disturbed, Calm, NEW q \in Page, call[q].saves
       PROVE  view[q] = "app" /\ SignedIn /\ \A k \in Keeper : exit[k] = NoFlight
  BY <1>18 DEF Calm, PagesAgree, Story, Resting, Refreshing, Leaving, Entering, None
<1>19. ASSUME NEW p \in Page, CallAnswered(p) PROVE Calm'
  <2>1. ~disturbed /\ Calm /\ UNCHANGED <<cookie, live, flight, exit, sign, view, banner>>
    BY <1>19 DEF Inv, CallAnswered
  <2>2. \A q \in Page : (timer'[Provider(q)] => timer[Provider(q)]) /\ (call'[q].saves => call[q].saves)
    BY <1>19, <1>0, Shapes, Ats DEF CallAnswered
  <2>3. SignedIn' = SignedIn
    BY <1>19, <1>18, <2>1 DEF CallAnswered, SignedIn
  <2>. QED
    BY <1>16, <1>18, <2>1, <2>2, <2>3
<1>20. ASSUME NEW p \in Page, CallLost(p) PROVE Calm'
  <2>1. ~disturbed /\ Calm /\ UNCHANGED <<cookie, stored, live, flight, exit, timer, sign, view, banner>>
    BY <1>20 DEF Inv, CallLost
  <2>2. \A q \in Page : call'[q].saves => call[q].saves
    BY <1>20, <1>0, Ats DEF CallLost
  <2>. QED
    BY <1>16, <1>18, <2>1, <2>2 DEF SignedIn
<1>21. CASE Age
  <2>1. ~disturbed /\ Calm
    BY <1>21 DEF Inv, Age
  <2>2. SignedIn' = SignedIn
    BY <1>21 DEF Age, SignedIn
  <2>. QED
    BY <1>16, <1>18, <1>21, <2>1, <2>2 DEF Age
<1>22. CASE UNCHANGED vars
  <2>1. ~disturbed /\ Calm
    BY <1>22 DEF Inv, vars
  <2>. QED
    BY <1>16, <1>18, <1>22, <2>1 DEF vars, SignedIn
<1>23. ASSUME NEW p \in Page, Reload(p) PROVE Calm'
  <2>0. ~disturbed /\ Calm /\ Quiet /\ ~SignedIn
    BY <1>23 DEF Inv, Reload
  <2>1. Resting
    BY <2>0, Focus DEF Calm
  <2>2. /\ timer' = [timer EXCEPT ![Module(p)] = FALSE, ![Provider(p)] = FALSE]
        /\ call' = [call EXCEPT ![p] = Idle] /\ view' = [view EXCEPT ![p] = "auth"]
        /\ banner' = [banner EXCEPT ![p] = FALSE]
        /\ UNCHANGED <<cookie, stored, live>>
    BY <1>23, <2>0 DEF Reload, SignedIn
  <2>3. /\ flight' = [flight EXCEPT ![Module(p)] = NoFlight, ![Provider(p)] = NoFlight]
        /\ exit' = [exit EXCEPT ![Module(p)] = NoFlight, ![Provider(p)] = NoFlight]
        /\ sign' = [sign EXCEPT ![p] = NoFlight]
    BY <1>23, <2>0 DEF Reload
  <2>4. \A q \in Page : ~timer'[Provider(q)] /\ ~banner'[q] /\ view'[q] # "app"
    BY <1>0, <2>0, <2>2, Shapes DEF Calm, PagesAgree
  <2>5. \A q \in Page : ~call'[q].saves
    BY <1>0, <2>0, <2>2, Ats DEF Calm, PagesAgree
  <2>6. PagesAgree'
    BY <2>0, <2>2, <2>4, <2>5 DEF Calm, PagesAgree, SignedIn
  <2>7. None(flight, Keeper)' /\ None(exit, Keeper)' /\ None(sign, Page)'
    BY <1>0, <2>1, <2>3 DEF Resting, None
  <2>8. Resting'
    BY <2>1, <2>2, <2>7 DEF Resting, SignedIn
  <2>. QED
    BY <2>6, <2>8 DEF Calm, Story
\* What one keeper cannot see of another, a lost request and an old token disturb the
\* session.
<1>24. ASSUME NEW k \in Keeper, LoseRefresh(k) \/ LoseSignOut(k) PROVE FALSE
  BY <1>24 DEF LoseRefresh, LoseSignOut
<1>28. ~Expire
  BY DEF Expire
<1>25. ASSUME NEW p \in Page, LoseSignIn(p) \/ ProviderGivesUp(p) PROVE FALSE
  BY <1>25 DEF LoseSignIn, ProviderGivesUp
<1>26. ASSUME NEW p \in Page, ModuleRefused(p) PROVE FALSE
  <2>1. ~disturbed /\ Calm /\ flight[Module(p)].at = "refused"
    BY <1>26 DEF Inv, ModuleRefused
  <2>2. Refreshing(p)
    BY <2>1, Focus, Shapes DEF Calm
  <2>. QED
    BY <2>1, <2>2 DEF Refreshing
<1>27. ASSUME NEW p \in Page, ProviderRefreshed(p) \/ ProviderTimer(p) PROVE FALSE
  <2>1. CASE ProviderTimer(p)
    BY <2>1 DEF ProviderTimer, Inv, Calm, PagesAgree
  <2>2. CASE ProviderRefreshed(p)
    <3>1. ~disturbed /\ Calm /\ flight[Provider(p)].at = "ok"
      BY <2>2 DEF ProviderRefreshed, Inv
    <3>. QED
      BY <3>1, Focus, Shapes DEF Calm
  <2>. QED
    BY <1>27, <2>1, <2>2
<1>. QED
  BY <1>1, <1>2, <1>3, <1>4, <1>5, <1>6, <1>7, <1>9, <1>10, <1>11, <1>12, <1>13, <1>14, <1>15, <1>17, <1>19, <1>20, <1>21, <1>22, <1>23, <1>24, <1>25, <1>26, <1>27, <1>28
  DEF Next, ServerStep, Lost, ModuleStep, ProviderStep, Timers, SignInStep, CallStep, UserStep

-----------------------------------------------------------------------------
LEMMA InvInit == Init => Inv
<1>1. Init => TypeOK
  <2>1. 0 \in 0..MaxToken /\ 0 \in 0..MaxFaults /\ 0 \in 0..MaxReloads
    BY SessionAssumption
  <2>2. ASSUME Init
        PROVE  /\ flight \in [Keeper -> Refreshes] /\ exit \in [Keeper -> Requests]
               /\ sign \in [Page -> Requests] /\ call \in [Page -> Calls]
    <3>1. cookie \in 0..MaxToken
      BY <2>1, <2>2 DEF Init
    <3>. QED
      BY <2>2, <3>1, Records DEF Init
  <2>3. ASSUME Init
        PROVE  /\ cookie \in 0..MaxToken /\ stored \in {"none", "fresh", "stale"}
               /\ live \subseteq 1..minted /\ minted \in 0..MaxToken
               /\ faults \in 0..MaxFaults /\ reloads \in 0..MaxReloads
    BY <2>1, <2>3 DEF Init
  <2>4. ASSUME Init
        PROVE  /\ waits \in [Page -> SUBSET {"keeper", "call"}] /\ timer \in [Keeper -> BOOLEAN]
               /\ view \in [Page -> {"auth", "app"}] /\ banner \in [Page -> BOOLEAN] /\ disturbed \in BOOLEAN
    BY <2>4 DEF Init
  <2>. QED
    BY <2>2, <2>3, <2>4 DEF TypeOK
<1>2. ASSUME Init PROVE Calm
  <2>1. \A p \in Page : ~timer[Provider(p)] /\ ~banner[p] /\ view[p] # "app" /\ ~call[p].saves
    BY <1>2, Shapes, Ats DEF Init
  <2>2. Resting
    BY <1>2 DEF Init, Resting, None, SignedIn
  <2>. QED
    BY <1>2, <2>1, <2>2 DEF Init, Calm, Story, PagesAgree, SignedIn
<1>. QED
  BY <1>1, <1>2 DEF Inv

LEMMA Invariant == Spec => []Inv
<1>1. Inv /\ [Next]_vars => Inv'
  BY TypeStep, CalmStep DEF Inv
<1>. QED
  BY <1>1, InvInit, PTL DEF Spec

\* TypeOK, for every set of pages and every bound.
THEOREM TypeCorrect == Spec => []TypeOK
<1>1. Inv => TypeOK
  BY DEF Inv
<1>. QED
  BY <1>1, Invariant, PTL

\* SessionKept, for every set of pages: a session whose requests do not overlap is
\* never declared expired, and every page in the application has its token.
THEOREM SessionIsKept == Spec => []SessionKept
<1>1. Inv => SessionKept
  BY DEF Inv, Calm, PagesAgree, SessionKept
<1>. QED
  BY <1>1, Invariant, PTL

\* NoTokenLeft, for every set of pages: such a session leaves no refresh token
\* behind, neither while it lasts nor once it is over.
THEOREM NoTokenIsLeft == Spec => []NoTokenLeft
<1>1. Inv => NoTokenLeft
  BY Focus DEF Inv, Calm, NoTokenLeft, Resting
<1>. QED
  BY <1>1, Invariant, PTL

-----------------------------------------------------------------------------
\* Nobody waits for nothing: a call that waits for a refresh is on the list of
\* those the module's refresh will be answered to, that list is never left behind
\* by a refresh that is over, and every request under way is one that its answer
\* or its loss can end.
NobodyForgotten ==
    /\ \A p \in Page : /\ call[p].at = "refreshing" <=> "call" \in waits[p]
                       /\ waits[p] # {} <=> flight[Module(p)] # NoFlight
    /\ \A k \in Keeper : flight[k].at # "no" <=> flight[k] # NoFlight

LEMMA ForgottenInit == Init => NobodyForgotten
<1> SUFFICES ASSUME Init PROVE NobodyForgotten
  OBVIOUS
<1>1. Idle.at = "idle" /\ NoFlight.at = "no"
  BY DEF Idle, NoFlight, Without
<1>2. QED
  BY <1>1, Shapes DEF Init, NobodyForgotten

LEMMA NobodyForgottenStep == TypeOK /\ NobodyForgotten /\ [Next]_vars => NobodyForgotten'
<1> SUFFICES ASSUME TypeOK, NobodyForgotten, [Next]_vars PROVE NobodyForgotten'
  OBVIOUS
<1>0. /\ flight \in [Keeper -> Refreshes] /\ waits \in [Page -> SUBSET {"keeper", "call"}]
      /\ call \in [Page -> Calls]
  BY DEF TypeOK
<1>1. /\ NoFlight.at = "no" /\ Sent.at = "sent" /\ Idle.at = "idle"
      /\ \A a \in {"no cookie", "refused", "failed"} : Without(a).at = a
      /\ \A f \in Refreshes : [f EXCEPT !.at = "read"].at = "read"
      /\ \A t : [at |-> "ok", token |-> t].at = "ok"
      /\ \A g, w : [at |-> "sent", good |-> g, saves |-> w].at = "sent"
      /\ \A c \in Calls : /\ [c EXCEPT !.at = "again", !.good = TRUE].at = "again"
                          /\ [c EXCEPT !.at = "refreshing"].at = "refreshing"
  BY DEF NoFlight, Sent, Idle, Without, Refreshes, Calls
\* Steps of a request under way leave it under way.
<1>2. ASSUME NEW k \in Keeper, NEW f, flight[k].at # "no", f.at # "no",
             flight' = [flight EXCEPT ![k] = f], UNCHANGED <<call, waits>>
      PROVE  NobodyForgotten'
  <2>1. flight'[k] = f /\ \A j \in Keeper \ {k} : flight'[j] = flight[j]
    BY <1>0, <1>2
  <2>2. flight[k] # NoFlight /\ f # NoFlight
    BY <1>1, <1>2
  <2>3. \A j \in Keeper : /\ (flight[j].at # "no" <=> flight[j] # NoFlight)'
                          /\ (flight[j] # NoFlight)' <=> flight[j] # NoFlight
    BY <1>2, <2>1, <2>2 DEF NobodyForgotten
  <2>4. QED
    BY <1>2, <2>3, Shapes DEF NobodyForgotten
<1>3. ASSUME NEW k \in Keeper,
             ReadToken(k) \/ AnswerRefresh(k) \/ LimitRefresh(k) \/ LoseRefresh(k)
      PROVE  NobodyForgotten'
  <2>1. CASE ReadToken(k)
    <3> DEFINE f == IF flight[k].token = 0 THEN Without("no cookie")
                    ELSE IF flight[k].token \in live THEN [flight[k] EXCEPT !.at = "read"]
                    ELSE Without("refused")
    <3>1. f.at # "no" /\ flight[k].at # "no"
      BY <1>0, <1>1, <2>1 DEF ReadToken
    <3>2. flight' = [flight EXCEPT ![k] = f] /\ UNCHANGED <<call, waits>>
      BY <2>1 DEF ReadToken
    <3> HIDE DEF f
    <3>3. QED
      BY <1>2, <3>1, <3>2
  <2>2. CASE AnswerRefresh(k)
    <3>1. /\ flight' = [flight EXCEPT ![k] = [at |-> "ok", token |-> minted + 1]]
          /\ flight[k].at # "no" /\ UNCHANGED <<call, waits>>
      BY <2>2 DEF AnswerRefresh
    <3>2. [at |-> "ok", token |-> minted + 1].at # "no"
      BY <1>1
    <3>3. QED
      BY <1>2, <3>1, <3>2
  <2>3. CASE LimitRefresh(k) \/ LoseRefresh(k)
    <3>1. /\ flight' = [flight EXCEPT ![k] = Without("failed")]
          /\ flight[k].at # "no" /\ UNCHANGED <<call, waits>>
      BY <2>3 DEF LimitRefresh, LoseRefresh
    <3>2. Without("failed").at # "no"
      BY <1>1
    <3>3. QED
      BY <1>2, <3>1, <3>2
  <2>4. QED
    BY <1>3, <2>1, <2>2, <2>3
\* The end of the module's refresh is told to the call that waits.
<1>4. ASSUME NEW p \in Page, NEW c, c.at # "refreshing",
             call' = [call EXCEPT ![p] = IF "call" \in waits[p] THEN c ELSE call[p]],
             flight' = [flight EXCEPT ![Module(p)] = NoFlight],
             waits' = [waits EXCEPT ![p] = {}]
      PROVE  NobodyForgotten'
  <2>1. /\ (call[p].at)' # "refreshing" /\ waits'[p] = {}
        /\ \A q \in Page \ {p} : call'[q] = call[q] /\ waits'[q] = waits[q]
    BY <1>0, <1>4 DEF NobodyForgotten
  <2>2. /\ flight'[Module(p)] = NoFlight
        /\ \A j \in Keeper \ {Module(p)} : flight'[j] = flight[j]
    BY <1>0, <1>4, Shapes
  <2>3. ASSUME NEW j \in Keeper PROVE (flight[j].at # "no" <=> flight[j] # NoFlight)'
    BY Ats, <2>2 DEF NobodyForgotten
  <2>4. QED
    BY <2>1, <2>2, <2>3, Shapes DEF NobodyForgotten
<1>5. ASSUME NEW p \in Page, ModuleRefreshed(p) \/ ModuleRefused(p) \/ ModuleUnanswered(p)
      PROVE  NobodyForgotten'
  <2>1. CASE ModuleRefreshed(p)
    <3>1. [call[p] EXCEPT !.at = "again", !.good = TRUE].at # "refreshing"
      BY <1>0, <1>1
    <3>2. QED
      BY <1>4, <2>1, <3>1 DEF ModuleRefreshed
  <2>2. CASE ModuleRefused(p) \/ ModuleUnanswered(p)
    BY <1>1, <1>4, <2>2 DEF ModuleRefused, ModuleUnanswered
  <2>3. QED
    BY <1>5, <2>1, <2>2
\* A refresh is joined or sent, and whoever asked for it is listed.
<1>a. ASSUME NEW p \in Page, NEW who \in {"keeper", "call"}, TryRefresh(p, who)
      PROVE  /\ waits'[p] = waits[p] \cup {who}
             /\ \A q \in Page \ {p} : waits'[q] = waits[q]
             /\ flight'[Module(p)] # NoFlight
             /\ \A j \in Keeper \ {Module(p)} : flight'[j] = flight[j]
             /\ \A j \in Keeper : (flight[j].at # "no" <=> flight[j] # NoFlight)'
  <2>1. /\ waits'[p] = waits[p] \cup {who}
        /\ \A q \in Page \ {p} : waits'[q] = waits[q]
    BY <1>0, <1>a DEF TryRefresh
  <2>2. CASE flight[Module(p)] # NoFlight
    BY <1>a, <2>1, <2>2 DEF TryRefresh, NobodyForgotten
  <2>3. CASE flight[Module(p)] = NoFlight
    <3>1. flight' = [flight EXCEPT ![Module(p)] = Sent]
      BY <1>a, <2>3 DEF TryRefresh
    <3>2. flight'[Module(p)] = Sent /\ \A j \in Keeper \ {Module(p)} : flight'[j] = flight[j]
      BY <1>0, <3>1, Shapes
    <3>3. Sent # NoFlight
      BY <1>1
    <3>4. ASSUME NEW j \in Keeper PROVE (flight[j].at # "no" <=> flight[j] # NoFlight)'
      BY Ats, <3>2, <3>3 DEF NobodyForgotten
    <3>5. QED
      BY <2>1, <3>2, <3>3, <3>4
  <2>4. QED
    BY <2>2, <2>3
<1>6. ASSUME NEW p \in Page, ModuleTimer(p) PROVE NobodyForgotten'
  <2>1. call' = call /\ TryRefresh(p, "keeper")
    BY <1>6 DEF ModuleTimer
  <2>2. QED
    BY <1>a, <2>1, Shapes DEF NobodyForgotten
<1>7. ASSUME NEW p \in Page, CallUnauthorized(p) PROVE NobodyForgotten'
  <2>1. /\ (call[p].at)' = "refreshing"
        /\ \A q \in Page \ {p} : call'[q] = call[q]
    BY <1>0, <1>1, <1>7 DEF CallUnauthorized
  <2>2. TryRefresh(p, "call")
    BY <1>7 DEF CallUnauthorized
  <2>3. QED
    BY <1>a, <2>1, <2>2, Shapes DEF NobodyForgotten
\* The refreshes of AuthProvider are nobody else's.
<1>8. ASSUME NEW p \in Page, NEW f, f.at # "no" <=> f # NoFlight,
             flight' = [flight EXCEPT ![Provider(p)] = f], UNCHANGED <<call, waits>>
      PROVE  NobodyForgotten'
  BY <1>0, <1>8, Shapes DEF NobodyForgotten
<1>9. ASSUME NEW p \in Page, ProviderTimer(p) \/ ProviderRefreshed(p) \/ ProviderGivesUp(p)
      PROVE  NobodyForgotten'
  <2>1. Sent # NoFlight
    BY <1>1
  <2>2. CASE ProviderTimer(p)
    <3>1. flight' = [flight EXCEPT ![Provider(p)] = Sent] /\ UNCHANGED <<call, waits>>
      BY <2>2 DEF ProviderTimer
    <3>2. QED
      BY <1>1, <1>8, <2>1, <3>1
  <2>3. CASE ProviderRefreshed(p) \/ ProviderGivesUp(p)
    <3>1. flight' = [flight EXCEPT ![Provider(p)] = NoFlight] /\ UNCHANGED <<call, waits>>
      BY <2>3 DEF ProviderRefreshed, ProviderGivesUp
    <3>2. QED
      BY <1>1, <1>8, <3>1
  <2>4. QED
    BY <1>9, <2>2, <2>3
\* Calls that do not wait.
<1>10. ASSUME NEW p \in Page, NEW c, call[p].at # "refreshing", c.at # "refreshing",
              call' = [call EXCEPT ![p] = c], UNCHANGED <<flight, waits>>
       PROVE  NobodyForgotten'
  BY <1>0, <1>10 DEF NobodyForgotten
<1>11. ASSUME NEW p \in Page, CallAPI(p) \/ CallAnswered(p) \/ CallLost(p)
       PROVE  NobodyForgotten'
  <2>1. CASE CallAPI(p)
    <3>1. PICK saves \in BOOLEAN :
            call' = [call EXCEPT ![p] = [at |-> "sent", good |-> stored = "fresh", saves |-> saves]]
      BY <2>1 DEF CallAPI
    <3>2. call[p].at # "refreshing" /\ UNCHANGED <<flight, waits>>
      BY <1>1, <2>1 DEF CallAPI
    <3>3. [at |-> "sent", good |-> stored = "fresh", saves |-> saves].at # "refreshing"
      OBVIOUS
    <3>4. QED
      BY <1>10, <3>1, <3>2, <3>3
  <2>2. CASE CallAnswered(p) \/ CallLost(p)
    <3>1. /\ call[p].at # "refreshing" /\ call' = [call EXCEPT ![p] = Idle]
          /\ UNCHANGED <<flight, waits>>
      BY <2>2 DEF CallAnswered, CallLost
    <3>2. Idle.at # "refreshing"
      BY <1>1
    <3>3. QED
      BY <1>10, <3>1, <3>2
  <2>3. QED
    BY <1>11, <2>1, <2>2
<1>12. ASSUME NEW p \in Page, Reload(p) PROVE NobodyForgotten'
  <2>1. /\ (call[p].at)' # "refreshing" /\ "call" \notin waits'[p]
        /\ \A q \in Page \ {p} : call'[q] = call[q] /\ waits'[q] = waits[q]
    BY <1>0, <1>1, <1>12 DEF Reload
  <2>2. \A k \in Keeper \ {Module(p), Provider(p)} : flight'[k] = flight[k]
    BY <1>0, <1>12 DEF Reload
  <2>3. /\ waits'[p] = (IF SignedIn THEN {"keeper"} ELSE {})
        /\ flight'[Module(p)] = (IF SignedIn THEN Sent ELSE NoFlight)
        /\ flight'[Provider(p)] = (IF SignedIn THEN Sent ELSE NoFlight)
    BY <1>0, <1>12, Shapes DEF Reload
  <2>4. Sent # NoFlight
    BY <1>1
  <2>5. /\ (waits[p] # {} <=> flight[Module(p)] # NoFlight)'
        /\ \A k \in {Module(p), Provider(p)} : (flight[k].at # "no" <=> flight[k] # NoFlight)'
    <3>1. CASE SignedIn
      <4>1. flight'[Module(p)] = Sent /\ flight'[Provider(p)] = Sent /\ waits'[p] # {}
        BY <2>3, <3>1
      <4>2. QED
        BY <4>1, <2>4, Ats
    <3>2. CASE ~SignedIn
      <4>1. flight'[Module(p)] = NoFlight /\ flight'[Provider(p)] = NoFlight /\ waits'[p] = {}
        BY <2>3, <3>2
      <4>2. QED
        BY <4>1, Ats
    <3>3. QED
      BY <3>1, <3>2
  <2>6. \A k \in Keeper : (flight[k].at # "no" <=> flight[k] # NoFlight)'
    BY <2>2, <2>5 DEF NobodyForgotten
  <2>7. ASSUME NEW q \in Page \ {p}
        PROVE  (/\ call[q].at = "refreshing" <=> "call" \in waits[q]
                /\ waits[q] # {} <=> flight[Module(q)] # NoFlight)'
    <3>1. Module(q) \in Keeper \ {Module(p), Provider(p)}
      BY Shapes
    <3>2. QED
      BY <2>1, <2>2, <3>1 DEF NobodyForgotten
  <2>8. QED
    BY <2>1, <2>5, <2>6, <2>7 DEF NobodyForgotten
\* Nothing else concerns calls, refreshes or who waits for them.
<1>13. ASSUME UNCHANGED <<call, waits, flight>> PROVE NobodyForgotten'
  BY <1>13 DEF NobodyForgotten
<1>14. ASSUME NEW k \in Keeper, AnswerSignOut(k) \/ LoseSignOut(k) \/ SignedOut(k)
       PROVE  NobodyForgotten'
  BY <1>13, <1>14 DEF AnswerSignOut, LoseSignOut, SignedOut
<1>15. ASSUME NEW p \in Page, SignInStep(p) \/ LoseSignIn(p) \/ SignOut(p) \/ SubmitSignIn(p)
       PROVE  NobodyForgotten'
  BY <1>13, <1>15 DEF SignInStep, AnswerSignIn, SignInDone, SignInFailed, LoseSignIn, SignOut, SubmitSignIn
<1>16. CASE Age \/ Expire \/ UNCHANGED vars
  BY <1>13, <1>16 DEF Age, Expire, vars
<1>17. QED
  BY <1>3, <1>5, <1>6, <1>7, <1>9, <1>11, <1>12, <1>14, <1>15, <1>16
  DEF Next, ServerStep, Lost, ModuleStep, ProviderStep, Timers, CallStep, UserStep

\* No call waits for a refresh that is over or was never sent, and no refresh ends
\* unheard, for every set of pages and however refreshes are joined, answered,
\* refused, lost or cut off by a reload: the safety half of CallsEnd.
THEOREM CallersRemembered == Spec => []NobodyForgotten
  BY ForgottenInit, NobodyForgottenStep, TypeCorrect, PTL DEF Spec

-----------------------------------------------------------------------------
\* The two screens.  What the request of the console and that of the guest ask for
\* is something the screens offered,...
ServerTypes ==
    /\ accounts \in SUBSET User /\ org \in SUBSET User /\ spaces \in SUBSET Space
    /\ members \in [Space -> SUBSET User]
    /\ invites \in [Invite -> {"none", "open", "used"}]
    /\ library \in BOOLEAN

ConsoleInv ==
    /\ tab \in Tab /\ selected \in Space \cup {"none"} /\ form \in BOOLEAN
    /\ selected # "none" => ~form
    /\ lists \in [users : SUBSET User, spaces : SUBSET Space, invites : SUBSET Invite]
    /\ loads \subseteq {"lists", "shelf"} /\ shelf \in BOOLEAN
    /\ link \in Invite \cup {0}
    /\ op \in {NoOp} \cup [kind : Kind, space : Space, user : User, invite : Invite,
                           at : {"sent", "link", "ok", "failed"}]

\* ...the loads of members under way are all of the workspace shown, unless others
\* crossed them,...
TableInv ==
    /\ loading \in BOOLEAN /\ crossed \in BOOLEAN
    /\ rows \in [of : Space \cup {"none"}, users : SUBSET User]
    /\ rowLoads \subseteq [at : {"sent", "read"}, of : Space, users : SUBSET User]
    /\ ~crossed /\ selected # "none" => /\ \A l \in rowLoads : l.of = selected
                                        /\ ~loading => rows.of = selected

\* ...and the guest waits for one answer: that of the one lookup, or of the submission.
OneAnswer ==
    /\ waiting <=> lookups # {} \/ signUp # NoSignUp
    /\ lookups = {} \/ signUp = NoSignUp
    /\ \A l, m \in lookups : l = m

GuestInv ==
    /\ mode \in {"login", "create-org", "invite"}
    /\ token \in Invite \cup {0} /\ preview \in Invite \cup {0} /\ waiting \in BOOLEAN
    /\ lookups \subseteq [at : {"sent", "found", "failed"}, of : Invite]
    /\ signUp \in {NoSignUp} \cup [kind : {"login", "create-org", "invite"},
                                  invite : Invite \cup {0}, at : {"sent", "ok", "failed"}]
    /\ signUp.kind = "invite" => signUp.invite # 0
    /\ OneAnswer
    /\ FormTruthful

ScreensInv == ServerTypes /\ ConsoleInv /\ TableInv /\ GuestInv

LEMMA ScreensInit == AccountInit => ScreensInv
<1> SUFFICES ASSUME AccountInit PROVE ScreensInv
  OBVIOUS
<1>1. ServerTypes
  BY DEF AccountInit, ServerTypes, User, Space, Invite
<1>2. ConsoleInv
  BY DEF AccountInit, ConsoleInv, User, Space, Invite, Tab, NoOp
<1>3. TableInv
  BY <1>1 DEF AccountInit, TableInv, ServerTypes, NoRows, User, Space
<1>4. GuestInv
  BY DEF AccountInit, GuestInv, OneAnswer, FormTruthful, NoSignUp, Invite
<1>. QED
  BY <1>1, <1>2, <1>3, <1>4 DEF ScreensInv

\* The handlers keep the types of the organisation, whoever calls them.
LEMMA HandlersTyped ==
    ASSUME ServerTypes, NEW s \in Space, NEW u \in User, NEW i \in Invite
    PROVE  /\ CreateSpace(s) \/ AddMember(s, u) \/ RemoveMember(s, u) \/ ChangeRole(s, u) => ServerTypes'
           /\ RemoveUser(u) \/ CreateInvite(i) \/ RevokeInvite(i) \/ Register(i) => ServerTypes'
<1>1. CreateSpace(s) => ServerTypes'
  BY DEF ServerTypes, CreateSpace, User
<1>2. AddMember(s, u) \/ RemoveMember(s, u) => ServerTypes'
  BY DEF ServerTypes, AddMember, RemoveMember
<1>3. ChangeRole(s, u) => ServerTypes'
  BY DEF ServerTypes, ChangeRole, server
<1>4. RemoveUser(u) => ServerTypes'
  BY DEF ServerTypes, RemoveUser
<1>5. CreateInvite(i) \/ RevokeInvite(i) => ServerTypes'
  BY DEF ServerTypes, CreateInvite, RevokeInvite
<1>6. Register(i) => ServerTypes'
  BY DEF ServerTypes, Register, User, Space
<1>. QED
  BY <1>1, <1>2, <1>3, <1>4, <1>5, <1>6

LEMMA PerformTyped ==
    ASSUME ServerTypes, ConsoleInv, op.at = "sent", Perform(op)
    PROVE  ServerTypes'
<1>1. op \in [kind : Kind, space : Space, user : User, invite : Invite,
              at : {"sent", "link", "ok", "failed"}]
  BY DEF ConsoleInv, NoOp
<1>2. op.space \in Space /\ op.user \in User /\ op.invite \in Invite
  BY <1>1
<1>3. SetLibrary(TRUE) \/ SetLibrary(FALSE) => ServerTypes'
  BY DEF SetLibrary, ServerTypes
<1>4. \/ CreateSpace(op.space) \/ ChangeRole(op.space, op.user) \/ RemoveMember(op.space, op.user)
      \/ AddMember(op.space, op.user) \/ RemoveUser(op.user) \/ CreateInvite(op.invite)
      \/ RevokeInvite(op.invite) \/ SetLibrary(TRUE) \/ SetLibrary(FALSE)
  BY <1>1 DEF Perform, Kind
<1>. QED
  BY <1>2, <1>3, <1>4, HandlersTyped

\* What a step leaves alone keeps its part of the invariant.
LEMMA ScreensFrame ==
    /\ ServerTypes /\ UNCHANGED server => ServerTypes'
    /\ ConsoleInv /\ UNCHANGED <<frame, admin, op, link>> => ConsoleInv'
    /\ TableInv /\ UNCHANGED <<table, selected>> => TableInv'
    /\ GuestInv /\ UNCHANGED guest => GuestInv'
<1>1. ServerTypes /\ UNCHANGED server => ServerTypes'
  BY DEF ServerTypes, server
<1>2. ConsoleInv /\ UNCHANGED <<frame, admin, op, link>> => ConsoleInv'
  BY DEF ConsoleInv, frame, admin
<1>3. TableInv /\ UNCHANGED <<table, selected>> => TableInv'
  BY DEF TableInv, table
<1>4. GuestInv /\ UNCHANGED guest => GuestInv'
  BY DEF GuestInv, OneAnswer, FormTruthful, guest
<1>. QED
  BY <1>1, <1>2, <1>3, <1>4

\* A load of the workspace that is selected from now on, or one that crosses.
LEMMA LoadKeepsTable ==
    ASSUME TableInv, NEW s \in Space, LoadMembers(s, selected')
    PROVE  TableInv'
<1>1. rowLoads' \subseteq [at : {"sent", "read"}, of : Space, users : SUBSET User]
  BY DEF TableInv, LoadMembers
<1>2. loading' = TRUE /\ crossed' \in BOOLEAN /\ rows' = rows
  BY DEF LoadMembers
<1>3. ~crossed' => s = selected' /\ \A l \in rowLoads' : l.of = s
  BY DEF LoadMembers
<1>. QED
  BY <1>1, <1>2, <1>3 DEF TableInv

\* An admin who goes nowhere, or leaves the workspace, disturbs no row.
LEMMA LeavingKeepsTable ==
    ASSUME TableInv, UNCHANGED table, selected' \in {selected, "none"}
    PROVE  TableInv'
  BY DEF TableInv, table

LEMMA ConsoleSteps ==
    ASSUME ScreensInv, Console
    PROVE  ScreensInv'
<1>. USE ScreensFrame DEF ScreensInv
<1>1. ASSUME NEW t \in Tab, OpenTab(t) PROVE ScreensInv'
  <2>1. ConsoleInv'
    BY <1>1 DEF OpenTab, ConsoleInv, LoadRag, Tab
  <2>2. TableInv'
    BY <1>1, LeavingKeepsTable DEF OpenTab
  <2>. QED
    BY <1>1, <2>1, <2>2 DEF OpenTab
<1>2. ASSUME NEW s \in Space, OpenWorkspace(s) PROVE ScreensInv'
  <2>1. ConsoleInv'
    BY <1>2 DEF OpenWorkspace, ConsoleInv, admin
  <2>2. TableInv'
    BY <1>2, LoadKeepsTable DEF OpenWorkspace
  <2>. QED
    BY <1>2, <2>1, <2>2 DEF OpenWorkspace
<1>3. CASE CloseWorkspace
  <2>1. ConsoleInv'
    BY <1>3 DEF CloseWorkspace, ConsoleInv, admin
  <2>2. TableInv'
    BY <1>3, LeavingKeepsTable DEF CloseWorkspace
  <2>. QED
    BY <1>3, <2>1, <2>2 DEF CloseWorkspace
<1>4. ASSUME NEW k \in Kind, Write(k) PROVE ScreensInv'
  <2>1. op' \in [kind : Kind, space : Space, user : User, invite : Invite, at : {"sent"}]
    BY <1>4 DEF Write
  <2>2. ConsoleInv'
    BY <1>4, <2>1 DEF Write, ConsoleInv, frame, admin
  <2>. QED
    BY <1>4, <2>2 DEF Write, frame
<1>. QED
  BY <1>1, <1>2, <1>3, <1>4 DEF Console

LEMMA AnswerSteps ==
    ASSUME ScreensInv, Answers
    PROVE  ScreensInv'
<1>. USE ScreensFrame DEF ScreensInv
<1>1. CASE ListsAnswered
  <2>1. lists' \in [users : SUBSET User, spaces : SUBSET Space, invites : SUBSET Invite]
    BY <1>1 DEF ListsAnswered, ConsoleInv, ServerTypes
  <2>2. ConsoleInv'
    BY <1>1, <2>1 DEF ListsAnswered, ConsoleInv, frame
  <2>. QED
    BY <1>1, <2>2 DEF ListsAnswered, frame
<1>2. CASE ShelfAnswered
  <2>1. ConsoleInv'
    BY <1>2 DEF ShelfAnswered, ConsoleInv, ServerTypes, frame
  <2>. QED
    BY <1>2, <2>1 DEF ShelfAnswered, frame
<1>3. CASE ServeRows
  <2>1. PICK l \in rowLoads :
          rowLoads' = (rowLoads \ {l})
                \cup {[at |-> "read", of |-> l.of, users |-> members[l.of]]}
    BY <1>3 DEF ServeRows
  <2>2. l.of \in Space /\ members[l.of] \in SUBSET User
    BY DEF TableInv, ServerTypes
  <2>3. TableInv'
    BY <1>3, <2>1, <2>2 DEF ServeRows, TableInv, frame
  <2>. QED
    BY <1>3, <2>3 DEF ServeRows
<1>4. CASE RowsAnswered
  <2>1. PICK l \in rowLoads : /\ rowLoads' = rowLoads \ {l}
                              /\ rows'.of = l.of
                              /\ rows' \in {[of |-> l.of, users |-> l.users],
                                            [of |-> l.of, users |-> {}]}
    BY <1>4 DEF RowsAnswered
  <2>2. l \in [at : {"sent", "read"}, of : Space, users : SUBSET User]
    BY DEF TableInv
  <2>3. rows' \in [of : Space \cup {"none"}, users : SUBSET User]
    BY <2>1, <2>2
  <2>4. TableInv'
    BY <1>4, <2>1, <2>3 DEF RowsAnswered, TableInv, frame
  <2>. QED
    BY <1>4, <2>4 DEF RowsAnswered
<1>5. CASE ServeWrite
  <2>1. op \in [kind : Kind, space : Space, user : User, invite : Invite,
                at : {"sent", "link", "ok", "failed"}]
    BY <1>5 DEF ServeWrite, ConsoleInv, NoOp
  <2>2. ServerTypes'
    BY <1>5, PerformTyped DEF ServeWrite
  <2>3. op' \in [kind : Kind, space : Space, user : User, invite : Invite,
                 at : {"sent", "link", "ok", "failed"}]
    BY <1>5, <2>1 DEF ServeWrite
  <2>4. ConsoleInv'
    BY <1>5, <2>3 DEF ServeWrite, ConsoleInv, frame, admin
  <2>. QED
    BY <1>5, <2>2, <2>4 DEF ServeWrite, frame
<1>6. CASE Created
  <2>1. op.space \in Space
    BY <1>6 DEF Created, ConsoleInv, NoOp
  <2>2. ConsoleInv'
    BY <1>6, <2>1 DEF Created, ConsoleInv, LoadAdmin
  <2>3. TableInv'
    BY <1>6, <2>1, LoadKeepsTable DEF Created
  <2>. QED
    BY <1>6, <2>2, <2>3 DEF Created
<1>7. CASE MembersChanged
  <2>1. op.space \in Space
    BY <1>7 DEF MembersChanged, ConsoleInv, NoOp
  <2>2. ConsoleInv'
    BY <1>7 DEF MembersChanged, ConsoleInv, LoadAdmin, frame
  <2>3. TableInv'
    BY <1>7, <2>1, LoadKeepsTable DEF MembersChanged, frame
  <2>. QED
    BY <1>7, <2>2, <2>3 DEF MembersChanged
<1>8. CASE WriteFailed \/ UserRemoved \/ InviteRevoked \/ LinkAnswered \/ ShelfChanged
  <2>1. ConsoleInv'
    <3>1. CASE WriteFailed
      BY <3>1 DEF WriteFailed, ConsoleInv, frame, admin
    <3>2. CASE UserRemoved
      BY <3>2 DEF UserRemoved, ConsoleInv, LoadAdmin, frame
    <3>3. CASE InviteRevoked
      BY <3>3 DEF InviteRevoked, ConsoleInv, frame
    <3>4. CASE LinkAnswered
      <4>1. op.invite \in Invite
        BY <3>4 DEF LinkAnswered, ConsoleInv, NoOp
      <4>. QED
        BY <3>4, <4>1 DEF LinkAnswered, ConsoleInv, LoadAdmin, frame, admin
    <3>5. CASE ShelfChanged
      BY <3>5 DEF ShelfChanged, ConsoleInv, LoadRag, frame
    <3>. QED
      BY <1>8, <3>1, <3>2, <3>3, <3>4, <3>5
  <2>2. UNCHANGED <<server, table, selected, guest>>
    BY <1>8 DEF WriteFailed, UserRemoved, InviteRevoked, LinkAnswered, ShelfChanged, frame
  <2>. QED
    BY <2>1, <2>2
<1>. QED
  BY <1>1, <1>2, <1>3, <1>4, <1>5, <1>6, <1>7, <1>8 DEF Answers

LEMMA GuestSteps ==
    ASSUME ScreensInv, Guest
    PROVE  ScreensInv'
<1>. USE ScreensFrame DEF ScreensInv
<1>1. ASSUME NEW m \in {"login", "create-org", "invite"}, SwitchMode(m) PROVE ScreensInv'
  <2>1. GuestInv'
    BY <1>1 DEF SwitchMode, GuestInv, OneAnswer, FormTruthful
  <2>. QED
    BY <1>1, <2>1 DEF SwitchMode, frame
<1>2. ASSUME NEW i \in Invite, TypeToken(i) PROVE ScreensInv'
  <2>1. GuestInv'
    BY <1>2 DEF TypeToken, GuestInv, OneAnswer, FormTruthful
  <2>. QED
    BY <1>2, <2>1 DEF TypeToken, frame
<1>3. CASE LookUp
  <2>1. lookups = {} /\ signUp = NoSignUp /\ token \in Invite
    BY <1>3 DEF LookUp, GuestInv, OneAnswer
  <2>2. \E l \in [at : {"sent", "found", "failed"}, of : Invite] : lookups' = {l}
    BY <1>3, <2>1 DEF LookUp, Asked
  <2>3. GuestInv'
    BY <1>3, <2>1, <2>2 DEF LookUp, GuestInv, OneAnswer, FormTruthful
  <2>. QED
    BY <1>3, <2>3 DEF LookUp, frame
<1>4. CASE FollowLink
  <2>1. \E l \in [at : {"sent", "found", "failed"}, of : Invite] : lookups' = {l}
    BY <1>4 DEF FollowLink, Asked
  <2>2. GuestInv'
    BY <1>4, <2>1 DEF FollowLink, GuestInv, OneAnswer, FormTruthful
  <2>. QED
    BY <1>4, <2>2 DEF FollowLink, frame
<1>5. CASE ServeLookup
  <2>1. PICK l \in lookups :
          lookups' = (lookups \ {l})
                \cup {[l EXCEPT !.at = IF invites[l.of] = "open" THEN "found" ELSE "failed"]}
    BY <1>5 DEF ServeLookup
  <2>2. [l EXCEPT !.at = IF invites[l.of] = "open" THEN "found" ELSE "failed"]
           \in [at : {"sent", "found", "failed"}, of : Invite]
    BY DEF GuestInv
  <2>3. lookups = {l}
    BY DEF GuestInv, OneAnswer
  <2>4. GuestInv'
    BY <1>5, <2>1, <2>2, <2>3 DEF ServeLookup, GuestInv, OneAnswer, FormTruthful
  <2>. QED
    BY <1>5, <2>4 DEF ServeLookup, frame
<1>6. CASE LookupAnswered
  <2>1. PICK l \in lookups : /\ lookups' = lookups \ {l}
                             /\ IF l.at = "found" THEN token' = l.of /\ preview' = l.of
                                ELSE UNCHANGED <<token, preview>>
    BY <1>6 DEF LookupAnswered
  <2>2. lookups' = {} /\ signUp = NoSignUp /\ l.of \in Invite
    BY <2>1 DEF GuestInv, OneAnswer
  <2>3. GuestInv'
    BY <1>6, <2>1, <2>2 DEF LookupAnswered, GuestInv, OneAnswer, FormTruthful, NoSignUp
  <2>. QED
    BY <1>6, <2>3 DEF LookupAnswered, frame
<1>7. CASE Submit
  <2>1. signUp' \in [kind : {"login", "create-org", "invite"}, invite : Invite \cup {0},
                     at : {"sent", "ok", "failed"}]
    BY <1>7 DEF Submit, GuestInv
  <2>2. GuestInv'
    BY <1>7, <2>1 DEF Submit, GuestInv, OneAnswer, FormTruthful, NoSignUp
  <2>. QED
    BY <1>7, <2>2 DEF Submit, frame
<1>8. CASE ServeSignUp
  <2>1. signUp \in [kind : {"login", "create-org", "invite"}, invite : Invite \cup {0},
                    at : {"sent", "ok", "failed"}]
    BY <1>8 DEF ServeSignUp, GuestInv, NoSignUp
  <2>2. ServerTypes'
    <3>1. CASE signUp.kind = "invite" /\ Register(signUp.invite)
      BY <3>1, <2>1, HandlersTyped DEF GuestInv, Space, User
    <3>2. CASE /\ accounts' = accounts \cup {"guest"}
               /\ UNCHANGED <<org, spaces, members, invites, library>>
      BY <3>2 DEF ServerTypes, User
    <3>3. SignUpAccepted => ServerTypes'
      BY <3>1, <3>2 DEF SignUpAccepted, ServerTypes, server
    <3>. QED
      BY <1>8, <3>3 DEF ServeSignUp, ServerTypes, server
  <2>3. \E at \in {"ok", "failed"} : signUp' = [signUp EXCEPT !.at = at]
    BY <1>8 DEF ServeSignUp
  <2>4. GuestInv'
    BY <1>8, <2>1, <2>3 DEF ServeSignUp, GuestInv, OneAnswer, FormTruthful, NoSignUp
  <2>. QED
    BY <1>8, <2>2, <2>4 DEF ServeSignUp, frame
<1>9. CASE SignUpAnswered
  <2>1. lookups = {} /\ lookups' = {} /\ signUp' = NoSignUp /\ waiting' = FALSE
    BY <1>9 DEF SignUpAnswered, GuestInv, OneAnswer, NoSignUp
  <2>2. \/ UNCHANGED <<mode, token, preview>>
        \/ mode' = "login" /\ token' = 0 /\ preview' = 0
    BY <1>9 DEF SignUpAnswered
  <2>3. OneAnswer' /\ FormTruthful' /\ signUp'.kind # "invite"
    BY <2>1, <2>2 DEF GuestInv, OneAnswer, FormTruthful, NoSignUp
  <2>4. GuestInv'
    BY <2>1, <2>2, <2>3 DEF GuestInv
  <2>. QED
    BY <1>9, <2>4 DEF SignUpAnswered, frame
<1>. QED
  BY <1>1, <1>2, <1>3, <1>4, <1>5, <1>6, <1>7, <1>8, <1>9 DEF Guest

LEMMA ColleagueStep ==
    ASSUME ScreensInv, Colleague
    PROVE  ScreensInv'
<1>1. ServerTypes'
  BY HandlersTyped DEF Colleague, ScreensInv
<1>. QED
  BY <1>1, ScreensFrame DEF Colleague, ScreensInv, frame

\* ScreensInv is inductive.
LEMMA ScreensInvariant == AccountSpec => []ScreensInv
<1>1. ScreensInv /\ [AccountNext]_accountVars => ScreensInv'
  BY ConsoleSteps, AnswerSteps, GuestSteps, ColleagueStep, ScreensFrame
     DEF AccountNext, accountVars, ScreensInv, frame
<1>. QED
  BY <1>1, ScreensInit, PTL DEF AccountSpec

\* Both screens and the organisation keep their types, for any number of acts and of
\* loads under way.
THEOREM ScreensTyped == AccountSpec => []AccountTypeOK
<1>1. ScreensInv => AccountTypeOK
  BY DEF ScreensInv, AccountTypeOK, ServerTypes, ConsoleInv, TableInv, GuestInv, NoOp, NoSignUp
<1>. QED
  BY <1>1, ScreensInvariant, PTL

\* However many loads of members are under way, the members that loadWorkspaceMembers
\* lists under a workspace are its own, unless loads of different workspaces crossed.
THEOREM RowsAlwaysMatch == AccountSpec => []RowsMatch
<1>1. ScreensInv => RowsMatch
  BY DEF ScreensInv, TableInv, RowsMatch
<1>. QED
  BY <1>1, ScreensInvariant, PTL

\* However late lookupInvite is answered, the form uses the invite it shows.
THEOREM FormAlwaysTruthful == AccountSpec => []FormTruthful
<1>1. ScreensInv => FormTruthful
  BY DEF ScreensInv, GuestInv
<1>. QED
  BY <1>1, ScreensInvariant, PTL
=============================================================================

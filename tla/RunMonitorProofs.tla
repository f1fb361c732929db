--------------------------- MODULE RunMonitorProofs ---------------------------
(***************************************************************************)
(* What the page shows of its runs, for any number of uploads and however  *)
(* long the user goes on: proofs about RunMonitor.                         *)
(***************************************************************************)
EXTENDS RunMonitor, TLAPS

\* End e is one that run r has reached.
Fits(e, r) == e \in reached[r]

\* A run is there once its upload has been served, and the page knows of no other.
Served ==
    /\ \A u \in Run : /\ up[u].at \in {"no", "contract", "version"} => run[u] = "none"
                      /\ up[u].at = "run" => run[u] # "none"
    /\ processing \in Run => run[processing] # "none"
    /\ saved \in Run => run[saved] # "none"
    /\ watch # "off" => processing \in Run
    /\ recovery.at = "found" => recovery.run \in Run /\ run[recovery.run] # "none"
    /\ \A r \in Run : stray[r].at # "off" => run[r] # "none"
    /\ \A k \in Asking : ask[k].at = "ok" => ask[k].run \in Run /\ run[ask[k].run] # "none"

\* The polls and requests of the processing screen go with it.
OnScreen ==
    /\ screen # "processing" => shown = "nothing" /\ watch = "off"
    /\ \A r \in Run : stray[r].mounted => screen = "processing"
    /\ \A k \in Asking : ask[k].mounted => screen = "processing"

\* What a poll or a request carries back was true of its run.
Carried ==
    /\ \A r \in Run : run[r] \in Ends => Fits(run[r], r)
    /\ watch \in Ends => Fits(watch, processing)
    /\ \A r \in Run : stray[r].at \in Ends => Fits(stray[r].at, r)
    /\ ask["cancel"].at = "ok" => Fits("cancelled", ask["cancel"].run)

Recovering == recovery.at # "no" => processing = 0

Stored == saved # 0 => processing \in {saved, Pending}

\* Unless an upload was answered elsewhere, the screen's polls and requests are
\* about the run it follows, and so is the end that it shows.
Followed ==
    /\ shown \in Ends => \E r \in Run : Fits(shown, r)
    /\ "upload" \notin astray =>
        /\ \A r \in Run : stray[r].mounted => r = processing
        /\ \A k \in Asking : ask[k].mounted /\ ask[k].run \in Run => ask[k].run = processing
        /\ shown \in Ends => processing \in Run /\ Fits(shown, processing)

Addressed ==
    /\ screen = address.screen \/ (screen = "dashboard" /\ "session" \in astray)
    /\ screen \in {"contract_detail", "verdict"} =>
          \/ chosen = address.id
          \/ "upload" \in astray /\ \E u \in Run : up[u].at = "answered" /\ chosen = ContractOf(u)

Inv == TypeOK /\ Served /\ OnScreen /\ Carried /\ Recovering /\ Stored /\ Followed /\ Addressed

-----------------------------------------------------------------------------
(***************************************************************************)
(* Types.                                                                  *)
(***************************************************************************)
LEMMA Numbers ==
    /\ Run \subseteq 0..MaxUploads /\ 0..MaxUploads \subseteq 0..Pending /\ 0 \in 0..MaxUploads
    /\ Pending \in 0..Pending /\ Pending \notin Run /\ Pending # 0 /\ 0 \notin Run
    /\ Run \subseteq Contract /\ 0 \in Contract
BY MonitorAssumption DEF Run, Contract, Pending

LEMMA Records ==
    /\ Rest \in Recoveries /\ Due \in Recoveries /\ NoAsk \in AskStates /\ Off \in StrayStates
    /\ \A r \in 0..MaxUploads : [at |-> "found", run |-> r] \in Recoveries /\ [at |-> "none", run |-> r] \in Recoveries
    /\ \A r \in Recoveries : r.run \in 0..MaxUploads
    /\ \A a \in AskStates : /\ a.run \in 0..Pending /\ a.mounted \in BOOLEAN
                            /\ [a EXCEPT !.mounted = FALSE] \in AskStates
                            /\ [a EXCEPT !.at = "ok"] \in AskStates
                            /\ [a EXCEPT !.at = "refused"] \in AskStates
    /\ \A r \in 0..Pending : [at |-> "sent", run |-> r, mounted |-> TRUE] \in AskStates
    /\ \A t \in StrayStates : /\ t.mounted \in BOOLEAN
                              /\ [t EXCEPT !.mounted = FALSE] \in StrayStates
                              /\ \A a \in {"off", "due", "leaving"} \cup Status :
                                    [t EXCEPT !.at = a] \in StrayStates
    /\ \A a \in {"off", "due", "leaving"} \cup Status, b \in BOOLEAN : [at |-> a, mounted |-> b] \in StrayStates
    /\ \A x \in UploadStates : /\ x.contract \in Contract
                               /\ \A a \in {"version", "run", "answered", "failed", "no"} : [x EXCEPT !.at = a] \in UploadStates
    /\ \A a \in {"contract", "version"}, c \in Contract : [at |-> a, contract |-> c] \in UploadStates
<1>1. /\ Rest \in Recoveries /\ Due \in Recoveries
      /\ \A r \in 0..MaxUploads : [at |-> "found", run |-> r] \in Recoveries /\ [at |-> "none", run |-> r] \in Recoveries
      /\ \A r \in Recoveries : r.run \in 0..MaxUploads
  BY Numbers DEF Recoveries, Rest, Due
<1>2. /\ NoAsk \in AskStates
      /\ \A r \in 0..Pending : [at |-> "sent", run |-> r, mounted |-> TRUE] \in AskStates
  BY Numbers DEF AskStates, NoAsk
<1>3. ASSUME NEW a \in AskStates
      PROVE  /\ a.run \in 0..Pending /\ a.mounted \in BOOLEAN
             /\ [a EXCEPT !.mounted = FALSE] \in AskStates
             /\ [a EXCEPT !.at = "ok"] \in AskStates
             /\ [a EXCEPT !.at = "refused"] \in AskStates
  BY DEF AskStates
<1>4. /\ Off \in StrayStates
      /\ \A a \in {"off", "due", "leaving"} \cup Status, b \in BOOLEAN : [at |-> a, mounted |-> b] \in StrayStates
  BY DEF StrayStates, Off
<1>5. ASSUME NEW t \in StrayStates
      PROVE  /\ t.mounted \in BOOLEAN
             /\ [t EXCEPT !.mounted = FALSE] \in StrayStates
             /\ \A a \in {"off", "due", "leaving"} \cup Status : [t EXCEPT !.at = a] \in StrayStates
  BY DEF StrayStates
<1>6. ASSUME NEW x \in UploadStates
      PROVE  /\ x.contract \in Contract
             /\ \A a \in {"version", "run", "answered", "failed", "no"} : [x EXCEPT !.at = a] \in UploadStates
  BY DEF UploadStates
<1>7. \A a \in {"contract", "version"}, c \in Contract : [at |-> a, contract |-> c] \in UploadStates
  BY DEF UploadStates
<1>. QED
  BY <1>1, <1>2, <1>3, <1>4, <1>5, <1>6, <1>7

\* The variables that a rendering sets.
Rendered ==
    /\ screen \in Screens /\ chosen \in Contract \cup {NoContract} /\ processing \in 0..Pending
    /\ saved \in 0..MaxUploads /\ error \in BOOLEAN /\ recovery \in Recoveries
    /\ watch \in {"off", "due", "leaving", "stopped"} \cup Status /\ shown \in {"nothing"} \cup Status
    /\ busy \subseteq Asking

LEMMA ShowTyped ==
    ASSUME TypeOK, NEW s \in Screens, NEW c \in Contract \cup {NoContract}, NEW p \in 0..Pending,
           NEW sv \in 0..MaxUploads, NEW e \in BOOLEAN, Show(s, c, p, sv, e)
    PROVE  Rendered'
<1>1. /\ screen' = s /\ chosen' = c /\ processing' \in {0, p} /\ error' = e /\ saved' \in {0, sv}
      /\ watch' \in {watch, "due", "off"} /\ recovery' \in {recovery, Due, Rest}
      /\ shown' \in {shown, "nothing"} /\ busy' \in {busy, {}}
  BY DEF Show
<1>2. /\ recovery \in Recoveries /\ watch \in {"off", "due", "leaving", "stopped"} \cup Status
      /\ shown \in {"nothing"} \cup Status /\ busy \subseteq Asking
  BY DEF TypeOK
<1>3. 0 \in 0..MaxUploads /\ 0 \in 0..Pending /\ Due \in Recoveries /\ Rest \in Recoveries
  BY Numbers, Records
<1>. QED
  BY <1>1, <1>2, <1>3 DEF Rendered

LEMMA UnmountTyped ==
    ASSUME TypeOK, NEW s, Unmount(s)
    PROVE  stray' \in [Run -> StrayStates] /\ ask' \in [Asking -> AskStates]
<1>1. CASE s = screen
  BY <1>1 DEF TypeOK, Unmount
<1>2. CASE s # screen
  <2>1. /\ stray' = [r \in Run |-> [stray[r] EXCEPT !.mounted = FALSE]]
        /\ ask' = [k \in Asking |-> [ask[k] EXCEPT !.mounted = FALSE]]
    BY <1>2 DEF Unmount
  <2>2. /\ \A r \in Run : [stray[r] EXCEPT !.mounted = FALSE] \in StrayStates
        /\ \A k \in Asking : [ask[k] EXCEPT !.mounted = FALSE] \in AskStates
    BY Records DEF TypeOK
  <2>. QED
    BY <2>1, <2>2
<1>. QED
  BY <1>1, <1>2

LEMMA GoTyped ==
    ASSUME TypeOK, NEW s \in Screens, NEW c \in Contract \cup {NoContract}, Go(s, c)
    PROVE  Rendered' /\ address' \in [screen : Screens, id : Contract \cup {NoContract}]
           /\ astray' \subseteq {"upload", "session"}
<1>1. Rendered'
  BY ShowTyped DEF Go, TypeOK
<1>2. At(s, c) \in [screen : Screens, id : Contract \cup {NoContract}]
  BY DEF At
<1>. QED
  BY <1>1, <1>2 DEF Go, Lasts, TypeOK

\* What the server commits of a run is kept of it for ever.
LEMMA Committed ==
    ASSUME TypeOK, NEW r \in Run, NEW s \in Status, Becomes(r, s)
    PROVE  /\ run' \in [Run -> Status \cup {"none"}] /\ reached' \in [Run -> SUBSET Ends]
           /\ run'[r] = s /\ (s \in Ends => s \in reached'[r])
           /\ \A q \in Run : /\ q # r => run'[q] = run[q] /\ reached'[q] = reached[q]
                             /\ reached[q] \subseteq reached'[q]
BY DEF TypeOK, Becomes

LEMMA Serving ==
    ASSUME NEW r \in Run, ServerStep(r)
    PROVE  run[r] # "none" /\ \E s \in Status : Becomes(r, s)
BY DEF ServerStep, Work, OpenReview, Decide, CancelElsewhere, RetryElsewhere, Overwrite, Status

LEMMA TypeStep == TypeOK /\ Served /\ [Next]_vars => TypeOK'
<1> SUFFICES ASSUME TypeOK, Served, [Next]_vars PROVE TypeOK'
  OBVIOUS
<1>0. /\ screen \in Screens /\ chosen \in Contract \cup {NoContract} /\ processing \in 0..Pending
      /\ saved \in 0..MaxUploads /\ error \in BOOLEAN /\ astray \subseteq {"upload", "session"} /\ turns \in 0..MaxTurns
      /\ address \in [screen : Screens, id : Contract \cup {NoContract}]
  BY DEF TypeOK
<1>a. {"dashboard", "new_contract", "contract_detail", "processing", "verdict"} = Screens
  BY DEF Screens
<1>b. Created \subseteq Contract
  BY Numbers DEF Created
<1>c. \A u \in Run : ContractOf(u) \in Contract
  BY Records DEF ContractOf, TypeOK
<1>1. CASE Navigate
  <2>1. PICK s \in Screens, c \in Contract \cup {NoContract} : Go(s, c) /\ Unmount(s)
    BY <1>1, <1>0, <1>a, <1>b DEF Navigate
  <2>. QED
    BY <1>1, <2>1, GoTyped, UnmountTyped DEF Navigate, TypeOK, Rendered, server
<1>2. CASE PopState
  <2>1. PICK e \in {Home, At("new_contract", NoContract), At("processing", NoContract)}
                   \cup {At("contract_detail", c) : c \in Created} :
          /\ address' = e /\ astray' = Lasts(e.screen)
          /\ Show(e.screen, e.id, processing, saved, error) /\ Unmount(e.screen)
    BY <1>2 DEF PopState
  <2>2. e.screen \in Screens /\ e.id \in Contract \cup {NoContract}
        /\ e \in [screen : Screens, id : Contract \cup {NoContract}]
    BY <1>a, <1>b DEF At, Home
  <2>3. Rendered'
    BY <1>0, <2>1, <2>2, ShowTyped
  <2>4. stray' \in [Run -> StrayStates] /\ ask' \in [Asking -> AskStates]
    BY <2>1, UnmountTyped
  <2>. QED
    BY <1>2, <1>0, <2>1, <2>2, <2>3, <2>4 DEF PopState, TypeOK, Rendered, Lasts, server
<1>3. CASE Reload
  <2>1. /\ screen' = address.screen /\ chosen' = address.id /\ processing' \in {0, saved}
        /\ saved' \in {0, saved} /\ error' = FALSE /\ watch' \in {"due", "off"} /\ recovery' \in {Due, Rest}
        /\ shown' = "nothing" /\ busy' = {} /\ astray' = {} /\ UNCHANGED <<run, reached, address>>
    BY <1>3 DEF Reload
  <2>2. Rendered'
    BY <1>0, <2>1, Numbers, Records DEF Rendered
  <2>3. stray' \in [Run -> StrayStates] /\ ask' \in [Asking -> AskStates]
    BY <1>3, Records DEF Reload
  <2>4. up' \in [Run -> UploadStates]
    BY <1>3, Records DEF Reload, Dropped, TypeOK
  <2>5. turns' \in 0..MaxTurns
    BY <1>3, <1>0, MonitorAssumption DEF Reload
  <2>. QED
    BY <2>1, <2>2, <2>3, <2>4, <2>5 DEF TypeOK, Rendered
<1>4. ASSUME NEW u \in Run, NEW stage \in {"contract", "version"}, NEW c \in Contract, StartUpload(u, stage, c)
      PROVE  TypeOK'
  <2>1. Rendered'
    BY <1>4, <1>a, Numbers, <1>0, ShowTyped DEF StartUpload
  <2>2. stray' \in [Run -> StrayStates] /\ ask' \in [Asking -> AskStates]
    BY <1>4, UnmountTyped DEF StartUpload
  <2>3. up' \in [Run -> UploadStates] /\ address' \in [screen : Screens, id : Contract \cup {NoContract}]
    BY <1>4, <1>a, Records DEF StartUpload, TypeOK, At
  <2>. QED
    BY <1>4, <2>1, <2>2, <2>3 DEF StartUpload, TypeOK, Rendered
<1>5. ASSUME NEW u \in Run, Uploads(u) PROVE TypeOK'
  <2>1. CASE AddVersion(u)
    BY <1>0, <1>4, <2>1 DEF AddVersion
  <2>2. CASE SubmitContract(u)
    BY <1>4, <2>2, Numbers DEF SubmitContract
  <2>. QED
    BY <1>5, <2>1, <2>2 DEF Uploads
<1>6. ASSUME NEW u \in Run, ServeUpload(u) PROVE TypeOK'
  <2>1. /\ up' \in [Run -> UploadStates] /\ run' \in [Run -> Status \cup {"none"}]
        /\ reached' \in [Run -> SUBSET Ends]
    <3>1. CASE up' = [up EXCEPT ![u].at = "version"] /\ UNCHANGED <<run, reached>>
      BY <3>1, Records DEF TypeOK
    <3>2. CASE up' = [up EXCEPT ![u].at = "run"] /\ Becomes(u, "processing")
      <4>1. up' \in [Run -> UploadStates]
        BY <3>2, Records DEF TypeOK
      <4>. QED
        BY <3>2, <4>1, Committed DEF Status
    <3>. QED
      BY <1>6, <3>1, <3>2 DEF ServeUpload
  <2>. QED
    BY <1>6, <2>1 DEF ServeUpload, TypeOK, page
<1>7. ASSUME NEW u \in Run, UploadAnswered(u) PROVE TypeOK'
  <2>1. Rendered'
    BY <1>7, <1>0, <1>c, Numbers, ShowTyped DEF UploadAnswered
  <2>2. up' \in [Run -> UploadStates]
    BY <1>7, Records DEF UploadAnswered, TypeOK
  <2>. QED
    BY <1>7, <2>1, <2>2 DEF UploadAnswered, TypeOK, Rendered
<1>8. ASSUME NEW u \in Run, UploadFailed(u) PROVE TypeOK'
  <2>1. Rendered'
    BY <1>8, <1>0, ShowTyped DEF UploadFailed
  <2>2. up' \in [Run -> UploadStates]
    BY <1>8, Records DEF UploadFailed, Dropped, TypeOK
  <2>. QED
    BY <1>8, <2>1, <2>2 DEF UploadFailed, TypeOK, Rendered
<1>9. ASSUME NEW r \in Run, ServerStep(r) PROVE TypeOK'
  <2>1. run' \in [Run -> Status \cup {"none"}] /\ reached' \in [Run -> SUBSET Ends]
    BY <1>9, Serving, Committed
  <2>2. turns' \in 0..MaxTurns
    BY <1>9, MonitorAssumption DEF ServerStep, TypeOK
  <2>. QED
    BY <1>9, <2>1, <2>2 DEF ServerStep, TypeOK, page
<1>10. CASE FindActive
  <2>1. recovery' \in Recoveries
    BY <1>10, Records, Numbers DEF FindActive
  <2>. QED
    BY <1>10, <2>1 DEF FindActive, TypeOK, server
<1>11. CASE Recovered
  <2>1. recovery.run \in 0..MaxUploads
    BY Records DEF TypeOK
  <2>2. Rendered'
    BY <1>11, <1>0, <2>1, Numbers, ShowTyped DEF Recovered
  <2>. QED
    BY <1>11, <2>2 DEF Recovered, TypeOK, Rendered, server
<1>12. CASE NothingToRecover
  <2>1. Go("dashboard", NoContract) /\ Unmount("dashboard") /\ UNCHANGED <<server, turns>>
    BY <1>12 DEF NothingToRecover, server
  <2>. QED
    BY <2>1, <1>a, GoTyped, UnmountTyped DEF TypeOK, Rendered, server
<1>13. CASE WatchAsks
  <2>1. watch' \in {"off", "due", "leaving", "stopped"} \cup Status
    BY <1>13 DEF WatchAsks, TypeOK, Served
  <2>. QED
    BY <1>13, <2>1 DEF WatchAsks, TypeOK, server
<1>14. CASE WatchAnswered
  BY <1>14 DEF WatchAnswered, TypeOK, server
<1>15. CASE WatchLeaves
  <2>1. /\ Go("contract_detail", ContractOf(processing)) /\ Unmount("contract_detail")
        /\ UNCHANGED <<server, turns>>
    BY <1>15 DEF WatchLeaves, server
  <2>2. ContractOf(processing) \in Contract
    BY <1>15, <1>c DEF WatchLeaves, Served
  <2>. QED
    BY <2>1, <2>2, <1>a, GoTyped, UnmountTyped DEF TypeOK, Rendered, server
<1>16. ASSUME NEW k \in Asking, Asks(k) PROVE TypeOK'
  <2>1. ask' \in [Asking -> AskStates] /\ busy' \subseteq Asking
    BY <1>16, <1>0, Records DEF Asks, TypeOK
  <2>2. turns' \in 0..MaxTurns
    BY <1>16, <1>0, MonitorAssumption DEF Asks
  <2>. QED
    BY <1>16, <2>1, <2>2 DEF Asks, TypeOK, server
<1>17. ASSUME NEW k \in Asking, ServeAsk(k) PROVE TypeOK'
  <2>1. ask' \in [Asking -> AskStates]
    <3>1. ask' = [ask EXCEPT ![k].at = "ok"] \/ ask' = [ask EXCEPT ![k].at = "refused"]
      BY <1>17 DEF ServeAsk
    <3>2. [ask[k] EXCEPT !.at = "ok"] \in AskStates /\ [ask[k] EXCEPT !.at = "refused"] \in AskStates
      BY Records DEF TypeOK
    <3>. QED
      BY <3>1, <3>2 DEF TypeOK
  <2>2. run' \in [Run -> Status \cup {"none"}] /\ reached' \in [Run -> SUBSET Ends]
    <3>1. UNCHANGED <<run, reached>> \/ \E r \in Run, s \in Status : Becomes(r, s)
      BY <1>17 DEF ServeAsk, Status
    <3>. QED
      BY <3>1, Committed DEF TypeOK
  <2>. QED
    BY <1>17, <2>1, <2>2 DEF ServeAsk, TypeOK, page
<1>18. CASE RetryAnswered
  <2>1. ask' \in [Asking -> AskStates] /\ stray' \in [Run -> StrayStates]
    BY <1>18, Records DEF RetryAnswered, TypeOK, Asking
  <2>. QED
    BY <1>18, <2>1 DEF RetryAnswered, TypeOK, server
<1>19. CASE CancelAnswered
  <2>1. ask' \in [Asking -> AskStates] /\ shown' \in {"nothing"} \cup Status
    BY <1>19, Records DEF CancelAnswered, TypeOK, Asking, Status
  <2>. QED
    BY <1>19, <2>1 DEF CancelAnswered, TypeOK, server
<1>20. ASSUME NEW k \in Asking, AskRefused(k) PROVE TypeOK'
  <2>1. ask' \in [Asking -> AskStates]
    BY <1>20, Records DEF AskRefused, TypeOK
  <2>. QED
    BY <1>20, <2>1 DEF AskRefused, TypeOK, server
<1>21. ASSUME NEW r \in Run, StrayAsks(r) PROVE TypeOK'
  <2>1. run[r] \in Status
    BY <1>21 DEF StrayAsks, Served, TypeOK
  <2>2. stray' \in [Run -> StrayStates]
    BY <1>21, <2>1, Records DEF StrayAsks, TypeOK
  <2>. QED
    BY <1>21, <2>2 DEF StrayAsks, TypeOK, server, page
<1>22. ASSUME NEW r \in Run, StrayAnswered(r) PROVE TypeOK'
  <2>1. stray' \in [Run -> StrayStates]
    BY <1>22, Records DEF StrayAnswered, TypeOK
  <2>. QED
    BY <1>22, <2>1 DEF StrayAnswered, TypeOK, server
<1>23. ASSUME NEW r \in Run, StrayLeaves(r) PROVE TypeOK'
  <2>1. Go("contract_detail", ContractOf(r)) /\ UNCHANGED <<server, turns>>
    BY <1>23 DEF StrayLeaves, server
  <2>2. stray' \in [Run -> StrayStates] /\ ask' \in [Asking -> AskStates]
    <3>1. CASE screen = "contract_detail"
      <4>1. stray' = [stray EXCEPT ![r].at = "off"] /\ ask' = ask
        BY <1>23, <3>1 DEF StrayLeaves
      <4>2. [stray[r] EXCEPT !.at = "off"] \in StrayStates
        BY Records DEF TypeOK
      <4>. QED
        BY <4>1, <4>2 DEF TypeOK
    <3>2. CASE screen # "contract_detail"
      <4>1. /\ stray' = [q \in Run |-> [at |-> IF q = r THEN "off" ELSE stray[q].at, mounted |-> FALSE]]
            /\ ask' = [k \in Asking |-> [ask[k] EXCEPT !.mounted = FALSE]]
        BY <1>23, <3>2 DEF StrayLeaves
      <4>2. \A q \in Run : stray[q].at \in {"off", "due", "leaving"} \cup Status
        BY DEF TypeOK, StrayStates
      <4>3. \A q \in Run : [at |-> IF q = r THEN "off" ELSE stray[q].at, mounted |-> FALSE] \in StrayStates
        BY <4>2, Records
      <4>4. \A k \in Asking : [ask[k] EXCEPT !.mounted = FALSE] \in AskStates
        BY Records DEF TypeOK
      <4>. QED
        BY <4>1, <4>3, <4>4
    <3>. QED
      BY <3>1, <3>2
  <2>. QED
    BY <2>1, <2>2, <1>a, <1>c, GoTyped DEF TypeOK, Rendered, server
<1>24. CASE UNCHANGED vars
  BY <1>24 DEF vars, TypeOK
<1>25. CASE ExpireSession
  <2>1. Rendered'
    BY <1>25, <1>0, <1>a, ShowTyped DEF ExpireSession
  <2>2. stray' \in [Run -> StrayStates] /\ ask' \in [Asking -> AskStates]
    BY <1>25, UnmountTyped DEF ExpireSession
  <2>3. turns' \in 0..MaxTurns
    BY <1>25, <1>0, MonitorAssumption DEF ExpireSession
  <2>. QED
    BY <1>25, <2>1, <2>2, <2>3 DEF ExpireSession, TypeOK, Rendered, server
<1>26. CASE SignOut
  <2>1. stray' \in [Run -> StrayStates] /\ ask' \in [Asking -> AskStates]
    BY <1>26, Records DEF SignOut, TypeOK
  <2>2. turns' \in 0..MaxTurns
    BY <1>26, <1>0, MonitorAssumption DEF SignOut
  <2>. QED
    BY <1>26, <2>1, <2>2 DEF SignOut, TypeOK, server
<1>. QED
  BY <1>1, <1>2, <1>3, <1>5, <1>6, <1>7, <1>8, <1>9, <1>10, <1>11, <1>12, <1>13, <1>14, <1>15, <1>16, <1>17, <1>18, <1>19, <1>20, <1>21, <1>22, <1>23, <1>24, <1>25, <1>26
  DEF Next, User, Watch, Recovery, Stray, Answers, Retry, Cancel, Asking
-----------------------------------------------------------------------------
(***************************************************************************)
(* Renderings.                                                             *)
(***************************************************************************)
\* What a rendering of screen s leaves of the polls and requests: those of the
\* processing screen are forgotten with it.
Quietened(s) ==
    /\ \A r \in Run : /\ stray'[r].at \in {stray[r].at, "off"}
                      /\ stray'[r].mounted => stray[r].mounted /\ s = screen
    /\ \A k \in Asking : /\ ask'[k].at = ask[k].at /\ ask'[k].run = ask[k].run
                         /\ ask'[k].mounted => ask[k].mounted /\ s = screen

LEMMA UnmountQuietens ==
    ASSUME TypeOK, NEW s, Unmount(s)
    PROVE  Quietened(s)
<1>1. CASE s = screen
  BY <1>1 DEF Unmount, Quietened
<1>2. CASE s # screen
  <2>1. /\ stray' = [r \in Run |-> [stray[r] EXCEPT !.mounted = FALSE]]
        /\ ask' = [k \in Asking |-> [ask[k] EXCEPT !.mounted = FALSE]]
    BY <1>2 DEF Unmount
  <2>2. /\ \A r \in Run : stray[r] \in StrayStates
        /\ \A k \in Asking : ask[k] \in AskStates
    BY DEF TypeOK
  <2>3. /\ \A r \in Run : stray'[r].at = stray[r].at /\ ~stray'[r].mounted
        /\ \A k \in Asking : ask'[k].at = ask[k].at /\ ask'[k].run = ask[k].run /\ ~ask'[k].mounted
    BY <2>1, <2>2 DEF StrayStates, AskStates
  <2>. QED
    BY <2>3 DEF Quietened
<1>. QED
  BY <1>1, <1>2

\* A rendering keeps the invariant, provided that the run it shows exists and that
\* an undisturbed page changes its run only with its screen or from no run.
LEMMA Rendering ==
    ASSUME Inv, NEW s, NEW c, NEW p, NEW sv, NEW e, Show(s, c, p, sv, e), Quietened(s), UNCHANGED <<run, reached>>,
           p \in Run => run[p] # "none",
           sv \in Run => run[sv] # "none",
           sv # 0 => p \in {sv, Pending},
           "upload" \notin astray' =>
              \/ s # screen
              \/ screen # "processing"
              \/ "upload" \notin astray /\ (p = processing \/ processing \notin Run),
           \A u \in Run : /\ up'[u].at \in {"no", "contract", "version"} => run[u] = "none"
                          /\ up'[u].at = "run" => run[u] # "none"
    PROVE  Served' /\ OnScreen' /\ Carried' /\ Recovering' /\ Stored' /\ Followed'
<1>1. /\ screen' = s
      /\ processing' = IF Leaves(s) THEN 0 ELSE p
      /\ saved' = IF Leaves(s) THEN 0 ELSE sv
      /\ \/ watch' = watch /\ s = screen /\ processing' = processing
         \/ watch' = "off"
         \/ watch' = "due" /\ s = "processing" /\ processing' \in Run
      /\ \/ recovery' = recovery /\ s = screen /\ processing' = processing
         \/ recovery' = Rest
         \/ recovery' = Due /\ processing' = 0
      /\ shown' = IF s # screen THEN "nothing" ELSE shown
  BY Numbers DEF Show
<1>2. Rest.at = "no" /\ Due.at = "due"
  BY DEF Rest, Due
<1>3. 0 \notin Run
  BY Numbers
<1>4. Served'
  BY <1>1, <1>2, <1>3 DEF Inv, Served, Quietened
<1>5. OnScreen'
  BY <1>1 DEF Inv, OnScreen, Quietened
<1>6. Carried'
  <2>1. watch' \in Ends => Fits(watch, processing)'
    BY <1>1 DEF Inv, Carried, Fits, Ends
  <2>2. \A r \in Run : stray'[r].at \in Ends => Fits(stray[r].at, r)'
    BY DEF Inv, Carried, Quietened, Fits, Ends
  <2>3. ask'["cancel"].at = "ok" => Fits("cancelled", ask["cancel"].run)'
    BY DEF Inv, Carried, Quietened, Asking, Fits
  <2>4. \A r \in Run : run'[r] \in Ends => Fits(run[r], r)'
    BY DEF Inv, Carried, Fits
  <2>. QED
    BY <2>1, <2>2, <2>3, <2>4 DEF Carried
<1>7. Recovering'
  BY <1>1, <1>2 DEF Inv, Recovering
<1>8. Stored'
  BY <1>1 DEF Stored
<1>9. shown' \in Ends => \E r \in Run : Fits(shown, r)'
  BY <1>1 DEF Inv, Followed, Fits, Ends
<1>10. ASSUME "upload" \notin astray' PROVE Followed'
  <2>1. CASE s # screen
    BY <1>1, <2>1 DEF Followed, Quietened, Ends
  <2>2. CASE s = screen /\ screen # "processing"
    BY <1>1, <2>2 DEF Inv, OnScreen, Followed, Quietened, Ends
  <2>3. CASE s = screen /\ screen = "processing" /\ "upload" \notin astray /\ processing' = processing
    BY <1>1, <1>9, <2>3 DEF Inv, Followed, Quietened, Fits
  <2>4. CASE s = screen /\ screen = "processing" /\ "upload" \notin astray /\ processing \notin Run
    BY <1>1, <1>9, <2>4 DEF Inv, Followed, Quietened
  <2>. QED
    BY <1>1, <1>10, <2>1, <2>2, <2>3, <2>4 DEF Leaves
<1>. QED
  BY <1>4, <1>5, <1>6, <1>7, <1>8, <1>9, <1>10 DEF Followed

\* navigate to a screen that the page has.
LEMMA Going ==
    ASSUME Inv, NEW s, NEW c, Go(s, c), Quietened(s), UNCHANGED <<run, reached, up>>
    PROVE  Served' /\ OnScreen' /\ Carried' /\ Recovering' /\ Stored' /\ Followed' /\ Addressed'
<1>1. /\ Show(s, c, processing, saved, error) /\ astray' = Lasts(s) /\ address' = At(s, c)
      /\ screen' = s /\ chosen' = c
  BY DEF Go, Show
<1>2. saved # 0 => processing \in {saved, Pending}
  BY DEF Inv, Stored
<1>3. Served' /\ OnScreen' /\ Carried' /\ Recovering' /\ Stored' /\ Followed'
  BY <1>1, <1>2, Rendering DEF Inv, Served, Lasts
<1>. QED
  BY <1>1, <1>3 DEF Addressed, At

-----------------------------------------------------------------------------
(***************************************************************************)
(* Steps that render no other screen.                                      *)
(***************************************************************************)
\* What a run has reached is kept, and it is there for good.
Onward(r) == /\ reached[r] \subseteq reached'[r]
             /\ run[r] # "none" => run'[r] # "none"
             /\ run'[r] \in Ends => run'[r] \in reached'[r]

LEMMA Moving ==
    ASSUME Inv, UNCHANGED <<page, address, stray, astray>>, \A r \in Run : Onward(r),
           \A k \in Asking : /\ ask'[k].run = ask[k].run /\ ask'[k].mounted = ask[k].mounted
                             /\ ask'[k].at = "ok" =>
                                  \/ ask[k].at = "ok"
                                  \/ /\ ask[k].run \in Run /\ run'[ask[k].run] # "none"
                                     /\ k = "cancel" => "cancelled" \in reached'[ask[k].run],
           \A u \in Run : /\ up'[u].at \in {"no", "contract", "version"} => run'[u] = "none"
                          /\ up'[u].at = "run" => run'[u] # "none"
                          /\ up[u].at = "answered" => up'[u] = up[u]
    PROVE  Served' /\ OnScreen' /\ Carried' /\ Recovering' /\ Stored' /\ Followed' /\ Addressed'
<1>1. UNCHANGED <<screen, chosen, processing, saved, error, recovery, watch, shown, busy, address, stray, astray>>
  BY DEF page
<1>2. \A r \in Run : run[r] # "none" => run'[r] # "none"
  BY DEF Onward
<1>3. \A r \in Run, e \in Ends : Fits(e, r) => Fits(e, r)'
  BY DEF Onward, Fits
<1>4. Served'
  BY <1>1, <1>2 DEF Inv, Served
<1>5. OnScreen'
  BY <1>1 DEF Inv, OnScreen
<1>6. Carried'
  <2>1. watch' \in Ends => Fits(watch, processing)'
    <3>1. watch \in Ends => processing \in Run
      BY DEF Inv, Served, Ends
    <3>. QED
      BY <1>1, <1>3, <3>1 DEF Inv, Carried
  <2>2. \A r \in Run : stray'[r].at \in Ends => Fits(stray[r].at, r)'
    BY <1>1, <1>3 DEF Inv, Carried
  <2>3. ask'["cancel"].at = "ok" => Fits("cancelled", ask["cancel"].run)'
    <3>1. ask["cancel"].at = "ok" => ask["cancel"].run \in Run /\ Fits("cancelled", ask["cancel"].run)
      BY DEF Inv, Carried, Served, Asking
    <3>2. "cancelled" \in Ends /\ "cancel" \in Asking
      BY DEF Ends, Asking
    <3>. QED
      BY <1>3, <3>1, <3>2 DEF Fits
  <2>4. \A r \in Run : run'[r] \in Ends => Fits(run[r], r)'
    BY DEF Onward, Fits
  <2>. QED
    BY <2>1, <2>2, <2>3, <2>4 DEF Carried
<1>7. Recovering' /\ Stored'
  BY <1>1 DEF Inv, Recovering, Stored
<1>8. Followed'
  <2>1. processing \in Run \/ shown \notin Ends \/ "upload" \in astray
    BY DEF Inv, Followed
  <2>. QED
    BY <1>1, <1>3, <2>1 DEF Inv, Followed
<1>9. Addressed'
  BY <1>1 DEF Inv, Addressed, ContractOf
<1>. QED
  BY <1>4, <1>5, <1>6, <1>7, <1>8, <1>9

LEMMA ServerMoves ==
    ASSUME Inv,
           \/ \E r \in Run : ServeUpload(r) \/ ServerStep(r)
           \/ \E k \in Asking : ServeAsk(k)
    PROVE  Served' /\ OnScreen' /\ Carried' /\ Recovering' /\ Stored' /\ Followed' /\ Addressed'
<1>0. /\ run \in [Run -> Status \cup {"none"}] /\ up \in [Run -> UploadStates]
      /\ ask \in [Asking -> AskStates]
      /\ \A u \in Run : /\ up[u].at \in {"no", "contract", "version"} => run[u] = "none"
                        /\ up[u].at = "run" => run[u] # "none"
  BY DEF Inv, TypeOK, Served
<1>1. ASSUME NEW u \in Run, ServeUpload(u)
      PROVE  Served' /\ OnScreen' /\ Carried' /\ Recovering' /\ Stored' /\ Followed' /\ Addressed'
  <2>1. UNCHANGED <<page, address, ask, stray, astray>>
    BY <1>1 DEF ServeUpload
  <2>2. CASE UNCHANGED <<run, reached>> /\ up[u].at = "contract" /\ up' = [up EXCEPT ![u].at = "version"]
    <3>1. \A v \in Run : Onward(v)
      BY <2>2 DEF Inv, Carried, Fits, Onward
    <3>2. \A v \in Run : /\ up'[v].at \in {"no", "contract", "version"} => run'[v] = "none"
                         /\ up'[v].at = "run" => run'[v] # "none"
                         /\ up[v].at = "answered" => up'[v] = up[v]
      BY <1>0, <2>2 DEF UploadStates
    <3>. QED
      BY <2>1, <3>1, <3>2, Moving
  <2>3. CASE Becomes(u, "processing") /\ up[u].at = "version" /\ up' = [up EXCEPT ![u].at = "run"]
    <3>0. /\ run'[u] = "processing" /\ reached[u] \subseteq reached'[u] /\ "processing" \notin Ends
          /\ \A q \in Run : q # u => run'[q] = run[q] /\ reached'[q] = reached[q]
      BY <2>3, Committed DEF Inv, Status, Ends
    <3>1. \A v \in Run : Onward(v)
      BY <3>0 DEF Inv, Carried, Fits, Onward
    <3>2. \A v \in Run : /\ up'[v].at \in {"no", "contract", "version"} => run'[v] = "none"
                         /\ up'[v].at = "run" => run'[v] # "none"
                         /\ up[v].at = "answered" => up'[v] = up[v]
      BY <1>0, <2>3, <3>0 DEF UploadStates
    <3>. QED
      BY <2>1, <3>1, <3>2, Moving
  <2>. QED
    BY <1>1, <2>2, <2>3 DEF ServeUpload
<1>2. ASSUME NEW r \in Run, NEW s \in Status, run[r] # "none", Becomes(r, s)
      PROVE  \A q \in Run : Onward(q) /\ (run[q] = "none" => run'[q] = "none")
  <2>1. /\ run'[r] = s /\ (s \in Ends => s \in reached'[r]) /\ reached[r] \subseteq reached'[r] /\ s # "none"
        /\ \A q \in Run : q # r => run'[q] = run[q] /\ reached'[q] = reached[q]
    BY <1>2, Committed DEF Inv, Status
  <2>. QED
    BY <1>2, <2>1 DEF Inv, Carried, Fits, Onward
<1>3. ASSUME NEW r \in Run, ServerStep(r)
      PROVE  Served' /\ OnScreen' /\ Carried' /\ Recovering' /\ Stored' /\ Followed' /\ Addressed'
  <2>1. UNCHANGED <<up, page, address, ask, stray, astray>>
    BY <1>3 DEF ServerStep
  <2>2. \A q \in Run : Onward(q) /\ (run[q] = "none" => run'[q] = "none")
    BY <1>2, <1>3, Serving
  <2>. QED
    BY <1>0, <2>1, <2>2, Moving DEF Onward
<1>4. ASSUME NEW k \in Asking, ServeAsk(k)
      PROVE  Served' /\ OnScreen' /\ Carried' /\ Recovering' /\ Stored' /\ Followed' /\ Addressed'
  <2>1. UNCHANGED <<up, page, address, stray, astray>>
    BY <1>4 DEF ServeAsk
  <2>2. CASE ask' = [ask EXCEPT ![k].at = "refused"] /\ UNCHANGED <<run, reached>>
    <3>1. \A j \in Asking : /\ ask'[j].run = ask[j].run /\ ask'[j].mounted = ask[j].mounted
                            /\ ask'[j].at = "ok" => ask[j].at = "ok"
      BY <1>0, <2>2 DEF AskStates
    <3>2. \A q \in Run : Onward(q)
      BY <2>2 DEF Inv, Carried, Fits, Onward
    <3>. QED
      BY <1>0, <2>1, <2>2, <3>1, <3>2, Moving
  <2>3. CASE ~(ask' = [ask EXCEPT ![k].at = "refused"] /\ UNCHANGED <<run, reached>>)
    <3>1. PICK to \in {"processing", "cancelled"} :
            /\ ask[k].run \in Run /\ ask' = [ask EXCEPT ![k].at = "ok"]
            /\ run[ask[k].run] \in {"failed", "processing"}
            /\ Becomes(ask[k].run, to) /\ (k = "cancel" => to = "cancelled")
      BY <1>4, <2>3 DEF ServeAsk
    <3>2. \A q \in Run : Onward(q) /\ (run[q] = "none" => run'[q] = "none")
      BY <1>2, <3>1 DEF Status
    <3>3. \A j \in Asking : /\ ask'[j].run = ask[j].run /\ ask'[j].mounted = ask[j].mounted
                            /\ j # k => ask'[j].at = ask[j].at
      BY <1>0, <3>1 DEF AskStates
    <3>4. run'[ask[k].run] # "none" /\ (k = "cancel" => "cancelled" \in reached'[ask[k].run])
      BY <3>1, Committed DEF Inv, Status, Ends
    <3>. QED
      BY <1>0, <2>1, <3>1, <3>2, <3>3, <3>4, Moving DEF Onward
  <2>. QED
    BY <2>2, <2>3
<1>. QED
  BY <1>1, <1>3, <1>4

\* A page whose requests rest, or lose what they were about, asks nothing new.
LEMMA StillQuiet == ASSUME UNCHANGED <<stray, ask>> PROVE Quietened(screen)
BY DEF Quietened

LEMMA UploadSteps ==
    ASSUME Inv, NEW u \in Run, Uploads(u) \/ UploadAnswered(u) \/ UploadFailed(u)
    PROVE  Served' /\ OnScreen' /\ Carried' /\ Recovering' /\ Stored' /\ Followed' /\ Addressed'
<1>0. /\ up \in [Run -> UploadStates]
      /\ \A v \in Run : /\ up[v].at \in {"no", "contract", "version"} => run[v] = "none"
                        /\ up[v].at = "run" => run[v] # "none"
      /\ processing \in Run => run[processing] # "none"
      /\ saved \in Run => run[saved] # "none"
      /\ saved # 0 => processing \in {saved, Pending}
  BY DEF Inv, TypeOK, Served, Stored
<1>1. ASSUME NEW stage \in {"contract", "version"}, NEW c, StartUpload(u, stage, c), screen # "processing"
      PROVE  Served' /\ OnScreen' /\ Carried' /\ Recovering' /\ Stored' /\ Followed' /\ Addressed'
  <2>1. /\ Show("processing", NoContract, Pending, saved, FALSE) /\ UNCHANGED <<run, reached>>
        /\ Quietened("processing")
    BY <1>1, UnmountQuietens DEF StartUpload, Inv
  <2>2. \A v \in Run : /\ up'[v].at \in {"no", "contract", "version"} => run[v] = "none"
                       /\ up'[v].at = "run" => run[v] # "none"
    BY <1>0, <1>1 DEF StartUpload
  <2>3. Served' /\ OnScreen' /\ Carried' /\ Recovering' /\ Stored' /\ Followed'
    BY <1>0, <1>1, <2>1, <2>2, Numbers, Rendering
  <2>4. Addressed'
    BY <1>1, <2>1 DEF StartUpload, Show, Addressed, At
  <2>. QED
    BY <2>3, <2>4
<1>2. CASE Uploads(u)
  BY <1>1, <1>2 DEF Uploads, AddVersion, SubmitContract
<1>3. CASE UploadAnswered(u)
  <2>1. /\ Show(screen, ContractOf(u), u, u, error) /\ UNCHANGED <<run, reached, address, ask, stray>>
        /\ astray' = (IF screen = "processing" /\ processing = Pending THEN astray ELSE astray \cup {"upload"})
        /\ run[u] # "none" /\ 0 # u
        /\ up'[u].at = "answered" /\ ContractOf(u)' = ContractOf(u)
    BY <1>0, <1>3, Numbers DEF UploadAnswered, ContractOf, UploadStates
  <2>2. \A v \in Run : /\ up'[v].at \in {"no", "contract", "version"} => run[v] = "none"
                       /\ up'[v].at = "run" => run[v] # "none"
    BY <1>0, <1>3 DEF UploadAnswered, UploadStates
  <2>3. Served' /\ OnScreen' /\ Carried' /\ Recovering' /\ Stored' /\ Followed'
    BY <2>1, <2>2, Numbers, StillQuiet, Rendering
  <2>4. Addressed'
    BY <2>1 DEF Inv, Addressed, Show
  <2>. QED
    BY <2>3, <2>4
<1>4. CASE UploadFailed(u)
  <2>1. /\ Show(screen, chosen, processing, saved, TRUE) /\ UNCHANGED <<run, reached, address, ask, stray, astray>>
    BY <1>4 DEF UploadFailed
  <2>2. \A v \in Run : /\ up'[v].at \in {"no", "contract", "version"} => run[v] = "none"
                       /\ up'[v].at = "run" => run[v] # "none"
    BY <1>0, <1>4 DEF UploadFailed, UploadStates, Dropped
  <2>3. Served' /\ OnScreen' /\ Carried' /\ Recovering' /\ Stored' /\ Followed'
    BY <1>0, <2>1, <2>2, StillQuiet, Rendering
  <2>4. \A v \in Run : up[v].at = "answered" => up'[v].at = "answered" /\ ContractOf(v)' = ContractOf(v)
    BY <1>0, <1>4 DEF UploadFailed, UploadStates, ContractOf
  <2>5. Addressed'
    BY <2>1, <2>4 DEF Inv, Addressed, Show
  <2>. QED
    BY <2>3, <2>5
<1>. QED
  BY <1>2, <1>3, <1>4

LEMMA ScreenSteps ==
    ASSUME Inv, Navigate \/ PopState \/ ExpireSession \/ NothingToRecover \/ WatchLeaves \/ \E r \in Run : StrayLeaves(r)
    PROVE  Served' /\ OnScreen' /\ Carried' /\ Recovering' /\ Stored' /\ Followed' /\ Addressed'
<1>1. CASE Navigate
  <2>1. PICK s, c : Go(s, c) /\ Unmount(s)
    BY <1>1 DEF Navigate
  <2>. QED
    BY <1>1, <2>1, UnmountQuietens, Going DEF Navigate, server, Inv
<1>2. CASE PopState
  <2>1. PICK e \in {Home, At("new_contract", NoContract), At("processing", NoContract)}
                   \cup {At("contract_detail", c) : c \in Created} :
          /\ address' = e /\ astray' = Lasts(e.screen)
          /\ Show(e.screen, e.id, processing, saved, error) /\ Unmount(e.screen)
    BY <1>2 DEF PopState
  <2>2. e = At(e.screen, e.id)
    BY DEF At, Home
  <2>3. Go(e.screen, e.id)
    BY <2>1, <2>2 DEF Go
  <2>. QED
    BY <1>2, <2>1, <2>3, UnmountQuietens, Going DEF PopState, server, Inv
<1>3. CASE NothingToRecover
  BY <1>3, UnmountQuietens, Going DEF NothingToRecover, server, Inv
<1>4. CASE WatchLeaves
  BY <1>4, UnmountQuietens, Going DEF WatchLeaves, server, Inv
<1>5. ASSUME NEW r \in Run, StrayLeaves(r) PROVE Served' /\ OnScreen' /\ Carried' /\ Recovering' /\ Stored' /\ Followed' /\ Addressed'
  <2>1. Go("contract_detail", ContractOf(r)) /\ UNCHANGED server
    BY <1>5 DEF StrayLeaves, server
  <2>2. (\A q \in Run : stray[q] \in StrayStates) /\ (\A k \in Asking : ask[k] \in AskStates)
    BY DEF Inv, TypeOK
  <2>3. CASE screen = "contract_detail"
    <3>1. stray' = [stray EXCEPT ![r].at = "off"] /\ ask' = ask
      BY <1>5, <2>3 DEF StrayLeaves
    <3>2. \A q \in Run : stray'[q].at \in {stray[q].at, "off"} /\ stray'[q].mounted = stray[q].mounted
      BY <2>2, <3>1 DEF Inv, TypeOK, StrayStates
    <3>. QED
      BY <2>1, <2>3, <3>1, <3>2, Going DEF Quietened, server
  <2>4. CASE screen # "contract_detail"
    <3>1. /\ stray' = [q \in Run |-> [at |-> IF q = r THEN "off" ELSE stray[q].at, mounted |-> FALSE]]
          /\ ask' = [k \in Asking |-> [ask[k] EXCEPT !.mounted = FALSE]]
      BY <1>5, <2>4 DEF StrayLeaves
    <3>2. \A q \in Run : stray'[q].at \in {stray[q].at, "off"} /\ ~stray'[q].mounted
      BY <3>1
    <3>3. \A k \in Asking : ask'[k].at = ask[k].at /\ ask'[k].run = ask[k].run /\ ~ask'[k].mounted
      BY <2>2, <3>1 DEF AskStates
    <3>. QED
      BY <2>1, <3>2, <3>3, Going DEF Quietened, server
  <2>. QED
    BY <2>3, <2>4
<1>6. CASE ExpireSession
  <2>1. /\ Show("dashboard", NoContract, processing, saved, error) /\ Quietened("dashboard")
        /\ astray' = {"session"} /\ UNCHANGED <<run, reached, up, address>>
    BY <1>6, UnmountQuietens DEF ExpireSession, server, Inv
  <2>2. saved # 0 => processing \in {saved, Pending}
    BY DEF Inv, Stored
  <2>3. Served' /\ OnScreen' /\ Carried' /\ Recovering' /\ Stored' /\ Followed'
    BY <2>1, <2>2, Rendering DEF Inv, Served
  <2>4. Addressed'
    BY <2>1 DEF Addressed, Show
  <2>. QED
    BY <2>3, <2>4
<1>. QED
  BY <1>1, <1>2, <1>3, <1>4, <1>5, <1>6

LEMMA PageSteps ==
    ASSUME Inv, Reload \/ SignOut \/ Recovered \/ FindActive \/ WatchAsks \/ WatchAnswered
    PROVE  Served' /\ OnScreen' /\ Carried' /\ Recovering' /\ Stored' /\ Followed' /\ Addressed'
<1>0. /\ up \in [Run -> UploadStates] /\ saved \in 0..MaxUploads
      /\ \A v \in Run : /\ up[v].at \in {"no", "contract", "version"} => run[v] = "none"
                        /\ up[v].at = "run" => run[v] # "none"
      /\ saved \in Run => run[saved] # "none"
  BY DEF Inv, TypeOK, Served
<1>1. CASE Reload
  <2>1. /\ screen' = address.screen /\ chosen' = address.id /\ processing' = saved' /\ saved' \in {0, saved}
        /\ watch' = (IF saved' # 0 THEN "due" ELSE "off")
        /\ saved' # 0 => screen' = "processing"
        /\ recovery' = Rest \/ (recovery' = Due /\ processing' = 0)
        /\ shown' = "nothing" /\ astray' = {}
        /\ stray' = [r \in Run |-> Off] /\ ask' = [k \in Asking |-> NoAsk] /\ UNCHANGED <<run, reached, address>>
    BY <1>1, Numbers DEF Reload
  <2>2. /\ \A r \in Run : stray'[r].at = "off" /\ ~stray'[r].mounted
        /\ \A k \in Asking : ask'[k].at = "no" /\ ~ask'[k].mounted /\ ask'[k].run = 0
    BY <2>1 DEF Off, NoAsk
  <2>3. \A v \in Run : up'[v].at \in {"no", "answered", "failed"} /\ (up'[v].at = "no" => run[v] = "none")
    BY <1>0, <1>1 DEF Reload, Dropped, UploadStates
  <2>4. Rest.at = "no" /\ Due.at = "due"
    BY DEF Rest, Due
  <2>5. saved' # 0 => saved' \in Run
    BY <1>0, <2>1, MonitorAssumption DEF Run
  <2>6. Served'
    <3>1. \A v \in Run : /\ up'[v].at \in {"no", "contract", "version"} => run'[v] = "none"
                         /\ up'[v].at = "run" => run'[v] # "none"
      BY <2>1, <2>3
    <3>2. saved' \in Run => run'[saved'] # "none"
      BY <1>0, <2>1, Numbers
    <3>3. watch' # "off" => processing' \in Run
      BY <2>1, <2>5
    <3>4. recovery'.at # "found"
      BY <2>1, <2>4
    <3>. QED
      BY <2>1, <2>2, <3>1, <3>2, <3>3, <3>4 DEF Served
  <2>7. OnScreen' /\ Recovering' /\ Stored' /\ Followed' /\ Addressed'
    BY <2>1, <2>2, <2>4 DEF OnScreen, Recovering, Stored, Followed, Addressed, Ends
  <2>8. Carried'
    BY <2>1, <2>2 DEF Inv, Carried, Fits, Ends, Asking
  <2>. QED
    BY <2>6, <2>7, <2>8
<1>2. CASE Recovered
  <2>1. /\ Show(screen, chosen, recovery.run, recovery.run, error)
        /\ recovery.run \in Run /\ run[recovery.run] # "none" /\ processing = 0
        /\ UNCHANGED <<run, reached, up, address, ask, stray, astray>>
    BY <1>2 DEF Recovered, server, Inv, Served, Recovering
  <2>2. Served' /\ OnScreen' /\ Carried' /\ Recovering' /\ Stored' /\ Followed'
    BY <1>0, <2>1, Numbers, StillQuiet, Rendering
  <2>3. Addressed'
    BY <2>1 DEF Inv, Addressed, Show, ContractOf
  <2>. QED
    BY <2>2, <2>3
<1>3. CASE FindActive
  <2>1. \/ recovery' = [at |-> "none", run |-> 0]
        \/ \E r \in Run : recovery' = [at |-> "found", run |-> r] /\ run[r] # "none"
    BY <1>3 DEF FindActive
  <2>2. recovery.at = "due" /\ UNCHANGED <<run, reached, up, screen, chosen, processing, saved, watch, shown, address, ask, stray, astray>>
    BY <1>3 DEF FindActive, server
  <2>. QED
    BY <2>1, <2>2 DEF Inv, Served, OnScreen, Carried, Recovering, Stored, Followed, Addressed, ContractOf, Fits
<1>4. CASE WatchAsks
  <2>1. /\ watch = "due" /\ watch' = run[processing]
        /\ UNCHANGED <<run, reached, up, screen, chosen, processing, saved, recovery, shown, address, ask, stray, astray>>
    BY <1>4 DEF WatchAsks, server
  <2>2. (watch' \in Ends => Fits(watch, processing)')
    BY <2>1 DEF Inv, Served, Carried, Fits
  <2>. QED
    BY <2>1, <2>2 DEF Inv, Served, OnScreen, Carried, Recovering, Stored, Followed, Addressed, ContractOf, Fits
<1>5. CASE WatchAnswered
  <2>1. /\ watch \in Status /\ shown' = watch /\ watch' \in {"leaving", "stopped", "due"}
        /\ UNCHANGED <<run, reached, up, screen, chosen, processing, saved, recovery, address, ask, stray, astray>>
    BY <1>5 DEF WatchAnswered, server
  <2>2. watch # "off" /\ watch' \notin Ends
    BY <2>1 DEF Status, Ends
  <2>. QED
    BY <2>1, <2>2 DEF Inv, Served, OnScreen, Carried, Recovering, Stored, Followed, Addressed, ContractOf, Fits
<1>6. CASE SignOut
  <2>1. /\ shown' = "nothing" /\ UNCHANGED <<run, reached, up, screen, chosen, processing, saved, recovery, address, astray>>
        /\ watch' = (IF screen = "processing" /\ processing \in Run THEN "due" ELSE "off")
        /\ stray' = [r \in Run |-> [stray[r] EXCEPT !.mounted = FALSE]]
        /\ ask' = [k \in Asking |-> [ask[k] EXCEPT !.mounted = FALSE]]
    BY <1>6 DEF SignOut, server
  <2>2. /\ \A r \in Run : stray[r] \in StrayStates
        /\ \A k \in Asking : ask[k] \in AskStates
    BY DEF Inv, TypeOK
  <2>3. /\ \A r \in Run : stray'[r].at = stray[r].at /\ ~stray'[r].mounted
        /\ \A k \in Asking : ask'[k].at = ask[k].at /\ ask'[k].run = ask[k].run /\ ~ask'[k].mounted
    BY <2>1, <2>2 DEF StrayStates, AskStates
  <2>4. Served' /\ OnScreen'
    BY <2>1, <2>3 DEF Inv, Served, OnScreen
  <2>6. Recovering' /\ Stored' /\ Followed' /\ Addressed'
    BY <2>1, <2>3 DEF Inv, Recovering, Stored, Followed, Addressed, Ends, ContractOf
  <2>5. Carried'
    BY <2>1, <2>3 DEF Inv, Carried, Fits, Ends, Asking
  <2>. QED
    BY <2>4, <2>5, <2>6
<1>. QED
  BY <1>1, <1>2, <1>3, <1>4, <1>5, <1>6

LEMMA AskSteps ==
    ASSUME Inv, RetryAnswered \/ CancelAnswered \/ \E k \in Asking : Asks(k) \/ AskRefused(k)
    PROVE  Served' /\ OnScreen' /\ Carried' /\ Recovering' /\ Stored' /\ Followed' /\ Addressed'
<1>0. /\ ask \in [Asking -> AskStates] /\ stray \in [Run -> StrayStates]
      /\ "retry" \in Asking /\ "cancel" \in Asking
      /\ \A k \in Asking : ask[k].mounted => screen = "processing"
  BY DEF Inv, TypeOK, Asking, OnScreen
<1>1. ASSUME NEW k \in Asking, Asks(k) PROVE Served' /\ OnScreen' /\ Carried' /\ Recovering' /\ Stored' /\ Followed' /\ Addressed'
  <2>1. /\ screen = "processing"
        /\ ask' = [ask EXCEPT ![k] = [at |-> "sent", run |-> processing, mounted |-> TRUE]]
        /\ UNCHANGED <<run, reached, up, screen, chosen, processing, saved, recovery, watch, shown, address, stray, astray>>
    BY <1>1 DEF Asks, server
  <2>2. /\ ask'[k].at = "sent" /\ ask'[k].run = processing /\ \A j \in Asking : j # k => ask'[j] = ask[j]
    BY <1>0, <2>1
  <2>. QED
    BY <1>0, <2>1, <2>2 DEF Inv, Served, OnScreen, Carried, Recovering, Stored, Followed, Addressed, ContractOf, Fits
<1>2. ASSUME NEW k \in Asking, AskRefused(k) PROVE Served' /\ OnScreen' /\ Carried' /\ Recovering' /\ Stored' /\ Followed' /\ Addressed'
  <2>1. /\ ask' = [ask EXCEPT ![k] = NoAsk]
        /\ UNCHANGED <<run, reached, up, screen, chosen, processing, saved, recovery, watch, shown, address, stray, astray>>
    BY <1>2 DEF AskRefused, server
  <2>2. /\ ask'[k].at = "no" /\ ~ask'[k].mounted /\ \A j \in Asking : j # k => ask'[j] = ask[j]
    BY <1>0, <2>1 DEF NoAsk
  <2>. QED
    BY <1>0, <2>1, <2>2 DEF Inv, Served, OnScreen, Carried, Recovering, Stored, Followed, Addressed, ContractOf, Fits
<1>3. CASE RetryAnswered
  <2>. DEFINE a == ask["retry"]
  <2>1. /\ a.at = "ok" /\ ask' = [ask EXCEPT !["retry"] = NoAsk]
        /\ stray' = [stray EXCEPT ![a.run] = [at |-> "due", mounted |-> a.mounted]]
        /\ shown' \in {"nothing", shown}
        /\ UNCHANGED <<run, reached, up, screen, chosen, processing, saved, recovery, watch, address, astray>>
    BY <1>3 DEF RetryAnswered, server
  <2>2. a.run \in Run /\ run[a.run] # "none" /\ (a.mounted => screen = "processing")
        /\ ("upload" \notin astray /\ a.mounted => a.run = processing)
    BY <1>0, <2>1 DEF Inv, Served, Followed
  <2>3. /\ ask'["retry"].at = "no" /\ ~ask'["retry"].mounted
        /\ \A j \in Asking : j # "retry" => ask'[j] = ask[j]
    BY <1>0, <2>1 DEF NoAsk
  <2>4. /\ stray'[a.run].at = "due" /\ stray'[a.run].mounted = a.mounted
        /\ \A r \in Run : r # a.run => stray'[r] = stray[r]
    BY <1>0, <2>1, <2>2
  <2>5. "due" \notin Ends /\ "nothing" \notin Ends
    BY DEF Ends
  <2>. HIDE DEF a
  <2>6. Served'
    BY <2>1, <2>2, <2>3, <2>4 DEF Inv, Served
  <2>7. OnScreen'
    BY <2>1, <2>2, <2>3, <2>4 DEF Inv, OnScreen
  <2>8. Carried'
    BY <1>0, <2>1, <2>3, <2>4, <2>5 DEF Inv, Carried, Fits
  <2>9. Recovering' /\ Stored' /\ Addressed'
    BY <2>1 DEF Inv, Recovering, Stored, Addressed, ContractOf
  <2>10. Followed'
    BY <2>1, <2>2, <2>3, <2>4, <2>5 DEF Inv, Followed, Fits
  <2>. QED
    BY <2>6, <2>7, <2>8, <2>9, <2>10
<1>4. CASE CancelAnswered
  <2>. DEFINE a == ask["cancel"]
  <2>1. /\ a.at = "ok" /\ ask' = [ask EXCEPT !["cancel"] = NoAsk]
        /\ shown' = IF a.mounted THEN "cancelled" ELSE shown
        /\ UNCHANGED <<run, reached, up, screen, chosen, processing, saved, recovery, watch, address, stray, astray>>
    BY <1>4 DEF CancelAnswered, server
  <2>2. a.run \in Run /\ Fits("cancelled", a.run) /\ (a.mounted => screen = "processing")
        /\ ("upload" \notin astray /\ a.mounted => a.run = processing)
    BY <1>0, <2>1 DEF Inv, Served, Carried, Followed
  <2>3. /\ ask'["cancel"].at = "no" /\ ~ask'["cancel"].mounted
        /\ \A j \in Asking : j # "cancel" => ask'[j] = ask[j]
    BY <1>0, <2>1 DEF NoAsk
  <2>. HIDE DEF a
  <2>. QED
    BY <2>1, <2>2, <2>3 DEF Inv, Served, OnScreen, Carried, Recovering, Stored, Followed, Addressed, ContractOf, Fits
<1>. QED
  BY <1>1, <1>2, <1>3, <1>4

LEMMA StraySteps ==
    ASSUME Inv, NEW r \in Run, StrayAsks(r) \/ StrayAnswered(r)
    PROVE  Served' /\ OnScreen' /\ Carried' /\ Recovering' /\ Stored' /\ Followed' /\ Addressed'
<1>0. stray \in [Run -> StrayStates]
  BY DEF Inv, TypeOK
<1>1. CASE StrayAsks(r)
  <2>1. /\ stray[r].at = "due" /\ stray' = [stray EXCEPT ![r].at = run[r]]
        /\ UNCHANGED <<run, reached, up, screen, chosen, processing, saved, recovery, watch, shown, address, ask, astray>>
    BY <1>1 DEF StrayAsks, server, page
  <2>2. stray'[r].at = run[r] /\ run[r] # "none" /\ (run[r] \in Ends => Fits(run[r], r))
    BY <1>0, <2>1 DEF StrayStates, Inv, Served, Carried
  <2>3. \A q \in Run : stray'[q].mounted = stray[q].mounted /\ (q # r => stray'[q].at = stray[q].at)
    BY <1>0, <2>1 DEF StrayStates
  <2>4. Served' /\ OnScreen' /\ Recovering' /\ Stored' /\ Followed' /\ Addressed'
    BY <2>1, <2>2, <2>3 DEF Inv, Served, OnScreen, Recovering, Stored, Followed, Addressed, ContractOf, Fits
  <2>5. Carried'
    BY <2>1, <2>2, <2>3 DEF Inv, Carried, Fits
  <2>. QED
    BY <2>4, <2>5
<1>2. CASE StrayAnswered(r)
  <2>. DEFINE got == stray[r].at
  <2>1. /\ got \in Status /\ shown' = (IF stray[r].mounted THEN got ELSE shown)
        /\ UNCHANGED <<run, reached, up, screen, chosen, processing, saved, recovery, watch, address, ask, astray>>
    BY <1>2 DEF StrayAnswered, server
  <2>2. \A q \in Run : /\ stray'[q].mounted = stray[q].mounted
                       /\ stray'[q].at \in {stray[q].at, "leaving", "off", "due"}
                       /\ q # r => stray'[q].at = stray[q].at
    BY <1>0, <1>2 DEF StrayAnswered, StrayStates
  <2>3. /\ got # "off"
        /\ got \in Ends => Fits(got, r)
        /\ stray[r].mounted => screen = "processing" /\ ("upload" \notin astray => r = processing)
    BY <2>1 DEF Inv, OnScreen, Carried, Followed, Status
  <2>4. {"leaving", "off", "due"} \cap Ends = {}
    BY DEF Ends
  <2>5. run[r] # "none"
    BY <2>3 DEF Inv, Served
  <2>. HIDE DEF got
  <2>6. Served' /\ OnScreen' /\ Recovering' /\ Stored' /\ Addressed'
    BY <2>1, <2>2, <2>3, <2>5 DEF Inv, Served, OnScreen, Recovering, Stored, Addressed, ContractOf
  <2>7. Carried'
    BY <2>1, <2>2, <2>4 DEF Inv, Carried, Fits
  <2>8. Followed'
    BY <2>1, <2>2, <2>3 DEF Inv, Followed, Fits
  <2>. QED
    BY <2>6, <2>7, <2>8
<1>. QED
  BY <1>1, <1>2

-----------------------------------------------------------------------------
(***************************************************************************)
(* The theorems.                                                           *)
(***************************************************************************)
LEMMA InvInit == Init => Inv
<1> SUFFICES ASSUME Init PROVE Inv
  OBVIOUS
<1>1. /\ \A u \in Run : up[u].at = "no" /\ run[u] = "none" /\ stray[u] = Off
      /\ \A k \in Asking : ask[k] = NoAsk
      /\ screen = "dashboard" /\ processing = 0 /\ saved = 0 /\ recovery = Rest /\ watch = "off"
      /\ shown = "nothing" /\ astray = {} /\ address = Home
  BY DEF Init
<1>2. 0 \notin Run /\ 0 \in 0..Pending /\ 0 \in 0..MaxUploads /\ 0 \in Contract
  BY Numbers
<1>3. Rest.at = "no" /\ Off.at = "off" /\ ~Off.mounted /\ NoAsk.at = "no" /\ ~NoAsk.mounted
      /\ Home.screen = "dashboard"
  BY DEF Rest, Off, NoAsk, Home, At
<1>4. TypeOK
  <2>1. up \in [Run -> UploadStates]
    BY <1>2 DEF Init, UploadStates
  <2>2. address \in [screen : Screens, id : Contract \cup {NoContract}]
    BY <1>1 DEF Home, At, Screens
  <2>3. turns \in 0..MaxTurns
    BY MonitorAssumption DEF Init
  <2>. QED
    BY <1>2, <2>1, <2>2, <2>3, Records DEF Init, TypeOK, Screens
<1>5. Served /\ OnScreen
  BY <1>1, <1>2, <1>3 DEF Served, OnScreen
<1>6. Carried
  BY <1>1, <1>3 DEF Carried, Ends, Asking
<1>7. Recovering /\ Stored /\ Followed /\ Addressed
  BY <1>1, <1>3 DEF Recovering, Stored, Followed, Addressed, Ends
<1>. QED
  BY <1>4, <1>5, <1>6, <1>7 DEF Inv

LEMMA InvStep == Inv /\ [Next]_vars => Inv'
<1> SUFFICES ASSUME Inv, [Next]_vars PROVE Inv'
  OBVIOUS
<1>1. TypeOK'
  BY TypeStep DEF Inv
<1>2. CASE User
  BY <1>1, <1>2, ScreenSteps, PageSteps, AskSteps DEF User, Retry, Cancel, Asking, Inv
<1>3. CASE Watch \/ Recovery
  BY <1>1, <1>3, ScreenSteps, PageSteps DEF Watch, Recovery, Inv
<1>4. CASE Answers
  BY <1>1, <1>4, ServerMoves, AskSteps DEF Answers, Inv
<1>5. ASSUME NEW r \in Run, Uploads(r) \/ UploadAnswered(r) \/ UploadFailed(r) PROVE Inv'
  BY <1>1, <1>5, UploadSteps DEF Inv
<1>6. ASSUME NEW r \in Run, ServeUpload(r) \/ ServerStep(r) PROVE Inv'
  BY <1>1, <1>6, ServerMoves DEF Inv
<1>7. ASSUME NEW r \in Run, Stray(r) PROVE Inv'
  BY <1>1, <1>7, ScreenSteps, StraySteps DEF Stray, Inv
<1>8. CASE UNCHANGED vars
  <2>1. UNCHANGED <<page, address, stray, astray, run, reached, up, ask>>
    BY <1>8 DEF vars, page
  <2>2. Served' /\ OnScreen' /\ Carried' /\ Recovering' /\ Stored' /\ Followed' /\ Addressed'
    BY <2>1, Moving DEF Onward, Inv, Served, Carried, Fits
  <2>. QED
    BY <1>1, <2>2 DEF Inv
<1>. QED
  BY <1>2, <1>3, <1>4, <1>5, <1>6, <1>7, <1>8 DEF Next

LEMMA InvHolds == Spec => []Inv
BY InvInit, InvStep, PTL DEF Spec

\* Every state of the page is one that the program has, however many uploads.
THEOREM TypeCorrect == Spec => []TypeOK
<1>1. Inv => TypeOK
  BY DEF Inv
<1>. QED
  BY <1>1, InvHolds, PTL

\* An end that the processing screen shows is one that its run has been at, whatever
\* polls and requests of earlier screens are still under way and whatever late commits
\* made of the run; after an upload that was answered elsewhere, one of some run.
THEOREM EndsAreTrue == Spec => []ShownTruthfully
<1>1. Inv => ShownTruthfully
  BY DEF Inv, Followed, Fits, ShownTruthfully
<1>. QED
  BY <1>1, InvHolds, PTL

\* What a reload takes up is what the page shows, but for what a session that ended or
\* an upload that was answered elsewhere left beside the address.
THEOREM PageIsResumable == Spec => []Resumable
<1>1. Inv => Resumable
  BY DEF Inv, Addressed, Stored, Resumable
<1>. QED
  BY <1>1, InvHolds, PTL

-----------------------------------------------------------------------------
(***************************************************************************)
(* No grey screen.                                                         *)
(***************************************************************************)
\* Something tells the processing screen how its run goes on: its poll, the end it
\* shows already, or the poll of a retry that it was not left since.
Polled == \/ watch \notin {"off", "stopped"}
          \/ shown \in Terminal
          \/ \E r \in Run : stray[r].mounted /\ stray[r].at # "off"

Sending == \E u \in Run : up[u].at \in {"contract", "version", "run"}

\* The processing screen never stays grey: it shows an error, looks for the active
\* run, waits for an upload that is still under way, or something polls its run.
NeverGrey ==
    screen = "processing" /\ ~error =>
        \/ processing = 0 /\ recovery.at # "no"
        \/ processing = Pending /\ Sending
        \/ processing \in Run /\ Polled

\* An upload under way is waited for on the processing screen only, and a retry that
\* outlives the screen it was asked on outlives its polls, too.
GreyInv ==
    /\ NeverGrey
    /\ processing = Pending => screen = "processing"
    /\ ask["retry"].at # "no" /\ ~ask["retry"].mounted => \A r \in Run : ~stray[r].mounted

LEMMA GreyRendering ==
    ASSUME Inv, GreyInv, NEW s, NEW c, NEW p \in 0..Pending, NEW sv, NEW e \in BOOLEAN,
           Show(s, c, p, sv, e),
           p = Pending => (s = "processing" \/ Leaves(s)) /\ (s = "processing" /\ ~e => Sending'),
           s = screen => stray' = stray /\ (e = error \/ e),
           \/ ask'["retry"].at = ask["retry"].at /\ ask'["retry"].mounted = ask["retry"].mounted
              /\ stray' = stray
           \/ \A r \in Run : ~stray'[r].mounted
    PROVE  GreyInv'
<1>0. 0 \notin Run /\ Pending # 0 /\ (p = 0 \/ p \in Run \/ p = Pending)
  BY Numbers, MonitorAssumption DEF Run, Pending
<1>1. Rest.at = "no" /\ Due.at = "due"
  BY DEF Rest, Due
<1>2. /\ screen' = s /\ error' = e /\ processing' = (IF Leaves(s) THEN 0 ELSE p)
      /\ s # screen => shown' = "nothing"
      /\ s = screen => shown' = shown
  BY DEF Show
<1>3. NeverGrey'
  <2> SUFFICES ASSUME s = "processing", ~e
               PROVE  \/ processing' = 0 /\ recovery'.at # "no"
                      \/ processing' = Pending /\ Sending'
                      \/ processing' \in Run /\ Polled'
    BY <1>2 DEF NeverGrey
  <2>1. processing' = p
    BY <1>2 DEF Leaves
  <2>2. CASE p = Pending
    BY <2>1, <2>2
  <2>3. CASE p \in Run /\ (s # screen \/ p # processing)
    <3>1. watch' = "due"
      BY <2>1, <2>3 DEF Show, Leaves
    <3>2. QED
      BY <2>1, <2>3, <3>1 DEF Polled
  <2>4. CASE p = 0 /\ (s # screen \/ p # processing)
    <3>1. recovery' = Due
      BY <1>0, <2>1, <2>4 DEF Show, Leaves
    <3>2. QED
      BY <1>1, <2>1, <2>4, <3>1
  <2>5. CASE s = screen /\ p = processing /\ p # Pending
    <3>1. /\ UNCHANGED <<watch, recovery, shown, stray, processing>>
          /\ screen = "processing" /\ ~error
      BY <2>1, <2>5 DEF Show, Leaves
    <3>2. QED
      BY <2>5, <3>1 DEF GreyInv, NeverGrey, Polled
  <2>6. QED
    BY <1>0, <2>2, <2>3, <2>4, <2>5
<1>4. processing' = Pending => screen' = "processing"
  BY <1>0, <1>2
<1>5. ask'["retry"].at # "no" /\ ~ask'["retry"].mounted => \A r \in Run : ~stray'[r].mounted
  BY DEF GreyInv
<1>. QED
  BY <1>3, <1>4, <1>5 DEF GreyInv

\* A screen that is left unmounts both its retry and the polls of its retries.
LEMMA GreyUnmount ==
    ASSUME Inv, NEW s, Unmount(s)
    PROVE  /\ s = screen => stray' = stray /\ ask' = ask
           /\ s # screen => \A r \in Run : ~stray'[r].mounted
<1>1. ASSUME s # screen, NEW r \in Run PROVE ~stray'[r].mounted
  <2>1. stray' = [q \in Run |-> [stray[q] EXCEPT !.mounted = FALSE]] /\ stray[r] \in StrayStates
    BY <1>1 DEF Unmount, Inv, TypeOK
  <2>2. QED
    BY <2>1 DEF StrayStates
<1>2. QED
  BY <1>1 DEF Unmount

LEMMA GreyGoing ==
    ASSUME Inv, GreyInv, NEW s, NEW c, Go(s, c), UNCHANGED up,
           s = screen => stray' = stray /\ ask' = ask,
           s # screen => \A r \in Run : ~stray'[r].mounted
    PROVE  GreyInv'
<1>1. Show(s, c, processing, saved, error) /\ processing \in 0..Pending /\ error \in BOOLEAN
  BY DEF Go, Inv, TypeOK
<1>2. processing = Pending => (s = "processing" \/ Leaves(s)) /\ (s = "processing" /\ ~error => Sending')
  <2>1. processing = Pending => screen = "processing" /\ (~error => Sending)
    BY Numbers DEF GreyInv, NeverGrey
  <2>2. QED
    BY <2>1 DEF Leaves, Sending
<1>3. QED
  BY <1>1, <1>2, GreyRendering

LEMMA GreyScreens ==
    ASSUME Inv, GreyInv,
           Navigate \/ PopState \/ ExpireSession \/ NothingToRecover \/ WatchLeaves
           \/ \E r \in Run : StrayLeaves(r)
    PROVE  GreyInv'
<1>1. ASSUME NEW s, NEW c, Go(s, c), Unmount(s), UNCHANGED up PROVE GreyInv'
  BY <1>1, GreyUnmount, GreyGoing
<1>2. CASE Navigate
  <2>1. PICK s, c : Go(s, c) /\ Unmount(s) /\ UNCHANGED up
    BY <1>2 DEF Navigate, server
  <2>2. QED
    BY <1>1, <2>1
<1>3. CASE PopState
  <2>1. PICK e \in {Home, At("new_contract", NoContract), At("processing", NoContract)}
                   \cup {At("contract_detail", c) : c \in Created} :
          /\ address' = e /\ astray' = Lasts(e.screen)
          /\ Show(e.screen, e.id, processing, saved, error) /\ Unmount(e.screen)
    BY <1>3 DEF PopState
  <2>2. e = At(e.screen, e.id)
    BY DEF At, Home
  <2>3. Go(e.screen, e.id) /\ UNCHANGED up
    BY <1>3, <2>1, <2>2 DEF Go, PopState, server
  <2>4. QED
    BY <1>1, <2>1, <2>3
<1>4. CASE NothingToRecover \/ WatchLeaves
  BY <1>1, <1>4 DEF NothingToRecover, WatchLeaves, server
<1>5. ASSUME NEW r \in Run, StrayLeaves(r) PROVE GreyInv'
  <2>1. Go("contract_detail", ContractOf(r)) /\ UNCHANGED up
    BY <1>5 DEF StrayLeaves, server
  <2>2. CASE screen # "contract_detail"
    <3>1. \A q \in Run : ~stray'[q].mounted
      BY <1>5, <2>2 DEF StrayLeaves
    <3>2. QED
      BY <2>1, <2>2, <3>1, GreyGoing
  <2>3. CASE screen = "contract_detail"
    <3>1. \A q \in Run : ~stray'[q].mounted
      <4>1. \A q \in Run : ~stray[q].mounted /\ stray[q] \in StrayStates
        BY <2>3 DEF Inv, OnScreen, TypeOK
      <4>2. stray' = [stray EXCEPT ![r].at = "off"]
        BY <1>5, <2>3 DEF StrayLeaves
      <4>3. QED
        BY <4>1, <4>2 DEF StrayStates, Inv, TypeOK
    <3>2. screen' = "contract_detail" /\ processing' \in {0, processing}
      BY <2>1 DEF Go, Show
    <3>3. QED
      BY <2>3, <3>1, <3>2, Numbers DEF GreyInv, NeverGrey
  <2>4. QED
    BY <2>2, <2>3
<1>6. CASE ExpireSession
  <2>1. /\ Show("dashboard", NoContract, processing, saved, error) /\ Unmount("dashboard") /\ UNCHANGED up
        /\ processing \in 0..Pending /\ error \in BOOLEAN
    BY <1>6 DEF ExpireSession, server, Inv, TypeOK
  <2>2. processing = Pending => Leaves("dashboard")
    BY DEF GreyInv, Leaves
  <2>3. QED
    BY <2>1, <2>2, GreyUnmount, GreyRendering
<1>7. QED
  BY <1>2, <1>3, <1>4, <1>5, <1>6

LEMMA GreyPage ==
    ASSUME Inv, GreyInv, Reload \/ SignOut \/ Recovered \/ FindActive \/ WatchAsks \/ WatchAnswered
    PROVE  GreyInv'
<1>1. CASE Reload
  <2>1. /\ screen' = address.screen /\ processing' \in 0..MaxUploads
        /\ processing' = (IF address.screen = "processing" THEN saved ELSE 0)
        /\ watch' = (IF processing' # 0 THEN "due" ELSE "off")
        /\ recovery' = (IF address.screen = "processing" /\ processing' = 0 THEN Due ELSE Rest)
        /\ \A r \in Run : stray'[r] = Off
    BY <1>1, Numbers DEF Reload, Inv, TypeOK
  <2>2. processing' # Pending /\ (processing' # 0 => processing' \in Run)
    BY <2>1, MonitorAssumption DEF Run, Pending
  <2>3. Due.at # "no" /\ ~Off.mounted
    BY DEF Due, Off
  <2>4. NeverGrey'
    BY <2>1, <2>2, <2>3 DEF NeverGrey, Polled
  <2>5. QED
    BY <2>1, <2>2, <2>3, <2>4 DEF GreyInv
<1>2. CASE Recovered
  <2>1. /\ Show(screen, chosen, recovery.run, recovery.run, error)
        /\ recovery.run \in Run /\ UNCHANGED <<up, ask, stray>> /\ error \in BOOLEAN
    BY <1>2 DEF Recovered, server, Inv, Served, TypeOK
  <2>2. QED
    BY <2>1, Numbers, GreyRendering
<1>3. CASE FindActive
  <2>1. recovery'.at \in {"none", "found"}
    BY <1>3 DEF FindActive
  <2>2. UNCHANGED <<up, screen, processing, error, watch, shown, ask, stray>>
    BY <1>3 DEF FindActive, server
  <2>3. QED
    BY <2>1, <2>2 DEF GreyInv, NeverGrey, Polled, Sending
<1>4. CASE WatchAsks
  <2>1. watch = "due" /\ watch' = run[processing] /\ processing \in Run
        /\ UNCHANGED <<up, screen, processing, error, recovery, shown, ask, stray>>
    BY <1>4 DEF WatchAsks, server, Inv, Served
  <2>2. watch' \notin {"off", "stopped"}
    BY <2>1 DEF Inv, TypeOK, Served, Status
  <2>3. QED
    BY <2>1, <2>2 DEF GreyInv, NeverGrey, Polled
<1>5. CASE WatchAnswered
  <2>1. /\ watch \in Status /\ shown' = watch /\ processing \in Run
        /\ watch' = (IF watch \in Success THEN "leaving"
                     ELSE IF watch \in Terminal THEN "stopped" ELSE "due")
        /\ UNCHANGED <<up, screen, processing, error, recovery, ask, stray>>
    BY <1>5 DEF WatchAnswered, server, Inv, Served, Status
  <2>2. QED
    BY <2>1 DEF GreyInv, NeverGrey, Polled
<1>6. CASE SignOut
  <2>1. /\ UNCHANGED <<up, screen, processing, error, recovery>>
        /\ watch' = (IF screen = "processing" /\ processing \in Run THEN "due" ELSE "off")
        /\ stray' = [r \in Run |-> [stray[r] EXCEPT !.mounted = FALSE]]
        /\ \A r \in Run : stray[r] \in StrayStates
    BY <1>6 DEF SignOut, server, Inv, TypeOK
  <2>2. \A r \in Run : ~stray'[r].mounted
    BY <2>1 DEF StrayStates
  <2>3. QED
    BY <2>1, <2>2 DEF GreyInv, NeverGrey, Polled, Sending
<1>7. QED
  BY <1>1, <1>2, <1>3, <1>4, <1>5, <1>6

LEMMA GreyUploads ==
    ASSUME Inv, GreyInv, NEW u \in Run, Uploads(u) \/ UploadAnswered(u) \/ UploadFailed(u)
    PROVE  GreyInv'
<1>0. up \in [Run -> UploadStates] /\ error \in BOOLEAN /\ processing \in 0..Pending
  BY DEF Inv, TypeOK
<1>1. ASSUME NEW stage \in {"contract", "version"}, NEW c, StartUpload(u, stage, c), screen # "processing"
      PROVE  GreyInv'
  <2>1. /\ Show("processing", NoContract, Pending, saved, FALSE) /\ Unmount("processing")
        /\ up'[u] = [at |-> stage, contract |-> c]
    BY <1>0, <1>1 DEF StartUpload
  <2>2. Sending'
    BY <2>1 DEF Sending
  <2>3. QED
    BY <1>1, <2>1, <2>2, Numbers, GreyUnmount, GreyRendering
<1>2. CASE Uploads(u)
  BY <1>1, <1>2 DEF Uploads, AddVersion, SubmitContract
<1>3. CASE UploadAnswered(u)
  <2>1. Show(screen, ContractOf(u), u, u, error) /\ UNCHANGED <<ask, stray>>
    BY <1>3 DEF UploadAnswered
  <2>2. QED
    BY <1>0, <2>1, Numbers, GreyRendering
<1>4. CASE UploadFailed(u)
  <2>1. Show(screen, chosen, processing, saved, TRUE) /\ UNCHANGED <<ask, stray>>
    BY <1>4 DEF UploadFailed
  <2>2. processing = Pending => screen = "processing"
    BY DEF GreyInv
  <2>3. QED
    BY <1>0, <2>1, <2>2, GreyRendering
<1>5. QED
  BY <1>2, <1>3, <1>4

LEMMA GreyServer ==
    ASSUME Inv, GreyInv,
           \/ \E r \in Run : ServeUpload(r) \/ ServerStep(r)
           \/ \E k \in Asking : ServeAsk(k)
    PROVE  GreyInv'
<1>0. up \in [Run -> UploadStates] /\ ask \in [Asking -> AskStates] /\ "retry" \in Asking
  BY DEF Inv, TypeOK, Asking
<1>1. UNCHANGED <<screen, processing, error, recovery, watch, shown, stray>>
  BY DEF ServeUpload, ServerStep, ServeAsk, page
<1>2. Sending => Sending'
  <2>1. CASE \E r \in Run : ServeUpload(r)
    BY <1>0, <2>1 DEF ServeUpload, UploadStates, Sending
  <2>2. CASE UNCHANGED up
    BY <2>2 DEF Sending
  <2>3. QED
    BY <2>1, <2>2 DEF ServerStep, ServeAsk
<1>3. /\ ask'["retry"].mounted = ask["retry"].mounted
      /\ ask'["retry"].at # "no" => ask["retry"].at # "no"
  <2>1. CASE UNCHANGED ask
    BY <2>1
  <2>2. ASSUME NEW k \in Asking, ServeAsk(k)
        PROVE  /\ ask'["retry"].mounted = ask["retry"].mounted
               /\ ask'["retry"].at # "no" => ask["retry"].at # "no"
    <3>1. ask[k].at = "sent" /\ \E a \in {"ok", "refused"} : ask' = [ask EXCEPT ![k].at = a]
      BY <2>2 DEF ServeAsk
    <3>2. QED
      BY <1>0, <3>1 DEF AskStates
  <2>3. QED
    BY <2>1, <2>2 DEF ServeUpload, ServerStep
<1>4. QED
  BY <1>1, <1>2, <1>3 DEF GreyInv, NeverGrey, Polled

LEMMA GreyAsks ==
    ASSUME Inv, GreyInv, RetryAnswered \/ CancelAnswered \/ \E k \in Asking : Asks(k) \/ AskRefused(k)
    PROVE  GreyInv'
<1>0. /\ ask \in [Asking -> AskStates] /\ stray \in [Run -> StrayStates]
      /\ "retry" \in Asking /\ "cancel" \in Asking
      /\ NoAsk.at = "no"
  BY DEF Inv, TypeOK, Asking, NoAsk
<1>1. ASSUME NEW k \in Asking, Asks(k) \/ AskRefused(k) PROVE GreyInv'
  <2>1. UNCHANGED <<up, screen, processing, error, recovery, watch, shown, stray>>
    BY <1>1 DEF Asks, AskRefused, server
  <2>2. /\ ask' = [ask EXCEPT ![k] = NoAsk]
           \/ ask' = [ask EXCEPT ![k] = [at |-> "sent", run |-> processing, mounted |-> TRUE]]
    BY <1>1 DEF Asks, AskRefused
  <2>3. ask'["retry"].at = "no" \/ ask'["retry"].mounted \/ ask'["retry"] = ask["retry"]
    BY <1>0, <2>2
  <2>4. QED
    BY <2>1, <2>3 DEF GreyInv, NeverGrey, Polled, Sending
<1>2. CASE CancelAnswered
  <2>1. /\ UNCHANGED <<up, screen, processing, error, recovery, watch, stray>>
        /\ shown' \in {"cancelled", shown}
        /\ ask' = [ask EXCEPT !["cancel"] = NoAsk]
    BY <1>2 DEF CancelAnswered, server
  <2>2. ask'["retry"] = ask["retry"]
    BY <1>0, <2>1
  <2>3. QED
    BY <2>1, <2>2 DEF GreyInv, NeverGrey, Polled, Sending, Terminal
<1>3. CASE RetryAnswered
  <2> DEFINE a == ask["retry"]
  <2>1. /\ a.at = "ok" /\ a.run \in Run
        /\ UNCHANGED <<up, screen, processing, error, recovery, watch>>
        /\ shown' = (IF a.mounted THEN "nothing" ELSE shown)
        /\ ask' = [ask EXCEPT !["retry"] = NoAsk]
        /\ stray' = [stray EXCEPT ![a.run] = [at |-> "due", mounted |-> a.mounted]]
    BY <1>0, <1>3 DEF RetryAnswered, server, Inv, Served
  <2>2. ask'["retry"].at = "no"
    BY <1>0, <2>1
  <2>3. /\ stray'[a.run].at = "due" /\ stray'[a.run].mounted = a.mounted
        /\ \A q \in Run : q # a.run => stray'[q] = stray[q]
    BY <1>0, <2>1
  <2>4. a.mounted \/ \A r \in Run : ~stray[r].mounted
    BY <2>1 DEF GreyInv
  <2> HIDE DEF a
  <2>5. Polled => Polled'
    <3>1. CASE a.mounted
      BY <2>1, <2>3, <3>1 DEF Polled
    <3>2. CASE ~a.mounted
      BY <2>1, <2>3, <2>4, <3>2 DEF Polled
    <3>3. QED
      BY <3>1, <3>2
  <2>6. QED
    BY <2>1, <2>2, <2>5 DEF GreyInv, NeverGrey, Sending
<1>4. QED
  BY <1>1, <1>2, <1>3

LEMMA GreyStrays ==
    ASSUME Inv, GreyInv, NEW r \in Run, StrayAsks(r) \/ StrayAnswered(r)
    PROVE  GreyInv'
<1>0. stray \in [Run -> StrayStates]
  BY DEF Inv, TypeOK
<1>1. UNCHANGED <<up, screen, processing, error, recovery, watch, ask>>
  BY DEF StrayAsks, StrayAnswered, server, page
<1>2. \A q \in Run : stray'[q].mounted = stray[q].mounted /\ (q # r => stray'[q] = stray[q])
  BY <1>0 DEF StrayAsks, StrayAnswered, StrayStates
<1>3. Polled => Polled'
  <2>1. CASE StrayAsks(r)
    <3>1. run[r] \in Status
      BY <2>1 DEF StrayAsks, Inv, TypeOK, Served
    <3>2. stray'[r].at = run[r] /\ shown' = shown
      BY <1>0, <2>1 DEF StrayAsks, StrayStates, page
    <3>3. stray'[r].at # "off"
      BY <3>1, <3>2 DEF Status
    <3>4. QED
      BY <1>1, <1>2, <3>2, <3>3 DEF Polled
  <2>2. CASE StrayAnswered(r) /\ ~stray[r].mounted
    <3>1. shown' = shown
      BY <2>2 DEF StrayAnswered
    <3>2. QED
      BY <1>1, <1>2, <2>2, <3>1 DEF Polled
  <2>3. CASE StrayAnswered(r) /\ stray[r].mounted
    <3>1. shown' = stray[r].at /\ (stray'[r].at # "off" \/ shown' \in Terminal)
      BY <1>0, <2>3 DEF StrayAnswered, StrayStates, StrayTerminal, Terminal
    <3>2. QED
      BY <1>2, <2>3, <3>1 DEF Polled
  <2>4. QED
    BY <2>1, <2>2, <2>3
<1>4. QED
  BY <1>1, <1>2, <1>3 DEF GreyInv, NeverGrey, Sending

LEMMA GreyInit == Init => GreyInv
<1> SUFFICES ASSUME Init PROVE GreyInv
  OBVIOUS
<1>1. NoAsk.at = "no" /\ "retry" \in Asking /\ 0 # Pending
  BY Numbers DEF NoAsk, Asking
<1>2. QED
  BY <1>1 DEF Init, GreyInv, NeverGrey

LEMMA GreyStep == Inv /\ GreyInv /\ [Next]_vars => GreyInv'
<1> SUFFICES ASSUME Inv, GreyInv, [Next]_vars PROVE GreyInv'
  OBVIOUS
<1>1. CASE UNCHANGED vars
  BY <1>1 DEF vars, GreyInv, NeverGrey, Polled, Sending
<1>2. CASE User
  BY <1>2, GreyScreens, GreyPage, GreyAsks DEF User, Retry, Cancel, Asking
<1>3. CASE Watch \/ Recovery
  BY <1>3, GreyScreens, GreyPage DEF Watch, Recovery
<1>4. CASE Answers
  BY <1>4, GreyServer, GreyAsks DEF Answers
<1>5. ASSUME NEW r \in Run, Uploads(r) \/ UploadAnswered(r) \/ UploadFailed(r) PROVE GreyInv'
  BY <1>5, GreyUploads
<1>6. ASSUME NEW r \in Run, ServeUpload(r) \/ ServerStep(r) PROVE GreyInv'
  BY <1>6, GreyServer
<1>7. ASSUME NEW r \in Run, Stray(r) PROVE GreyInv'
  BY <1>7, GreyScreens, GreyStrays DEF Stray
<1>8. QED
  BY <1>1, <1>2, <1>3, <1>4, <1>5, <1>6, <1>7 DEF Next

\* The processing screen always has something that will move it on, for any number of
\* uploads and however polls, retries, recoveries, reloads and navigation overtake
\* each other: the safety half of ScreenResolves.
THEOREM ScreenNeverGrey == Spec => []NeverGrey
<1>1. GreyInv => NeverGrey
  BY DEF GreyInv
<1>2. QED
  BY <1>1, InvHolds, GreyInit, GreyStep, PTL DEF Spec
=============================================================================

-------------------------- MODULE ReviewBlocksProofs --------------------------
(***************************************************************************)
(* Proofs about the review blocks, for any number of workers, executions,  *)
(* rounds and issues, and whatever the language models answer.             *)
(***************************************************************************)
EXTENDS ReviewBlocks, FiniteSetTheorems, TLAPS

\* What an execution x holds when the table of findings has the rows S: Harvey's
\* findings are of the round they are voted on; once Kira's worker found something
\* it remembers a round that did; Admin's findings have rows.
Sound(x, S) ==
    /\ x \in Work
    /\ x.block = "none" <=> x = NoWork
    /\ x.step \in {"analyze", "vote"} => x.block \in {"harvey", "kira"}
    /\ x.block = "harvey" => \A f \in x.out : f.round = x.round
    /\ x.block = "kira" => (x.reported => x.best # {})
    /\ x.block = "admin" => x.step = "store" /\ x.out \subseteq S

StoredInv == output \in [Block -> Output] /\ NeverZeroed /\ OutputsRecorded

BlocksInv ==
    /\ work \in [Worker -> Work]
    /\ \A w \in Worker : Sound(work[w], rows)
    /\ started \in 0 .. MaxExecutions
    /\ rows \subseteq Finding
    /\ StoredInv

LEMMA BlocksInit == Init => BlocksInv
  BY BlocksAssumption DEF Init, BlocksInv, Sound, StoredInv, NeverZeroed, OutputsRecorded,
     Work, Output, Execution, NoWork, NoOutput, Block

\* A step of one worker that only adds rows leaves the others sound.
LEMMA Frame ==
  ASSUME BlocksInv, NEW w \in Worker, NEW x, Sound(x, rows'),
         work' = [work EXCEPT ![w] = x], rows \subseteq rows', rows' \subseteq Finding,
         started' \in 0 .. MaxExecutions, StoredInv'
  PROVE  BlocksInv'
<1>1. x \in Work
  BY DEF Sound
<1>2. work' \in [Worker -> Work]
  BY <1>1 DEF BlocksInv
<1>3. \A v \in Worker : Sound(work'[v], rows')
  <2> TAKE v \in Worker
  <2>1. CASE v = w
    BY <2>1 DEF BlocksInv
  <2>2. CASE v # w
    BY <2>2 DEF BlocksInv, Sound
  <2>3. QED
    BY <2>1, <2>2
<1>4. QED
  BY <1>2, <1>3 DEF BlocksInv

LEMMA IdleSound == ASSUME NEW S PROVE Sound(NoWork, S)
  BY BlocksAssumption DEF Sound, Work, Execution, NoWork, Block

\* What is found in memory touches neither rows nor outputs.
LEMMA InMemory ==
  ASSUME BlocksInv, NEW w \in Worker, NEW x, Sound(x, rows),
         work' = [work EXCEPT ![w] = x], UNCHANGED <<started, rows, output>>
  PROVE  BlocksInv'
<1>1. StoredInv'
  BY DEF BlocksInv, StoredInv, NeverZeroed, OutputsRecorded
<1>2. QED
  BY <1>1, Frame DEF BlocksInv

LEMMA StepBegin ==
  ASSUME BlocksInv, NEW w \in Worker, NEW b \in Block, Begin(w, b)
  PROVE  BlocksInv'
<1>1. started + 1 \in Nat /\ started' \in 0 .. MaxExecutions
  BY BlocksAssumption DEF BlocksInv, Begin
<1>2. StoredInv'
  BY DEF BlocksInv, StoredInv, NeverZeroed, OutputsRecorded, Begin
<1>3. CASE b = "admin"
  <2> DEFINE x == Execution(b, started + 1, "store", 0, BranchFindings)
  <2>1. BranchFindings \subseteq rows /\ BranchFindings \subseteq Finding
    BY DEF BlocksInv, StoredInv, OutputsRecorded, Block, BranchFindings
  <2>2. work' = [work EXCEPT ![w] = x]
    BY <1>3 DEF Begin
  <2>3. Sound(x, rows)
    BY <1>1, <1>3, <2>1, BlocksAssumption DEF Sound, Work, Execution, NoWork, Block
  <2>4. QED
    BY <1>1, <1>2, <2>2, <2>3, Frame DEF BlocksInv, Begin
<1>4. CASE b # "admin"
  <2> DEFINE x == Execution(b, started + 1, "analyze", 1, {})
  <2>1. work' = [work EXCEPT ![w] = x]
    BY <1>4 DEF Begin
  <2>2. Sound(x, rows)
    BY <1>1, <1>4, BlocksAssumption DEF Sound, Work, Execution, NoWork, Block
  <2>3. QED
    BY <1>1, <1>2, <2>1, <2>2, Frame DEF BlocksInv, Begin
<1>5. QED
  BY <1>3, <1>4

LEMMA FoundType ==
  ASSUME BlocksInv, NEW w \in Worker, work[w].block \in {"harvey", "kira"},
         NEW m \in Member, NEW i \in Issue
  PROVE  Found(w, m, i) \in Finding /\ Found(w, m, i).round = work[w].round
<1>1. work[w] \in Work
  BY DEF BlocksInv
<1>2. work[w].exec \in Nat /\ work[w].round \in Nat
  BY <1>1, BlocksAssumption DEF Work
<1>3. QED
  BY <1>2 DEF Found, Finding

LEMMA StepHarveyAnalyze ==
  ASSUME BlocksInv, NEW w \in Worker, HarveyAnalyze(w)
  PROVE  BlocksInv'
<1>1. work[w] \in Work /\ Sound(work[w], rows) /\ work[w].block = "harvey"
  BY DEF BlocksInv, HarveyAnalyze
<1>2. PICK report \in HarveyReports :
         work' = [work EXCEPT
             ![w].step = "vote",
             ![w].out = UNION {{Found(w, m, i) : i \in report[m]} : m \in Member},
             ![w].reported = @ \/ UNION {{Found(w, m, i) : i \in report[m]} : m \in Member} # {}]
  BY DEF HarveyAnalyze
<1> DEFINE out == UNION {{Found(w, m, i) : i \in report[m]} : m \in Member}
           x == [work[w] EXCEPT !.step = "vote", !.out = out, !.reported = @ \/ out # {}]
<1>3. \A f \in out : f \in Finding /\ f.round = work[w].round
  <2> SUFFICES ASSUME NEW m \in Member, NEW i \in report[m]
               PROVE  Found(w, m, i) \in Finding /\ Found(w, m, i).round = work[w].round
    OBVIOUS
  <2>1. i \in Issue
    BY BlocksAssumption DEF Member
  <2>2. QED
    BY <1>1, <2>1, FoundType
<1> HIDE DEF out
<1>4. Sound(x, rows)
  BY <1>1, <1>3 DEF Sound, Work, Execution, NoWork
<1>5. work' = [work EXCEPT ![w] = x]
  BY <1>2 DEF BlocksInv, out
<1>6. QED
  BY <1>4, <1>5, InMemory DEF HarveyAnalyze

LEMMA StepKiraAnalyze ==
  ASSUME BlocksInv, NEW w \in Worker, KiraAnalyze(w)
  PROVE  BlocksInv'
<1>1. work[w] \in Work /\ Sound(work[w], rows) /\ work[w].block = "kira"
  BY DEF BlocksInv, KiraAnalyze
<1>2. PICK report \in KiraReports :
         work' = [work EXCEPT
             ![w].step = "vote",
             ![w].out = {Found(w, 1, i) : i \in report},
             ![w].best = BestRound(w, {Found(w, 1, i) : i \in report}),
             ![w].reported = @ \/ {Found(w, 1, i) : i \in report} # {}]
  BY DEF KiraAnalyze
<1> DEFINE out == {Found(w, 1, i) : i \in report}
           x == [work[w] EXCEPT !.step = "vote", !.out = out, !.best = BestRound(w, out),
                                !.reported = @ \/ out # {}]
<1>3. out \subseteq Finding
  BY <1>1, FoundType, BlocksAssumption DEF Member
<1> HIDE DEF out
<1>4. Sound(x, rows)
  BY <1>1, <1>3 DEF Sound, Work, Execution, NoWork, BestRound
<1>5. work' = [work EXCEPT ![w] = x]
  BY <1>2 DEF BlocksInv, out
<1>6. QED
  BY <1>4, <1>5, InMemory DEF KiraAnalyze

LEMMA StepVote ==
  ASSUME BlocksInv, NEW w \in Worker, Vote(w)
  PROVE  BlocksInv'
<1>1. work[w] \in Work /\ Sound(work[w], rows) /\ work[w].step = "vote"
  BY DEF BlocksInv, Vote
<1>2. PICK votes \in Votes :
         work' = [work EXCEPT ![w] =
             IF LastRound(w, votes)
             THEN [work[w] EXCEPT !.votes = votes, !.step = "store"]
             ELSE [work[w] EXCEPT !.out = {}, !.step = "analyze", !.round = @ + 1]]
  BY DEF Vote
<1>3. CASE LastRound(w, votes)
  <2> DEFINE x == [work[w] EXCEPT !.votes = votes, !.step = "store"]
  <2>1. Sound(x, rows)
    BY <1>1 DEF Sound, Work, Execution, NoWork, Votes
  <2>2. work' = [work EXCEPT ![w] = x]
    BY <1>2, <1>3 DEF BlocksInv
  <2>3. QED
    BY <2>1, <2>2, InMemory DEF Vote
<1>4. CASE ~LastRound(w, votes)
  <2> DEFINE x == [work[w] EXCEPT !.out = {}, !.step = "analyze", !.round = @ + 1]
  <2>1. work[w].round + 1 \in 0 .. MaxRounds
    BY <1>1, <1>4, BlocksAssumption DEF LastRound, Work
  <2>2. Sound(x, rows)
    BY <1>1, <2>1 DEF Sound, Work, Execution, NoWork
  <2>3. work' = [work EXCEPT ![w] = x]
    BY <1>2, <1>4 DEF BlocksInv
  <2>4. QED
    BY <2>2, <2>3, InMemory DEF Vote
<1>5. QED
  BY <1>3, <1>4

\* A commit that stores findings together with their rows.
LEMMA StepStore ==
  ASSUME BlocksInv, NEW w \in Worker, NEW findings, NEW new,
         work[w].block \in Block, Store(w, findings, new),
         new \subseteq Finding, findings \subseteq rows \cup new,
         work[w].block = "kira" => (work[w].reported => findings # {})
  PROVE  BlocksInv'
<1>1. work[w] \in Work
  BY DEF BlocksInv
<1>2. rows \subseteq rows' /\ rows' \subseteq Finding /\ started' \in 0 .. MaxExecutions
  BY DEF Store, BlocksInv
<1>3. StoredInv'
  <2>1. CASE UNCHANGED output
    BY <1>2, <2>1 DEF BlocksInv, StoredInv, NeverZeroed, OutputsRecorded
  <2>2. CASE output' = [output EXCEPT ![work[w].block] =
              [stored |-> TRUE, findings |-> findings, passed |-> Passed(work[w].votes),
               reported |-> work[w].reported]]
    <3> DEFINE o == [stored |-> TRUE, findings |-> findings, passed |-> Passed(work[w].votes),
                     reported |-> work[w].reported]
    <3>1. o \in Output
      <4>1. findings \subseteq Finding
        BY DEF BlocksInv
      <4>2. Passed(work[w].votes) \in BOOLEAN /\ work[w].reported \in BOOLEAN
        BY <1>1 DEF Passed, Work
      <4>3. QED
        BY <4>1, <4>2 DEF Output
    <3>2. findings \subseteq rows'
      BY DEF Store
    <3>3. o.findings = findings /\ o.reported = work[w].reported
      OBVIOUS
    <3> HIDE DEF o
    <3>4. output' = [output EXCEPT ![work[w].block] = o]
      BY <2>2 DEF o
    <3>5. output' \in [Block -> Output]
      BY <3>1, <3>4 DEF BlocksInv, StoredInv
    <3>6. OutputsRecorded'
      BY <1>2, <3>2, <3>3, <3>4 DEF BlocksInv, StoredInv, OutputsRecorded
    <3>7. NeverZeroed'
      BY <3>3, <3>4 DEF BlocksInv, StoredInv, NeverZeroed, Block
    <3>8. QED
      BY <3>5, <3>6, <3>7 DEF StoredInv
  <2>3. QED
    BY <2>1, <2>2 DEF Store
<1>4. QED
  BY <1>2, <1>3, IdleSound, Frame DEF Store

LEMMA StepStoreHarvey ==
  ASSUME BlocksInv, NEW w \in Worker, StoreHarvey(w)
  PROVE  BlocksInv'
<1>1. work[w] \in Work /\ work[w].block = "harvey"
  BY DEF BlocksInv, StoreHarvey
<1>2. work[w].out \subseteq Finding
  BY <1>1 DEF Work
<1>3. QED
  BY <1>1, <1>2, StepStore DEF StoreHarvey, Block

\* The validator returns nothing only when it was given nothing.
LEMMA ValidatedSome ==
  ASSUME NEW S, NEW valid \in Validated(S)
  PROVE  valid \subseteq S /\ (S # {} => valid # {})
  BY DEF Validated, Deduplicated

LEMMA StepStoreKira ==
  ASSUME BlocksInv, NEW w \in Worker, StoreKira(w)
  PROVE  BlocksInv'
<1>1. work[w] \in Work /\ Sound(work[w], rows) /\ work[w].block = "kira"
  BY DEF BlocksInv, StoreKira
<1> DEFINE final == IF work[w].out # {} THEN work[w].out ELSE work[w].best
<1>2. PICK valid \in Validated(final) : Store(w, valid, valid)
  BY DEF StoreKira
<1>3. final \subseteq Finding /\ (work[w].reported => final # {})
  BY <1>1 DEF Sound, Work
<1> HIDE DEF final
<1>4. valid \subseteq Finding /\ (work[w].reported => valid # {})
  BY <1>3, ValidatedSome
<1>5. QED
  BY <1>1, <1>2, <1>4, StepStore DEF Block

LEMMA StepStoreMerge ==
  ASSUME BlocksInv, NEW w \in Worker, StoreMerge(w)
  PROVE  BlocksInv'
<1>1. work[w] \in Work /\ Sound(work[w], rows) /\ work[w].block = "admin"
  BY DEF BlocksInv, StoreMerge
<1>2. work[w].out \subseteq rows /\ work[w].out \subseteq Finding /\ work[w].exec \in Nat
  BY <1>1 DEF Sound, Work
<1>3. {CopyOf(w, f) : f \in work[w].out} \subseteq Finding
  <2> SUFFICES ASSUME NEW f \in Finding PROVE CopyOf(w, f) \in Finding
    BY <1>2
  <2> QED
    BY <1>2 DEF CopyOf, Finding
<1>4. QED
  BY <1>1, <1>2, <1>3, StepStore DEF StoreMerge, Block

LEMMA StepSoftFail ==
  ASSUME BlocksInv, NEW w \in Worker, SoftFail(w)
  PROVE  BlocksInv'
<1>1. [NoOutput EXCEPT !.stored = TRUE] \in Output
  BY DEF Output, NoOutput
<1>2. StoredInv'
  BY <1>1 DEF BlocksInv, StoredInv, NeverZeroed, OutputsRecorded, SoftFail, NoOutput, Block
<1>3. QED
  BY <1>2, IdleSound, Frame DEF BlocksInv, SoftFail

LEMMA StepAbandon ==
  ASSUME BlocksInv, NEW w \in Worker, Abandon(w)
  PROVE  BlocksInv'
  BY IdleSound, InMemory DEF Abandon

LEMMA BlocksNext == BlocksInv /\ [Next]_vars => BlocksInv'
<1> SUFFICES ASSUME BlocksInv, [Next]_vars PROVE BlocksInv'
  OBVIOUS
<1>1. CASE UNCHANGED vars
  BY <1>1 DEF vars, BlocksInv, StoredInv, NeverZeroed, OutputsRecorded
<1>2. CASE Next
  BY <1>2, StepBegin, StepHarveyAnalyze, StepKiraAnalyze, StepVote, StepStoreHarvey,
     StepStoreKira, StepStoreMerge, StepSoftFail, StepAbandon DEF Next
<1>3. QED
  BY <1>1, <1>2

THEOREM BlocksInvariant == Spec => []BlocksInv
  BY BlocksInit, BlocksNext, PTL DEF Spec

-----------------------------------------------------------------------------
\* Every variable keeps its type, and no execution goes beyond the last round,
\* whatever the panels vote.
THEOREM TypeCorrect == Spec => []TypeOK
<1>1. BlocksInv => TypeOK
  BY DEF BlocksInv, StoredInv, Sound, TypeOK
<1>2. QED
  BY <1>1, BlocksInvariant, PTL

\* Two approvals of three are not both the same member's.
LEMMA TwoOfThree ==
  ASSUME NEW votes \in SUBSET Member, Passed(votes), NEW who
  PROVE  \E m \in votes : m # who
<1>1. SUFFICES ASSUME \A m \in votes : m = who PROVE FALSE
  OBVIOUS
<1>2. votes \subseteq {who}
  BY <1>1
<1>3. IsFiniteSet({who}) /\ Cardinality({who}) = 1
  BY FS_Singleton
<1>4. Cardinality(votes) \in Nat /\ Cardinality(votes) <= 1
  BY <1>2, <1>3, FS_Subset, FS_CardinalityType
<1>5. QED
  BY <1>4 DEF Passed

\* Nothing that Harvey's panel passes rests on its author's approval alone.
THEOREM PassedByPeers == Spec => []PeerApproved
<1>1. BlocksInv => PeerApproved
  <2> SUFFICES ASSUME BlocksInv, NEW w \in Worker, work[w].block = "harvey",
                      Passed(work[w].votes), NEW f \in work[w].out
               PROVE  f.round = work[w].round /\ \E m \in work[w].votes : m # f.who
    BY DEF PeerApproved
  <2>1. Sound(work[w], rows) /\ work[w].votes \in SUBSET Member
    BY DEF BlocksInv, Work
  <2>2. QED
    BY <2>1, TwoOfThree DEF Sound
<1>2. QED
  BY <1>1, BlocksInvariant, PTL

\* Kira's output has findings whenever any of the rounds behind it had.
THEOREM KiraNeverZeroed == Spec => []NeverZeroed
<1>1. BlocksInv => NeverZeroed
  BY DEF BlocksInv, StoredInv
<1>2. QED
  BY <1>1, BlocksInvariant, PTL

\* Every finding of every output has its row, whatever executions overlap, fail
\* softly or are abandoned.
THEOREM FindingsRecorded == Spec => []OutputsRecorded
<1>1. BlocksInv => OutputsRecorded
  BY DEF BlocksInv, StoredInv
<1>2. QED
  BY <1>1, BlocksInvariant, PTL
=============================================================================
